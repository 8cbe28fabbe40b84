------------------------ MODULE ForeignModifyProofs ------------------------
(***************************************************************************)
(* Proofs about ForeignModify for every statement and every foreign table: *)
(* the types of its state, what an error leaves in the backend, how many   *)
(* rows wait in buffers, what the data files of Iceberg hold, and that     *)
(* INSERTs, UPDATEs and DELETEs do what StatementEffect says of them.      *)
(***************************************************************************)
EXTENDS ForeignModify, FiniteSetTheorems, NaturalsInduction, TLAPS

-----------------------------------------------------------------------------
(* Induction, and the library's operators on sequences.                    *)

\* Every set of naturals has a least member.
LEMMA LeastMember ==
  ASSUME NEW T, T \subseteq Nat, T # {}
  PROVE  \E x \in T : \A y \in T : x <= y
<1>1. PICK x \in T : \A y \in T : ~(<<y, x>> \in OpToRel(<, Nat))
  BY NatLessThanWellFounded, WFMin, Zenon
<1>2. \A y \in T : ~(y < x)
  BY <1>1, Zenon DEF OpToRel
<1> QED BY <1>2

\* A set with 0 and all successors of its members has every natural.
LEMMA Inductive ==
  ASSUME NEW S, 0 \in S, \A n \in Nat : n \in S => n + 1 \in S
  PROVE  Nat \subseteq S
<1> SUFFICES ASSUME Nat \ S # {} PROVE FALSE
  OBVIOUS
<1>1. PICK x \in Nat \ S : \A y \in Nat \ S : x <= y
  BY LeastMember, Nat \ S \subseteq Nat
<1>2. x - 1 \in Nat /\ x - 1 \in S
  BY <1>1
<1> QED BY <1>1, <1>2

LEMMA AppendIs ==
  ASSUME NEW S, NEW s \in Seq(S), NEW x \in S
  PROVE  Append(s, x) \in Seq(S) /\ Append(s, x) # <<>>
<1> DEFINE t == Append(s, x)
<1>1. t \in Seq(S) /\ Len(t) = Len(s) + 1 /\ Len(s) \in Nat
  OBVIOUS
<1>2. Len(t) # 0
  BY <1>1
<1> HIDE DEF t
<1>3. t # <<>>
  BY <1>2
<1> QED BY <1>1, <1>3 DEF t

\* f[i] is the first i sequences of ss one after the other.
Concats(ss, f, n) ==
  \A i \in 1..n : (i = 1 => f[i] = ss[i]) /\ (i # 1 => f[i] = f[i - 1] \o ss[i])

LEMMA ConcatsExist ==
  ASSUME NEW S, NEW ss \in Seq(Seq(S)), NEW n \in 0..Len(ss)
  PROVE  \E f \in [1..n -> Seq(S)] : Concats(ss, f, n)
<1> DEFINE Has == {k \in Nat : k <= Len(ss) => \E f \in [1..k -> Seq(S)] : Concats(ss, f, k)}
<1>1. 0 \in Has
  <2> DEFINE e == [i \in 1..0 |-> <<>>]
  <2>1. e \in [1..0 -> Seq(S)] /\ Concats(ss, e, 0)
    BY DEF Concats
  <2> QED BY <2>1
<1>2. ASSUME NEW k \in Nat, k \in Has PROVE k + 1 \in Has
  <2>1. SUFFICES ASSUME k + 1 <= Len(ss)
                 PROVE  \E f \in [1..(k + 1) -> Seq(S)] : Concats(ss, f, k + 1)
    OBVIOUS
  <2>2. PICK f \in [1..k -> Seq(S)] : Concats(ss, f, k)
    BY <1>2, <2>1
  <2> DEFINE last == IF k = 0 THEN ss[1] ELSE f[k] \o ss[k + 1]
             g == [i \in 1..(k + 1) |-> IF i = k + 1 THEN last ELSE f[i]]
  <2>3. last \in Seq(S)
    <3>1. ss[k + 1] \in Seq(S)
      BY <2>1
    <3>2. CASE k = 0
      BY <3>1, <3>2
    <3>3. CASE k # 0
      BY <3>1, <3>3
    <3> QED BY <3>2, <3>3
  <2>4. g \in [1..(k + 1) -> Seq(S)]
    BY <2>3
  <2>5. ASSUME NEW i \in 1..(k + 1)
        PROVE  (i = 1 => g[i] = ss[i]) /\ (i # 1 => g[i] = g[i - 1] \o ss[i])
    <3>1. CASE i = k + 1
      <4>1. g[i] = last
        BY <3>1
      <4>5. k # 0 => i # 1
        BY <3>1
      <4>2. k = 0 => i = 1 /\ last = ss[i]
        BY <3>1
      <4>3. k # 0 => last = f[k] \o ss[i]
        BY <3>1, Zenon
      <4>4. k # 0 => g[i - 1] = f[k]
        <5> HIDE DEF last
        <5> QED BY <3>1
      <4> QED BY <4>1, <4>2, <4>3, <4>4, <4>5
    <3>2. CASE i # k + 1
      <4>1. g[i] = f[i] /\ i \in 1..k
        BY <3>2
      <4>2. (i = 1 => f[i] = ss[i]) /\ (i # 1 => f[i] = f[i - 1] \o ss[i])
        BY <2>2, <4>1 DEF Concats
      <4>3. i # 1 => g[i - 1] = f[i - 1]
        BY <4>1
      <4> QED BY <4>1, <4>2, <4>3
    <3> QED BY <3>1, <3>2
  <2>6. Concats(ss, g, k + 1)
    BY <2>5, Zenon DEF Concats
  <2> HIDE DEF g
  <2> QED BY <2>4, <2>6
<1>3. Nat \subseteq Has
  <2> HIDE DEF Has
  <2> QED BY <1>1, <1>2, Inductive
<1> QED BY <1>3

\* To show where flattening leads: G[i] is to hold what the first i sequences make.
LEMMA FlattenReaches ==
  ASSUME NEW S, NEW ss \in Seq(Seq(S)), NEW G, <<>> \in G[0],
         Len(ss) # 0 => ss[1] \in G[1],
         \A i \in 2..Len(ss), s \in Seq(S) : s \in G[i - 1] => s \o ss[i] \in G[i]
  PROVE  FlattenSeq(ss) \in Seq(S) /\ FlattenSeq(ss) \in G[Len(ss)]
<1>1. CASE Len(ss) = 0
  <2>1. FlattenSeq(ss) = ss
    BY <1>1 DEF FlattenSeq
  <2>2. ss = <<>> /\ <<>> \in Seq(S)
    BY <1>1
  <2> QED BY <1>1, <2>1, <2>2
<1>2. CASE Len(ss) # 0
  <2> DEFINE E(f) == f = [i \in 1..Len(ss) |-> IF i = 1 THEN ss[i] ELSE f[i - 1] \o ss[i]]
             ch == CHOOSE f : E(f)
  <2>1. FlattenSeq(ss) = ch[Len(ss)]
    BY <1>2 DEF FlattenSeq
  <2>2. \E f : E(f)
    <3>1. PICK f \in [1..Len(ss) -> Seq(S)] : Concats(ss, f, Len(ss))
      BY ConcatsExist
    <3>2. \A i \in 1..Len(ss) : f[i] = IF i = 1 THEN ss[i] ELSE f[i - 1] \o ss[i]
      BY <3>1, Zenon DEF Concats
    <3>3. f = [i \in 1..Len(ss) |-> f[i]]
      BY <3>1
    <3>4. f = [i \in 1..Len(ss) |-> IF i = 1 THEN ss[i] ELSE f[i - 1] \o ss[i]]
      BY <3>2, <3>3, Zenon
    <3> QED BY <3>4, Zenon
  <2>3. ch = [i \in 1..Len(ss) |-> IF i = 1 THEN ss[i] ELSE ch[i - 1] \o ss[i]]
    BY <2>2, Zenon
  <2> HIDE DEF ch
  <2>4. Concats(ss, ch, Len(ss))
    <3>1. \A i \in 1..Len(ss) : ch[i] = IF i = 1 THEN ss[i] ELSE ch[i - 1] \o ss[i]
      BY <2>3, Zenon
    <3> QED BY <3>1, Zenon DEF Concats
  <2> DEFINE Has == {j \in Nat : j \in 1..Len(ss) => ch[j] \in Seq(S) /\ ch[j] \in G[j]}
  <2>5. 0 \in Has
    OBVIOUS
  <2>6. ASSUME NEW j \in Nat, j \in Has PROVE j + 1 \in Has
    <3> SUFFICES ASSUME NEW m, m = j + 1, m \in 1..Len(ss) PROVE ch[m] \in Seq(S) /\ ch[m] \in G[m]
      OBVIOUS
    <3>1. (m = 1 => ch[m] = ss[m]) /\ (m # 1 => ch[m] = ch[m - 1] \o ss[m])
      BY <2>4, Zenon DEF Concats
    <3>2. ss[m] \in Seq(S)
      OBVIOUS
    <3>3. m # 1 => m - 1 = j /\ j \in 1..Len(ss) /\ m \in 2..Len(ss)
      OBVIOUS
    <3>4. m # 1 => ch[m - 1] \in Seq(S) /\ ch[m - 1] \in G[m - 1]
      BY <2>6, <3>3, Zenon
    <3>5. m # 1 => ch[m - 1] \o ss[m] \in Seq(S) /\ ch[m - 1] \o ss[m] \in G[m]
      BY <3>2, <3>3, <3>4
    <3>6. m = 1 => ss[m] \in G[m]
      BY <1>2
    <3> QED BY <3>1, <3>2, <3>5, <3>6, Zenon
  <2>7. Nat \subseteq Has
    <3> HIDE DEF Has
    <3> QED BY <2>5, <2>6, Inductive
  <2>8. ch[Len(ss)] \in Seq(S) /\ ch[Len(ss)] \in G[Len(ss)]
    BY <1>2, <2>7
  <2> QED BY <2>1, <2>8
<1> QED BY <1>1, <1>2

\* Flattening keeps to the elements of the sequences.
LEMMA FlattenKeeps ==
  ASSUME NEW S, NEW ss \in Seq(Seq(S))
  PROVE  FlattenSeq(ss) \in Seq(S)
<1> DEFINE G == [i \in 0..Len(ss) |-> Seq(S)]
<1>1. <<>> \in Seq(S) /\ Len(ss) \in Nat /\ \A i \in 0..Len(ss) : G[i] = Seq(S)
  OBVIOUS
<1>2. <<>> \in G[0] /\ (Len(ss) # 0 => ss[1] \in G[1])
  BY <1>1
<1>3. ASSUME NEW i \in 2..Len(ss), NEW s \in Seq(S) PROVE s \o ss[i] \in G[i]
  <2>1. ss[i] \in Seq(S) /\ i \in 0..Len(ss)
    BY <1>1
  <2> QED BY <1>1, <2>1
<1> HIDE DEF G
<1> QED BY <1>2, <1>3, FlattenReaches

\* f[i] is what is in T of the first i elements of s.
Selects(s, T, f, n) ==
  f[0] = <<>> /\ \A i \in 1..n : f[i] = IF s[i] \in T THEN Append(f[i - 1], s[i]) ELSE f[i - 1]

LEMMA SelectsExist ==
  ASSUME NEW S, NEW s \in Seq(S), NEW T, NEW n \in 0..Len(s)
  PROVE  \E f \in [0..n -> Seq(S)] : Selects(s, T, f, n)
<1> DEFINE Has == {k \in Nat : k <= Len(s) => \E f \in [0..k -> Seq(S)] : Selects(s, T, f, k)}
<1>1. 0 \in Has
  <2> DEFINE e == [i \in 0..0 |-> <<>>]
  <2>1. <<>> \in Seq(S)
    OBVIOUS
  <2>2. e \in [0..0 -> Seq(S)] /\ e[0] = <<>>
    BY <2>1
  <2>3. Selects(s, T, e, 0)
    BY <2>2 DEF Selects
  <2> HIDE DEF e
  <2> QED BY <2>2, <2>3
<1>2. ASSUME NEW k \in Nat, k \in Has PROVE k + 1 \in Has
  <2>1. SUFFICES ASSUME NEW m, m = k + 1, m <= Len(s)
                 PROVE  \E f \in [0..m -> Seq(S)] : Selects(s, T, f, m)
    OBVIOUS
  <2>2. PICK f \in [0..k -> Seq(S)] : Selects(s, T, f, k)
    BY <1>2, <2>1
  <2> DEFINE last == IF s[m] \in T THEN Append(f[k], s[m]) ELSE f[k]
             g == [i \in 0..m |-> IF i = m THEN last ELSE f[i]]
  <2>3. last \in Seq(S)
    <3>1. s[m] \in S /\ f[k] \in Seq(S)
      BY <2>1
    <3> QED BY <3>1
  <2>4. g \in [0..m -> Seq(S)]
    BY <2>1, <2>3
  <2>5. ASSUME NEW i \in 1..m
        PROVE  g[i] = IF s[i] \in T THEN Append(g[i - 1], s[i]) ELSE g[i - 1]
    <3>1. CASE i = m
      <4>1. g[i] = last /\ g[i - 1] = f[k]
        <5> HIDE DEF last
        <5> QED BY <2>1, <3>1
      <4> QED BY <3>1, <4>1, Zenon
    <3>2. CASE i # m
      <4>1. g[i] = f[i] /\ g[i - 1] = f[i - 1] /\ i \in 1..k
        <5> HIDE DEF last
        <5> QED BY <2>1, <3>2
      <4>2. f[i] = IF s[i] \in T THEN Append(f[i - 1], s[i]) ELSE f[i - 1]
        BY <2>2, <4>1, Zenon DEF Selects
      <4> QED BY <4>1, <4>2, Zenon
    <3> QED BY <3>1, <3>2
  <2>6. g[0] = <<>>
    <3>1. f[0] = <<>>
      BY <2>2 DEF Selects
    <3> HIDE DEF last
    <3> QED BY <2>1, <3>1
  <2>7. Selects(s, T, g, m)
    BY <2>5, <2>6, Zenon DEF Selects
  <2> HIDE DEF g
  <2> QED BY <2>4, <2>7
<1>3. Nat \subseteq Has
  <2> HIDE DEF Has
  <2> QED BY <1>1, <1>2, Inductive
<1> QED BY <1>3

LEMMA OnlyIs ==
  ASSUME NEW S, NEW s \in Seq(S), NEW T
  PROVE  \E ch : Only(s, T) = ch[Len(s)] /\ Selects(s, T, ch, Len(s))
<1> DEFINE E(f) == f = [i \in 0..Len(s) |->
                         IF i = 0 THEN <<>>
                         ELSE IF s[i] \in T THEN Append(f[i - 1], s[i]) ELSE f[i - 1]]
           ch == CHOOSE f : E(f)
<1>1. Only(s, T) = ch[Len(s)]
  BY DEF Only
<1>2. \E f : E(f)
  <2>0. Len(s) \in 0..Len(s)
    OBVIOUS
  <2>1. PICK f \in [0..Len(s) -> Seq(S)] : Selects(s, T, f, Len(s))
    <3> HIDE DEF E
    <3> QED BY <2>0, SelectsExist
  <2>2. ASSUME NEW i \in 0..Len(s)
        PROVE  f[i] = IF i = 0 THEN <<>>
                      ELSE IF s[i] \in T THEN Append(f[i - 1], s[i]) ELSE f[i - 1]
    <3>1. i # 0 => i \in 1..Len(s)
      OBVIOUS
    <3> QED BY <2>1, <3>1, Zenon DEF Selects
  <2>3. f = [i \in 0..Len(s) |-> f[i]]
    BY <2>1
  <2>4. E(f)
    BY <2>2, <2>3, Zenon
  <2> QED BY <2>4, Zenon
<1>3. ch = [i \in 0..Len(s) |->
              IF i = 0 THEN <<>>
              ELSE IF s[i] \in T THEN Append(ch[i - 1], s[i]) ELSE ch[i - 1]]
  BY <1>2, Zenon
<1> HIDE DEF ch
<1>4. Len(s) \in Nat
  OBVIOUS
<1>5. Selects(s, T, ch, Len(s))
  <2>1. \A i \in 0..Len(s) : ch[i] = IF i = 0 THEN <<>>
                ELSE IF s[i] \in T THEN Append(ch[i - 1], s[i]) ELSE ch[i - 1]
    BY <1>3, Zenon
  <2>2. 0 \in 0..Len(s) /\ \A i \in 1..Len(s) : i \in 0..Len(s) /\ i # 0
    BY <1>4
  <2> QED BY <2>1, <2>2, Zenon DEF Selects
<1> QED BY <1>1, <1>5

\* Only keeps to the elements in T, and keeps one when there is one.
LEMMA OnlyKeeps ==
  ASSUME NEW S, NEW s \in Seq(S), NEW T
  PROVE  /\ Only(s, T) \in Seq(S \cap T)
         /\ (\E i \in DOMAIN s : s[i] \in T) => Only(s, T) # <<>>
<1>1. PICK ch : Only(s, T) = ch[Len(s)] /\ Selects(s, T, ch, Len(s))
  BY OnlyIs
<1>4. Len(s) \in Nat
  OBVIOUS
<1>5. Selects(s, T, ch, Len(s))
  BY <1>1
<1> DEFINE Has == {j \in Nat : j <= Len(s) =>
                     /\ ch[j] \in Seq(S \cap T)
                     /\ (\E i \in 1..j : s[i] \in T) => ch[j] # <<>>}
<1>6. 0 \in Has
  <2>1. ch[0] = <<>> /\ <<>> \in Seq(S \cap T)
    BY <1>5 DEF Selects
  <2>2. ~\E i \in 1..0 : s[i] \in T
    OBVIOUS
  <2> QED BY <2>1, <2>2, Zenon
<1>7. ASSUME NEW j \in Nat, j \in Has PROVE j + 1 \in Has
  <2> SUFFICES ASSUME NEW m, m = j + 1, m <= Len(s)
               PROVE  /\ ch[m] \in Seq(S \cap T)
                      /\ (\E i \in 1..m : s[i] \in T) => ch[m] # <<>>
    OBVIOUS
  <2>1. m \in 1..Len(s) /\ m - 1 = j /\ j <= Len(s) /\ \A i \in 1..m : i = m \/ i \in 1..j
    BY <1>4
  <2>2. ch[m] = IF s[m] \in T THEN Append(ch[m - 1], s[m]) ELSE ch[m - 1]
    BY <1>5, <2>1, Zenon DEF Selects
  <2>3. /\ ch[j] \in Seq(S \cap T)
        /\ (\E i \in 1..j : s[i] \in T) => ch[j] # <<>>
    BY <1>7, <2>1
  <2> HIDE DEF Has
  <2>4. CASE s[m] \in T
    <3>1. ch[m] = Append(ch[j], s[m]) /\ s[m] \in S \cap T
      BY <2>1, <2>2, <2>4
    <3>2. Append(ch[j], s[m]) \in Seq(S \cap T) /\ Append(ch[j], s[m]) # <<>>
      <4> DEFINE U == S \cap T
                 e == s[m]
                 b == ch[j]
      <4>1. b \in Seq(U) /\ e \in U
        BY <2>3, <3>1
      <4> HIDE DEF U, e, b
      <4>2. Append(b, e) \in Seq(U) /\ Append(b, e) # <<>>
        BY <4>1, AppendIs
      <4> QED BY <4>2 DEF U, e, b
    <3> QED BY <3>1, <3>2
  <2>5. CASE s[m] \notin T
    <3>1. ch[m] = ch[j]
      BY <2>1, <2>2, <2>5
    <3>2. (\E i \in 1..m : s[i] \in T) => \E i \in 1..j : s[i] \in T
      BY <2>1, <2>5
    <3> QED BY <2>3, <3>1, <3>2
  <2> QED BY <2>4, <2>5
<1>8. Nat \subseteq Has
  <2> HIDE DEF Has
  <2> QED BY <1>6, <1>7, Inductive
<1>9. /\ ch[Len(s)] \in Seq(S \cap T)
      /\ (\E i \in 1..Len(s) : s[i] \in T) => ch[Len(s)] # <<>>
  BY <1>4, <1>8
<1>10. DOMAIN s = 1..Len(s)
  OBVIOUS
<1> QED BY <1>1, <1>9, <1>10

-----------------------------------------------------------------------------
(* Sorting.                                                                *)

\* A strict order of the indices of s in which "neither way" is transitive.
IsWeakOrder(less, D) ==
  /\ \A i, j \in D : <<i, j>> \in less => <<j, i>> \notin less
  /\ \A i, j, k \in D : <<i, k>> \in less => <<i, j>> \in less \/ <<j, k>> \in less

\* The indices up to j in the order of a stable sort.
UpTo(D, less, j) == {i \in D : <<i, j>> \in less \/ (i <= j /\ <<j, i>> \notin less)}

LEMMA UpToGrows ==
  ASSUME NEW D, D \subseteq Int, NEW less, IsWeakOrder(less, D),
         NEW i \in D, NEW j \in D, i # j, i \in UpTo(D, less, j)
  PROVE  UpTo(D, less, i) \subseteq UpTo(D, less, j) \ {j}
<1> SUFFICES ASSUME NEW k \in UpTo(D, less, i) PROVE k \in UpTo(D, less, j) /\ k # j
  OBVIOUS
<1>1. i \in Int /\ j \in Int /\ k \in Int /\ k \in D
  BY DEF UpTo
<1>2. /\ <<k, i>> \in less => <<i, k>> \notin less
      /\ <<i, j>> \in less => <<j, i>> \notin less
  BY <1>1 DEF IsWeakOrder
<1>3. /\ <<k, i>> \in less => <<k, j>> \in less \/ <<j, i>> \in less
      /\ <<i, j>> \in less => <<i, k>> \in less \/ <<k, j>> \in less
      /\ <<j, k>> \in less => <<j, i>> \in less \/ <<i, k>> \in less
  BY <1>1 DEF IsWeakOrder
<1>4. <<k, i>> \in less \/ (k <= i /\ <<i, k>> \notin less)
  BY DEF UpTo
<1>5. <<i, j>> \in less \/ (i <= j /\ <<j, i>> \notin less)
  BY DEF UpTo
<1>6. <<k, j>> \in less \/ (k <= j /\ <<j, k>> \notin less)
  BY <1>1, <1>2, <1>3, <1>4, <1>5
<1>7. k # j
  BY <1>1, <1>2, <1>4, <1>5
<1> QED BY <1>1, <1>6, <1>7 DEF UpTo

LEMMA UpToTotal ==
  ASSUME NEW D, D \subseteq Int, NEW less, IsWeakOrder(less, D), NEW i \in D, NEW j \in D
  PROVE  i \in UpTo(D, less, j) \/ j \in UpTo(D, less, i)
<1>1. i \in Int /\ j \in Int /\ (i <= j \/ j <= i)
  OBVIOUS
<1> QED BY <1>1 DEF UpTo

LEMMA PlaceGrows ==
  ASSUME NEW D, D \subseteq Int, IsFiniteSet(D), NEW less, IsWeakOrder(less, D),
         NEW i \in D, NEW j \in D, i # j, i \in UpTo(D, less, j)
  PROVE  Cardinality(UpTo(D, less, i)) < Cardinality(UpTo(D, less, j))
<1>1. UpTo(D, less, j) \subseteq D /\ IsFiniteSet(UpTo(D, less, j))
  BY FS_Subset DEF UpTo
<1>2. j \in UpTo(D, less, j)
  BY DEF UpTo, IsWeakOrder
<1>3. /\ IsFiniteSet(UpTo(D, less, j) \ {j})
      /\ Cardinality(UpTo(D, less, j) \ {j}) = Cardinality(UpTo(D, less, j)) - 1
  BY <1>1, <1>2, FS_RemoveElement
<1>4. /\ IsFiniteSet(UpTo(D, less, i))
      /\ Cardinality(UpTo(D, less, i)) <= Cardinality(UpTo(D, less, j) \ {j})
  BY <1>3, UpToGrows, FS_Subset
<1>5. Cardinality(UpTo(D, less, i)) \in Nat /\ Cardinality(UpTo(D, less, j)) \in Nat
  BY <1>1, <1>4, FS_CardinalityType
<1> HIDE DEF UpTo
<1> QED BY <1>3, <1>4, <1>5

\* Every place of a sequence is that of one index in the order of the sort.
LEMMA PlacesTaken ==
  ASSUME NEW n \in Nat, NEW less, IsWeakOrder(less, 1..n), NEW m \in 1..n
  PROVE  \E j \in 1..n : Cardinality(UpTo(1..n, less, j)) = m
<1> DEFINE D == 1..n
           place == [j \in D |-> Cardinality(UpTo(D, less, j))]
<1>1. IsFiniteSet(D) /\ Cardinality(D) = n /\ D \subseteq Int
  BY FS_Interval
<1>2. ASSUME NEW j \in D PROVE place[j] \in D
  <2>1. UpTo(D, less, j) \subseteq D /\ j \in UpTo(D, less, j)
    BY DEF UpTo, IsWeakOrder
  <2>2. IsFiniteSet(UpTo(D, less, j)) /\ Cardinality(UpTo(D, less, j)) <= n
    BY <1>1, <2>1, FS_Subset
  <2>3. Cardinality(UpTo(D, less, j)) \in Nat /\ Cardinality(UpTo(D, less, j)) # 0
    BY <2>1, <2>2, FS_CardinalityType, FS_EmptySet
  <2> QED BY <2>2, <2>3
<1>3. ASSUME NEW i \in D, NEW j \in D, place[i] = place[j] PROVE i = j
  <2>1. CASE i \in UpTo(D, less, j)
    <3>1. i # j => place[i] < place[j]
      BY <1>1, <2>1, PlaceGrows
    <3> QED BY <1>2, <1>3, <3>1
  <2>2. CASE j \in UpTo(D, less, i)
    <3>1. i # j => place[j] < place[i]
      BY <1>1, <2>2, PlaceGrows
    <3> QED BY <1>2, <1>3, <3>1
  <2> QED BY <1>1, <2>1, <2>2, UpToTotal
<1> HIDE DEF D
<1>4. place \in [D -> D]
  BY <1>2
<1>5. place \in Injection(D, D)
  <2>1. IsInjective(place)
    BY <1>3, <1>4, Zenon DEF IsInjective
  <2> QED BY <1>4, <2>1 DEF Injection
<1>6. place \in Surjection(D, D)
  BY <1>1, <1>5, FS_Injection
<1>7. m \in D
  BY DEF D
<1>8. \E j \in D : place[j] = m
  BY <1>6, <1>7 DEF Surjection
<1> QED BY <1>8 DEF D

\* Elements of s, as many as s has, none of them less than an earlier one.
InOrder(s, less, sorted) ==
  \A m, n \in 1..Len(s) : m < n =>
    \E i, j \in DOMAIN s : sorted[m] = s[i] /\ sorted[n] = s[j] /\ <<j, i>> \notin less

LEMMA StableSortSorts ==
  ASSUME NEW S, NEW s \in Seq(S), NEW less, IsWeakOrder(less, DOMAIN s)
  PROVE  /\ StableSort(s, less) \in [1..Len(s) -> S]
         /\ InOrder(s, less, StableSort(s, less))
<1> DEFINE D == DOMAIN s
           place(j) == Cardinality(UpTo(D, less, j))
           of(m) == CHOOSE j \in D : place(j) = m
<1>1. D = 1..Len(s) /\ Len(s) \in Nat /\ \A i \in D : s[i] \in S
  OBVIOUS
<1>2. StableSort(s, less) = [m \in D |-> s[of(m)]]
  BY DEF StableSort, UpTo
<1>3. ASSUME NEW m \in D PROVE of(m) \in D /\ place(of(m)) = m
  <2> HIDE DEF D
  <2>1. IsWeakOrder(less, 1..Len(s)) /\ m \in 1..Len(s) /\ Len(s) \in Nat
    BY <1>1 DEF D
  <2>2. \E j \in 1..Len(s) : Cardinality(UpTo(1..Len(s), less, j)) = m
    BY <2>1, PlacesTaken
  <2>3. \E j \in D : place(j) = m
    BY <2>2, <1>1
  <2> QED BY <2>3, ZenonT(40)
<1>4. IsFiniteSet(D) /\ D \subseteq Int
  BY <1>1, FS_Interval
<1>5. ASSUME NEW m \in D, NEW n \in D, m < n PROVE <<of(n), of(m)>> \notin less
  <2> SUFFICES ASSUME <<of(n), of(m)>> \in less PROVE FALSE
    OBVIOUS
  <2>1. of(m) \in D /\ of(n) \in D /\ place(of(m)) = m /\ place(of(n)) = n
    BY <1>3
  <2> HIDE DEF of
  <2>2. of(n) # of(m) /\ of(n) \in UpTo(D, less, of(m))
    BY <1>1, <2>1, <1>5 DEF UpTo, IsWeakOrder
  <2>3. place(of(n)) < place(of(m))
    BY <1>1, <1>4, <2>1, <2>2, PlaceGrows
  <2> HIDE DEF place
  <2> QED BY <2>1, <2>3, <1>5
<1> HIDE DEF of, place, D
<1>6. StableSort(s, less) \in [D -> S]
  BY <1>1, <1>2, <1>3
<1>7. ASSUME NEW m \in D, NEW n \in D, m < n
      PROVE  \E i, j \in DOMAIN s : /\ StableSort(s, less)[m] = s[i]
                                     /\ StableSort(s, less)[n] = s[j]
                                     /\ <<j, i>> \notin less
  <2>1. of(m) \in DOMAIN s /\ of(n) \in DOMAIN s /\ <<of(n), of(m)>> \notin less
    BY <1>3, <1>5, <1>7 DEF D
  <2>2. StableSort(s, less)[m] = s[of(m)] /\ StableSort(s, less)[n] = s[of(n)]
    BY <1>2
  <2> QED BY <2>1, <2>2, Zenon
<1>8. InOrder(s, less, StableSort(s, less))
  <2>1. \A m, n \in DOMAIN s : m < n =>
          \E i, j \in DOMAIN s : /\ StableSort(s, less)[m] = s[i]
                                 /\ StableSort(s, less)[n] = s[j]
                                 /\ <<j, i>> \notin less
    BY <1>7, Zenon DEF D
  <2>2. DOMAIN s = 1..Len(s)
    BY <1>1 DEF D
  <2> QED BY <2>1, <2>2, Zenon DEF InOrder
<1> QED BY <1>1, <1>6, <1>8

-----------------------------------------------------------------------------
(* What a method returns.                                                  *)

\* How a method ends.
Outcomes == {"ok", "error", "unwinds"}

-----------------------------------------------------------------------------
(* Every method of every wrapper returns one of the outcomes.              *)

LEMMA ResultOutcomes ==
  /\ \A i, q : Quiet(i).err = "ok" /\ Asks(i, q).err = "ok"
  /\ \A i : Fails(i).err = "error" /\ Unwinds(i).err = "unwinds"
BY DEF Quiet, Asks, Fails, Unwinds, Result

LEMMA RowRequestOutcomes ==
  /\ \A i, r : Add(i, r).err = "ok"
  /\ \A i, id, cells : Set(i, id, cells).err = "ok"
  /\ \A i, id : Del(i, id).err = "ok"
BY ResultOutcomes DEF Add, Set, Del

LEMMA IcebergOutcomes ==
  ASSUME NEW t, NEW i, NEW flush
  PROVE  processCurrentBatch(t, i, flush).err \in Outcomes
<1>1. \A j, f : processPartitions(t, j, f).err \in Outcomes
  BY ResultOutcomes DEF processPartitions, writeRecordBatches, Outcomes
<1> QED BY <1>1, ResultOutcomes DEF processCurrentBatch, Outcomes

LEMMA S3vectorsOutcomes ==
  ASSUME NEW i PROVE S3vectorsFlush(i).err \in Outcomes
BY ResultOutcomes DEF S3vectorsFlush, Outcomes

LEMMA InsertOutcomes == ASSUME NEW r PROVE insert(r).err \in Outcomes
<1> USE ResultOutcomes, RowRequestOutcomes DEF Outcomes
<1>1. CASE c.w = "bigquery"
  BY <1>1 DEF insert, BigqueryInsert
<1>2. CASE c.w \in {"clickhouse", "mysql", "mongodb", "cfd1", "snowflake"}
  BY <1>2 DEF insert, ClickhouseInsert, MysqlInsert, MongodbInsert, Cfd1Insert, SnowflakeInsert
<1>3. CASE c.w \in {"dynamodb", "stripe"}
  BY <1>3 DEF insert, DynamodbInsert, StripeInsert
<1>4. CASE c.w = "s3vectors"
  BY <1>4, S3vectorsOutcomes DEF insert, S3vectorsInsert
<1>5. CASE c.w = "iceberg"
  BY <1>5, IcebergOutcomes DEF insert, IcebergInsert
<1>6. CASE c.w \in {"clerk", "orb", "paddle", "cal"}
  BY <1>6 DEF insert, ClerkInsert, OrbInsert, PaddleInsert, CalInsert
<1>7. CASE c.w \notin {"bigquery", "clickhouse", "mysql", "mongodb", "dynamodb", "stripe",
                       "s3vectors", "iceberg", "cfd1", "snowflake", "clerk", "orb", "paddle", "cal"}
  BY <1>7 DEF insert
<1> QED BY <1>1, <1>2, <1>3, <1>4, <1>5, <1>6, <1>7

LEMMA UpdateOutcomes == ASSUME NEW id, NEW cells PROVE update(id, cells).err \in Outcomes
<1> USE ResultOutcomes, RowRequestOutcomes DEF Outcomes
<1>1. CASE c.w \in {"bigquery", "clickhouse", "mysql", "mongodb"}
  BY <1>1 DEF update, BigqueryUpdate, ClickhouseUpdate, MysqlUpdate, MongodbUpdate
<1>2. CASE c.w \in {"dynamodb", "stripe"}
  BY <1>2 DEF update, DynamodbUpdate, StripeUpdate
<1>3. CASE c.w \in {"cfd1", "snowflake"}
  BY <1>3 DEF update, Cfd1Update, SnowflakeUpdate
<1>4. CASE c.w \in {"clerk", "orb", "paddle", "cal"}
  BY <1>4 DEF update, ClerkUpdate, OrbUpdate, PaddleUpdate, CalUpdate
<1>5. CASE c.w \notin {"bigquery", "clickhouse", "mysql", "mongodb", "dynamodb", "stripe",
                       "cfd1", "snowflake", "clerk", "orb", "paddle", "cal"}
  BY <1>5 DEF update
<1> QED BY <1>1, <1>2, <1>3, <1>4, <1>5

LEMMA DeleteOutcomes == ASSUME NEW id PROVE delete(id).err \in Outcomes
<1> USE ResultOutcomes, RowRequestOutcomes DEF Outcomes
<1>1. CASE c.w \in {"bigquery", "clickhouse", "mysql", "mongodb", "dynamodb", "stripe"}
  BY <1>1 DEF delete, BigqueryDelete, ClickhouseDelete, MysqlDelete, MongodbDelete,
              DynamodbDelete, StripeDelete
<1>2. CASE c.w \in {"s3vectors", "cfd1", "snowflake", "clerk", "orb", "paddle", "cal"}
  BY <1>2 DEF delete, S3vectorsDelete, Cfd1Delete, SnowflakeDelete, ClerkDelete, OrbDelete,
              PaddleDelete, CalDelete
<1>3. CASE c.w \notin {"bigquery", "clickhouse", "mysql", "mongodb", "dynamodb", "stripe",
                       "s3vectors", "cfd1", "snowflake", "clerk", "orb", "paddle", "cal"}
  BY <1>3 DEF delete
<1> QED BY <1>1, <1>2, <1>3

LEMMA EndOutcomes == end_modify.err \in Outcomes
BY ResultOutcomes, S3vectorsOutcomes, IcebergOutcomes
DEF end_modify, S3vectorsEnd, IcebergEnd, Outcomes

-----------------------------------------------------------------------------
(* The life of the modify state.                                           *)

\* A statement owns at most one state, from begin_modify to its end; a request
\* is on its way only while there is one, and nothing has unwound before the
\* statement failed.
LifeInv ==
  /\ phase \in {"plan", "begin", "open", "ending", "done", "failed"}
  /\ contexts \in 0..1 /\ unwound \in BOOLEAN
  /\ unwound => phase = "failed" /\ contexts = 1
  /\ phase = "failed" /\ contexts = 1 => unwound
  /\ phase \in {"plan", "begin", "done"} => contexts = 0
  /\ ~Idle => phase \in {"open", "ending"} /\ contexts = 1

LEMMA LifeInvInit == Init => LifeInv
<1> SUFFICES ASSUME Init PROVE LifeInv
  OBVIOUS
<1>1. phase = "plan" /\ contexts = 0 /\ Idle
  BY DEF Init, Idle
<1>2. ~unwound /\ unwound \in BOOLEAN
  BY DEF Init
<1> QED BY <1>1, <1>2 DEF LifeInv

LEMMA HandlesLife ==
  ASSUME LifeInv, phase = "open", Idle, contexts = 1,
         NEW res, res.err \in Outcomes, Handles(res)
  PROVE  LifeInv'
<1>1. CASE res.err = "ok"
  <2>1. UNCHANGED <<phase, contexts, unwound>>
    BY <1>1 DEF Handles
  <2> QED BY <2>1 DEF LifeInv
<1>2. CASE res.err = "error"
  <2>1. DropState
    BY <1>2 DEF Handles
  <2> QED BY <2>1 DEF DropState, LifeInv, Idle
<1>3. CASE res.err = "unwinds"
  <2>1. Unwind
    BY <1>3 DEF Handles
  <2> QED BY <2>1 DEF Unwind, LifeInv, Idle
<1> QED BY <1>1, <1>2, <1>3 DEF Outcomes

LEMMA LifeInvStep == LifeInv /\ [Next]_vars => LifeInv'
<1> SUFFICES ASSUME LifeInv, [Next]_vars PROVE LifeInv'
  OBVIOUS
<1> USE DEF local
<1>1. CASE PlanForeignModify
  BY <1>1 DEF PlanForeignModify, LifeInv, Idle
<1>2. CASE BeginForeignModify
  <2>1. ~unwound /\ unwound \in BOOLEAN /\ contexts = 0 /\ Idle'
    BY <1>2 DEF BeginForeignModify, LifeInv, Idle
  <2>2. CASE phase' = "open" /\ unwound' = unwound /\ contexts' \in {0, 1}
    BY <2>1, <2>2 DEF LifeInv
  <2>3. CASE phase' = "failed" /\ contexts' = 1 /\ unwound' = TRUE
    <3>1. unwound' /\ unwound' \in BOOLEAN
      BY <2>3
    <3> QED BY <2>1, <2>3, <3>1 DEF LifeInv
  <2>4. CASE phase' = "failed" /\ contexts' = contexts /\ unwound' = unwound
    BY <2>1, <2>4 DEF LifeInv
  <2> QED BY <1>2, <2>1, <2>2, <2>3, <2>4 DEF BeginForeignModify
<1>3. CASE ExecForeignInsert
  BY <1>3, InsertOutcomes, HandlesLife DEF ExecForeignInsert
<1>4. CASE FetchPage
  BY <1>4 DEF FetchPage, LifeInv, Idle
<1>5. CASE ExecForeignUpdate
  <2>1. PICK r : /\ TakesRow(r)
                 /\ IF get_rowid_cell(r) = Null THEN SkipsRow
                    ELSE Handles(update(get_rowid_cell(r), new_row))
    BY <1>5 DEF ExecForeignUpdate
  <2>2. CASE SkipsRow
    BY <2>2 DEF SkipsRow, LifeInv, Idle
  <2> QED BY <2>1, <2>2, UpdateOutcomes, HandlesLife DEF TakesRow
<1>6. CASE ExecForeignDelete
  <2>1. PICK r : /\ TakesRow(r)
                 /\ IF get_rowid_cell(r) = Null THEN SkipsRow
                    ELSE Handles(delete(get_rowid_cell(r)))
    BY <1>6 DEF ExecForeignDelete
  <2>2. CASE SkipsRow
    BY <2>2 DEF SkipsRow, LifeInv, Idle
  <2> QED BY <2>1, <2>2, DeleteOutcomes, HandlesLife DEF TakesRow
<1>7. CASE RemoteWrites
  BY <1>7 DEF RemoteWrites, Answered, SendAgain, GivesUp, DropState, LifeInv, Idle
<1>8. CASE RemoteRefuses
  BY <1>8 DEF RemoteRefuses, SendAgain, DropState, LifeInv, Idle
<1>9. CASE EndForeignModify
  <2>1. CASE contexts = 0
    BY <1>9, <2>1 DEF EndForeignModify, LifeInv, Idle
  <2>2. CASE contexts # 0 /\ end_modify.err = "ok"
    BY <1>9, <2>2 DEF EndForeignModify, LifeInv, Idle
  <2>3. CASE contexts # 0 /\ end_modify.err # "ok"
    BY <1>9, <2>3 DEF EndForeignModify, DropState, LifeInv, Idle
  <2> QED BY <2>1, <2>2, <2>3
<1>10. CASE AbortElsewhere
  BY <1>10 DEF AbortElsewhere, Unwind, LifeInv, Idle
<1>11. CASE RivalDeletes \/ Finished
  BY <1>11 DEF RivalDeletes, Finished, vars, LifeInv, Idle
<1>12. CASE UNCHANGED vars
  BY <1>12 DEF vars, LifeInv, Idle
<1> QED
  BY <1>1, <1>2, <1>3, <1>4, <1>5, <1>6, <1>7, <1>8, <1>9, <1>10, <1>11, <1>12 DEF Next

\* A statement that succeeds leaves no modify state and no memory context; one
\* that fails leaves them exactly when the error went past the functions of
\* modify.rs.
THEOREM NoStateLeft == Spec => []NothingLeftBehind
<1>1. LifeInv => NothingLeftBehind
  BY DEF LifeInv, NothingLeftBehind
<1> QED BY <1>1, LifeInvInit, LifeInvStep, PTL DEF Spec

-----------------------------------------------------------------------------
(* The order of the keys.                                                  *)

Rows == [id : Nat \cup {Null}, val : Int \cup {Null}]

\* f[m] is the digits of m, for every number up to n.
Digits(f, n) ==
  \A m \in 0..n : f[m] = IF m < 10 THEN <<m>> ELSE Append(f[m \div 10], m % 10)

LEMMA DigitsExist ==
  ASSUME NEW n \in Nat
  PROVE  \E f \in [0..n -> Seq(Int)] : Digits(f, n)
<1> DEFINE Has == {k \in Nat : \E f \in [0..k -> Seq(Int)] : Digits(f, k)}
<1>1. 0 \in Has
  <2> DEFINE e == [i \in 0..0 |-> <<i>>]
  <2>1. \A i \in 0..0 : i = 0 /\ <<i>> \in Seq(Int)
    OBVIOUS
  <2>2. e \in [0..0 -> Seq(Int)] /\ e[0] = <<0>>
    BY <2>1
  <2> HIDE DEF e
  <2>3. ASSUME NEW i \in 0..0
        PROVE  e[i] = IF i < 10 THEN <<i>> ELSE Append(e[i \div 10], i % 10)
    <3>1. i = 0 /\ 0 < 10
      OBVIOUS
    <3> QED BY <2>2, <3>1
  <2>4. Digits(e, 0)
    BY <2>3, Zenon DEF Digits
  <2> QED BY <2>2, <2>4
<1>2. ASSUME NEW k \in Nat, k \in Has PROVE k + 1 \in Has
  <2> DEFINE m == k + 1
  <2>1. PICK f \in [0..k -> Seq(Int)] : Digits(f, k)
    BY <1>2
  <2> DEFINE last == IF m < 10 THEN <<m>> ELSE Append(f[m \div 10], m % 10)
             g == [i \in 0..m |-> IF i = m THEN last ELSE f[i]]
  <2>2. m \in Nat /\ m # 0 /\ k = m - 1
    OBVIOUS
  <2> HIDE DEF m
  <2>3. /\ m >= 10 => m \div 10 \in 0..k /\ m \div 10 # m
        /\ m % 10 \in Int
    BY <2>2
  <2>4. last \in Seq(Int)
    <3>1. CASE m < 10
      BY <2>2, <3>1
    <3>2. CASE m >= 10
      <4> DEFINE s == f[m \div 10]
                 d == m % 10
      <4>1. s \in Seq(Int) /\ d \in Int
        BY <2>3, <3>2
      <4> HIDE DEF s, d
      <4>2. Append(s, d) \in Seq(Int)
        BY <4>1, AppendIs
      <4> QED BY <2>2, <3>2, <4>2 DEF s, d
    <3> QED BY <2>2, <3>1, <3>2
  <2>5. \A i \in 0..m : i = m \/ (i # m /\ i \in 0..k)
    BY <2>2
  <2>6. g \in [0..m -> Seq(Int)]
    <3> HIDE DEF last
    <3> QED BY <2>4, <2>5
  <2>7. ASSUME NEW i \in 0..m
        PROVE  g[i] = IF i < 10 THEN <<i>> ELSE Append(g[i \div 10], i % 10)
    <3>1. CASE i = m
      <4>1. g[i] = last
        BY <3>1
      <4>2. m >= 10 => g[m \div 10] = f[m \div 10]
        <5> HIDE DEF last
        <5> QED BY <2>2, <2>3
      <4> QED BY <2>2, <3>1, <4>1, <4>2
    <3>2. CASE i # m
      <4>1. i \in 0..k /\ i \in Nat
        BY <2>5, <3>2
      <4>2. g[i] = f[i]
        BY <3>2
      <4>3. i >= 10 => i \div 10 \in 0..m /\ i \div 10 # m
        BY <2>2, <4>1
      <4>4. i >= 10 => g[i \div 10] = f[i \div 10]
        <5> HIDE DEF last
        <5> QED BY <4>3
      <4>5. f[i] = IF i < 10 THEN <<i>> ELSE Append(f[i \div 10], i % 10)
        BY <2>1, <4>1 DEF Digits
      <4> HIDE DEF g
      <4> QED BY <4>1, <4>2, <4>4, <4>5
    <3> QED BY <3>1, <3>2
  <2> HIDE DEF g
  <2>8. Digits(g, m)
    BY <2>7, Zenon DEF Digits
  <2> QED BY <2>2, <2>6, <2>8 DEF m
<1>3. Nat \subseteq Has
  <2> HIDE DEF Has
  <2> QED BY <1>1, <1>2, Inductive
<1> QED BY <1>3

LEMMA DigitsType ==
  ASSUME NEW n \in Nat
  PROVE  DigitsOf(n) \in Seq(Int)
<1> DEFINE E(f) == f = [m \in 0..n |-> IF m < 10 THEN <<m>> ELSE Append(f[m \div 10], m % 10)]
           ds == CHOOSE f : E(f)
<1>1. DigitsOf(n) = ds[n]
  BY DEF DigitsOf
<1>2. PICK f \in [0..n -> Seq(Int)] : Digits(f, n)
  BY DigitsExist
<1>3. E(f)
  <2>1. f = [m \in 0..n |-> f[m]]
    BY <1>2
  <2> QED BY <1>2, <2>1, Zenon DEF Digits
<1>4. ds = [m \in 0..n |-> IF m < 10 THEN <<m>> ELSE Append(ds[m \div 10], m % 10)]
  BY <1>3, Zenon
<1> HIDE DEF ds
<1> DEFINE Has == {k \in Nat : \A m \in 0..k : m <= n => ds[m] \in Seq(Int)}
<1>5. 0 \in Has
  <2>1. \A m \in 0..0 : m = 0 /\ <<m>> \in Seq(Int) /\ m < 10 /\ 0 \in 0..n
    OBVIOUS
  <2>2. ds[0] = <<0>>
    BY <1>4, <2>1
  <2> QED BY <2>1, <2>2
<1>6. ASSUME NEW k \in Nat, k \in Has PROVE k + 1 \in Has
  <2> SUFFICES ASSUME NEW m, m = k + 1, m <= n PROVE ds[m] \in Seq(Int)
    BY <1>6
  <2>1. m \in 0..n /\ m \in Nat /\ m % 10 \in Int /\ (m >= 10 => m \div 10 \in 0..k /\ m \div 10 <= n)
    OBVIOUS
  <2>2. m >= 10 => ds[m \div 10] \in Seq(Int)
    BY <1>6, <2>1
  <2>3. ds[m] = IF m < 10 THEN <<m>> ELSE Append(ds[m \div 10], m % 10)
    BY <1>4, <2>1, Zenon
  <2> HIDE DEF Has
  <2>4. CASE m < 10
    BY <2>1, <2>3, <2>4
  <2>5. CASE m >= 10
    <3> DEFINE s == ds[m \div 10]
               d == m % 10
    <3>1. s \in Seq(Int) /\ d \in Int
      BY <2>1, <2>2, <2>5
    <3>2. ds[m] = Append(s, d)
      BY <2>1, <2>3, <2>5
    <3> HIDE DEF s, d
    <3> QED BY <3>1, <3>2, AppendIs
  <2> QED BY <2>1, <2>4, <2>5
<1>7. Nat \subseteq Has
  <2> HIDE DEF Has
  <2> QED BY <1>5, <1>6, Inductive
<1>8. n \in Has /\ n \in 0..n /\ n <= n
  <2> HIDE DEF Has
  <2> QED BY <1>7
<1>9. ds[n] \in Seq(Int)
  BY <1>8
<1> QED BY <1>1, <1>9
\* Two texts are the same, or one is below the other, and then not the other way.
LEMMA TextsTotal ==
  ASSUME NEW x \in Seq(Int), NEW y \in Seq(Int)
  PROVE  x = y \/ TextBelow(x, y) \/ TextBelow(y, x)
<1> DEFINE m == Len(x)
           n == Len(y)
           differ == {i \in Nat : (i \in 1..m \/ i \in 1..n) /\ ~(i \in 1..m /\ i \in 1..n /\ x[i] = y[i])}
<1>1. /\ DOMAIN x = 1..m /\ DOMAIN y = 1..n /\ m \in Nat /\ n \in Nat
      /\ \A i \in DOMAIN x : x[i] \in Int
      /\ \A i \in DOMAIN y : y[i] \in Int
  OBVIOUS
<1>2. CASE differ = {}
  <2>1. \A i \in Nat : (i \in 1..m \/ i \in 1..n) => i \in 1..m /\ i \in 1..n /\ x[i] = y[i]
    BY <1>2
  <2>2. m = n
    <3> HIDE DEF m, n
    <3>1. m # 0 => m \in 1..m
      BY <1>1
    <3>2. n # 0 => n \in 1..n
      BY <1>1
    <3>3. m # 0 => m <= n
      BY <1>1, <2>1, <3>1
    <3>4. n # 0 => n <= m
      BY <1>1, <2>1, <3>2
    <3> QED BY <1>1, <3>3, <3>4
  <2>3. \A i \in 1..m : x[i] = y[i]
    <3> HIDE DEF m, n
    <3> QED BY <1>1, <2>1
  <2> QED BY <2>2, <2>3
<1> HIDE DEF m, n
<1>3. CASE differ # {}
  <2>1. PICK k \in differ : \A i \in differ : k <= i
    BY <1>3, LeastMember
  <2>2. k \in Nat /\ k >= 1 /\ \A j \in 1..k - 1 : j \in Nat /\ ~(k <= j)
    BY <1>1, <2>1
  <2>3. ASSUME NEW j \in 1..k - 1 PROVE j \in DOMAIN x /\ j \in DOMAIN y /\ x[j] = y[j]
    <3>1. j \notin differ /\ j \in Nat
      BY <2>1, <2>2
    <3>2. k \in 1..m \/ k \in 1..n
      BY <2>1
    <3>3. j \in 1..m \/ j \in 1..n
      BY <1>1, <2>2, <3>2
    <3> QED BY <1>1, <3>1, <3>3
  <2>4. CASE k \in DOMAIN y /\ (k \in DOMAIN x => x[k] < y[k])
    BY <2>3, <2>4, Zenon DEF TextBelow
  <2>5. CASE k \in DOMAIN x /\ (k \in DOMAIN y => y[k] < x[k])
    BY <2>3, <2>5, Zenon DEF TextBelow
  <2>6. (k \in DOMAIN x \/ k \in DOMAIN y) /\ ~(k \in DOMAIN x /\ k \in DOMAIN y /\ x[k] = y[k])
    BY <1>1, <2>1
  <2> HIDE DEF differ
  <2> QED BY <1>1, <2>4, <2>5, <2>6
<1> QED BY <1>2, <1>3

LEMMA TextsStrict ==
  ASSUME NEW x \in Seq(Int), NEW y \in Seq(Int), TextBelow(x, y)
  PROVE  ~TextBelow(y, x)
<1> SUFFICES ASSUME TextBelow(y, x) PROVE FALSE
  OBVIOUS
<1>1. /\ DOMAIN x = 1..Len(x) /\ DOMAIN y = 1..Len(y) /\ Len(x) \in Nat /\ Len(y) \in Nat
      /\ \A i \in DOMAIN x : x[i] \in Int
      /\ \A i \in DOMAIN y : y[i] \in Int
  OBVIOUS
<1>2. PICK i \in DOMAIN y : /\ \A j \in 1..i - 1 : j \in DOMAIN x /\ x[j] = y[j]
                            /\ i \in DOMAIN x => x[i] < y[i]
  BY DEF TextBelow
<1>3. PICK k \in DOMAIN x : /\ \A j \in 1..k - 1 : j \in DOMAIN y /\ y[j] = x[j]
                            /\ k \in DOMAIN y => y[k] < x[k]
  BY DEF TextBelow
<1>4. i \in Nat /\ k \in Nat /\ i >= 1 /\ k >= 1
  BY <1>1
<1>5. CASE i < k
  <2>1. i \in 1..k - 1 /\ i \in DOMAIN x
    BY <1>1, <1>4, <1>5
  <2> QED BY <1>1, <1>2, <1>3, <2>1
<1>6. CASE k < i
  <2>1. k \in 1..i - 1 /\ k \in DOMAIN y
    BY <1>1, <1>4, <1>6
  <2> QED BY <1>1, <1>2, <1>3, <2>1
<1>7. CASE i = k
  BY <1>1, <1>2, <1>3, <1>7
<1> QED BY <1>4, <1>5, <1>6, <1>7

LEMMA TextsTransitive ==
  ASSUME NEW x \in Seq(Int), NEW y \in Seq(Int), NEW z \in Seq(Int), TextBelow(x, y), TextBelow(y, z)
  PROVE  TextBelow(x, z)
<1>1. /\ DOMAIN x = 1..Len(x) /\ DOMAIN y = 1..Len(y) /\ DOMAIN z = 1..Len(z)
      /\ Len(x) \in Nat /\ Len(y) \in Nat /\ Len(z) \in Nat
      /\ \A i \in DOMAIN x : x[i] \in Int
      /\ \A i \in DOMAIN y : y[i] \in Int
      /\ \A i \in DOMAIN z : z[i] \in Int
  OBVIOUS
<1>2. PICK i \in DOMAIN y : /\ \A j \in 1..i - 1 : j \in DOMAIN x /\ x[j] = y[j]
                            /\ i \in DOMAIN x => x[i] < y[i]
  BY DEF TextBelow
<1>3. PICK k \in DOMAIN z : /\ \A j \in 1..k - 1 : j \in DOMAIN y /\ y[j] = z[j]
                            /\ k \in DOMAIN y => y[k] < z[k]
  BY DEF TextBelow
<1>4. i \in Nat /\ k \in Nat /\ i >= 1 /\ k >= 1
  BY <1>1
<1>5. CASE i < k
  <2>1. i \in 1..k - 1 /\ i \in DOMAIN z
    BY <1>1, <1>4, <1>5
  <2>2. y[i] = z[i]
    BY <1>3, <2>1
  <2>3. \A j \in 1..i - 1 : j \in 1..k - 1
    BY <1>4, <1>5
  <2>4. \A j \in 1..i - 1 : j \in DOMAIN x /\ x[j] = z[j]
    BY <1>2, <1>3, <2>3
  <2>5. i \in DOMAIN x => x[i] < z[i]
    BY <1>2, <2>2
  <2> QED BY <2>1, <2>4, <2>5, Zenon DEF TextBelow
<1>6. CASE k < i
  <2>1. k \in 1..i - 1 /\ k \in DOMAIN y /\ k \in DOMAIN x
    BY <1>1, <1>2, <1>4, <1>6
  <2>2. x[k] = y[k] /\ y[k] < z[k]
    BY <1>2, <1>3, <2>1
  <2>3. \A j \in 1..k - 1 : j \in 1..i - 1
    BY <1>4, <1>6
  <2>4. \A j \in 1..k - 1 : j \in DOMAIN x /\ x[j] = z[j]
    BY <1>2, <1>3, <2>3
  <2> QED BY <2>2, <2>4 DEF TextBelow
<1>7. CASE i = k
  <2>1. i \in DOMAIN z /\ y[i] < z[i]
    BY <1>3, <1>7
  <2>2. \A j \in 1..i - 1 : j \in DOMAIN x /\ x[j] = z[j]
    BY <1>2, <1>3, <1>7
  <2>3. i \in DOMAIN x => x[i] < z[i]
    BY <1>1, <1>2, <2>1
  <2> QED BY <2>1, <2>2, <2>3, Zenon DEF TextBelow
<1> QED BY <1>4, <1>5, <1>6, <1>7

\* The keys of a sort field are texts.
LEMMA KeysAreTexts ==
  ASSUME NEW t, NEW field \in SortFields, NEW r \in Rows
  PROVE  sortKey(t, field, r) \in Seq(Int)
<1> DEFINE v == r[field.source]
<1>1. field.source \in {"id", "val"} /\ r.id \in Int \cup {Null} /\ r.val \in Int \cup {Null}
  BY DEF SortFields, Rows
<1>2. v \in Int \cup {Null}
  BY <1>1
<1> HIDE DEF v
<1>3. ASSUME v # Null PROVE NumericText(v) \in Seq(Int)
  <2>1. v \in Int
    BY <1>2, <1>3
  <2>2. CASE v < 0
    <3> DEFINE d == DigitsOf(-v)
    <3>1. d \in Seq(Int)
      BY <2>1, <2>2, DigitsType
    <3> HIDE DEF d
    <3>2. <<-1>> \o d \in Seq(Int)
      BY <3>1
    <3> QED BY <2>2, <3>2 DEF NumericText, d
  <2>3. CASE ~(v < 0)
    <3>1. v \in Nat
      BY <2>1, <2>3
    <3> QED BY <2>3, <3>1, DigitsType DEF NumericText
  <2> QED BY <2>2, <2>3
<1>4. v # Null => <<v>> \in Seq(Int) /\ <<v - PgEpoch>> \in Seq(Int)
  <2>1. v # Null => v \in Int /\ v - PgEpoch \in Int
    BY <1>2 DEF PgEpoch
  <2> QED BY <2>1
<1>5. cellToSortValue(t, field.source, v) \in Seq(Int)
  <2>1. <<>> \in Seq(Int)
    OBVIOUS
  <2> HIDE DEF NumericText
  <2>2. CASE v = Null
    BY <2>1, <2>2 DEF cellToSortValue
  <2>3. CASE v # Null /\ field.source = "val" /\ t.col = "numeric"
    BY <1>3, <2>3 DEF cellToSortValue
  <2>4. CASE v # Null /\ field.source = "val" /\ t.col = "timestamp"
    BY <1>4, <2>4 DEF cellToSortValue
  <2>5. CASE v # Null /\ ~(field.source = "val" /\ t.col \in {"numeric", "timestamp"})
    BY <1>4, <2>5 DEF cellToSortValue
  <2> QED BY <2>2, <2>3, <2>4, <2>5
<1> QED BY <1>5 DEF sortKey, v

\* How the rows a, b and d compare by one field.
LEMMA FieldsOrdered ==
  ASSUME NEW field, NEW x \in Seq(Int), NEW y \in Seq(Int), NEW z \in Seq(Int)
  PROVE  /\ x = y => ~compareWithDirection(field, x, y)
         /\ compareWithDirection(field, x, y) => ~compareWithDirection(field, y, x)
         /\ x = y \/ compareWithDirection(field, x, y) \/ compareWithDirection(field, y, x)
         /\ compareWithDirection(field, x, z) =>
              compareWithDirection(field, x, y) \/ compareWithDirection(field, y, z)
<1>1. /\ TextBelow(x, y) => ~TextBelow(y, x)
      /\ x = y => ~TextBelow(x, y)
      /\ x = y \/ TextBelow(x, y) \/ TextBelow(y, x)
  BY TextsStrict, TextsTotal
<1>2. ASSUME TextBelow(x, z) PROVE TextBelow(x, y) \/ TextBelow(y, z)
  BY <1>2, TextsTotal, TextsTransitive
<1>3. ASSUME TextBelow(z, x) PROVE TextBelow(y, x) \/ TextBelow(z, y)
  BY <1>3, TextsTotal, TextsTransitive
<1> QED BY <1>1, <1>2, <1>3 DEF compareWithDirection
\* Sort keys are compared as a strict order in which "neither way" is transitive.
LEMMA KeysOrdered ==
  ASSUME NEW t, t.order \in Seq(SortFields), NEW a \in Rows, NEW b \in Rows, NEW d \in Rows
  PROVE  /\ compareSortKeys(t, a, b) => ~compareSortKeys(t, b, a)
         /\ compareSortKeys(t, a, d) => compareSortKeys(t, a, b) \/ compareSortKeys(t, b, d)
<1> DEFINE n == Len(t.order)
           K(i, r) == sortKey(t, t.order[i], r)
           Lt(i, r, q) == compareWithDirection(t.order[i], K(i, r), K(i, q))
           Before(r, q) == \E i \in 1..n : (\A j \in 1..i - 1 : K(j, r) = K(j, q)) /\ Lt(i, r, q)
<1>1. n \in Nat /\ DOMAIN t.order = 1..n /\ \A i \in 1..n : t.order[i] \in SortFields
  OBVIOUS
<1>2. \A r, q : compareSortKeys(t, r, q) <=> Before(r, q)
  BY <1>1, Zenon DEF compareSortKeys
<1>3. ASSUME NEW i \in 1..n, NEW p \in Rows, NEW r \in Rows, NEW q \in Rows
      PROVE  /\ K(i, p) = K(i, r) => ~Lt(i, p, r)
             /\ Lt(i, p, r) => ~Lt(i, r, p)
             /\ K(i, p) = K(i, r) \/ Lt(i, p, r) \/ Lt(i, r, p)
             /\ Lt(i, p, q) => Lt(i, p, r) \/ Lt(i, r, q)
  <2>1. K(i, p) \in Seq(Int) /\ K(i, r) \in Seq(Int) /\ K(i, q) \in Seq(Int)
    BY <1>1, KeysAreTexts
  <2> DEFINE x == K(i, p)
             y == K(i, r)
             z == K(i, q)
  <2>2. x \in Seq(Int) /\ y \in Seq(Int) /\ z \in Seq(Int)
    BY <2>1
  <2> HIDE DEF x, y, z
  <2>3. /\ x = y => ~compareWithDirection(t.order[i], x, y)
        /\ compareWithDirection(t.order[i], x, y) => ~compareWithDirection(t.order[i], y, x)
        /\ x = y \/ compareWithDirection(t.order[i], x, y) \/ compareWithDirection(t.order[i], y, x)
        /\ compareWithDirection(t.order[i], x, z) =>
             compareWithDirection(t.order[i], x, y) \/ compareWithDirection(t.order[i], y, z)
    BY <2>2, FieldsOrdered
  <2> QED BY <2>3, Zenon DEF x, y, z
<1> HIDE DEF n, K, Lt
<1>4. ASSUME Before(a, b), Before(b, a) PROVE FALSE
  <2>1. PICK i \in 1..n : (\A j \in 1..i - 1 : K(j, a) = K(j, b)) /\ Lt(i, a, b)
    BY <1>4
  <2>2. PICK k \in 1..n : (\A j \in 1..k - 1 : K(j, b) = K(j, a)) /\ Lt(k, b, a)
    BY <1>4
  <2>3. (i < k => i \in 1..k - 1) /\ (k < i => k \in 1..i - 1) /\ (i < k \/ k < i \/ i = k)
    BY <1>1
  <2>4. K(i, a) # K(i, b) /\ K(k, a) # K(k, b)
    BY <1>3, <2>1, <2>2
  <2>5. i = k
    BY <2>1, <2>2, <2>3, <2>4
  <2> QED BY <1>3, <2>1, <2>2, <2>5
<1>5. ASSUME Before(a, d) PROVE Before(a, b) \/ Before(b, d)
  <2>1. PICK i \in 1..n : (\A j \in 1..i - 1 : K(j, a) = K(j, d)) /\ Lt(i, a, d)
    BY <1>5
  <2> DEFINE differ == {j \in 1..n : K(j, a) # K(j, b) \/ K(j, b) # K(j, d)}
  <2>2. i \in differ /\ differ \subseteq Nat
    BY <1>1, <1>3, <2>1
  <2>3. PICK k \in differ : \A j \in differ : k <= j
    <3> HIDE DEF differ
    <3> QED BY <2>2, LeastMember
  <2>4. k \in 1..n /\ k <= i
    BY <2>2, <2>3
  <2>5. ASSUME NEW j \in 1..k - 1 PROVE K(j, a) = K(j, b) /\ K(j, b) = K(j, d)
    <3>1. j \in 1..n /\ ~(k <= j)
      BY <1>1, <2>4
    <3>2. j \notin differ
      BY <2>3, <3>1
    <3> QED BY <3>1, <3>2
  <2>6. Lt(k, a, b) \/ Lt(k, b, d)
    <3>1. CASE k = i
      BY <1>3, <2>1, <3>1
    <3>2. CASE k # i
      <4>1. k \in 1..i - 1
        BY <1>1, <2>4, <3>2
      <4>2. K(k, a) = K(k, d)
        BY <2>1, <4>1
      <4>3. K(k, a) # K(k, b)
        BY <2>3, <4>2
      <4>4. Lt(k, a, b) \/ Lt(k, b, a)
        BY <1>3, <2>4, <4>3
      <4> QED BY <4>2, <4>4 DEF Lt
    <3> QED BY <3>1, <3>2
  <2> QED BY <2>4, <2>5, <2>6
<1> HIDE DEF Before
<1> QED BY <1>2, <1>4, <1>5

-----------------------------------------------------------------------------
(* The data files of the iceberg wrapper.                                  *)

\* Rows of R, one at least, that have one partition key.
Chunks(t, R) ==
  {ch \in Seq(R) : /\ ch # <<>>
                   /\ \A m, n \in DOMAIN ch :
                        computePartitionKey(t, ch[m]) = computePartitionKey(t, ch[n])}

\* A data file holds such rows in the order of the table, and the partition
\* value of the first of them.
IsFileOf(t, R, f) ==
  /\ f.rows \in Chunks(t, R) /\ ~ValueFails(t)
  /\ f.part = computePartitionInfo(t, f.rows[1])
  /\ \A m, n \in DOMAIN f.rows : m < n => ~compareSortKeys(t, f.rows[n], f.rows[m])

LEMMA RowsOrdered ==
  ASSUME NEW t, t.order \in Seq(SortFields), NEW rows \in Seq(Rows)
  PROVE  IsWeakOrder({p \in (DOMAIN rows) \X (DOMAIN rows) :
                        compareSortKeys(t, rows[p[1]], rows[p[2]])}, DOMAIN rows)
<1>1. \A i \in DOMAIN rows : rows[i] \in Rows
  OBVIOUS
<1> QED BY <1>1, KeysOrdered DEF IsWeakOrder

\* The elements of a sequence are those at its indices.
LEMMA OfRange ==
  ASSUME NEW S, NEW s \in Seq(S)
  PROVE  s \in Seq(Range(s)) /\ Range(s) \subseteq S /\ \A x \in Range(s) : \E i \in DOMAIN s : s[i] = x
BY DEF Range

LEMMA FilesMade ==
  ASSUME NEW t, t.order \in Seq(SortFields), NEW R, R \subseteq Rows, NEW ch \in Chunks(t, R), ~ValueFails(t)
  PROVE  IsFileOf(t, R, DataFile(t, ch))
<1> DEFINE less == {p \in (DOMAIN ch) \X (DOMAIN ch) : compareSortKeys(t, ch[p[1]], ch[p[2]])}
           sorted == StableSort(ch, less)
<1>1. ch \in Seq(R) /\ ch \in Seq(Rows) /\ ch \in Seq(Range(ch)) /\ ch # <<>> /\ Range(ch) \subseteq R
  BY OfRange DEF Chunks
<1>2. IsWeakOrder(less, DOMAIN ch)
  BY <1>1, RowsOrdered
<1>3. sortPartitionRows(t, ch) = sorted
  BY DEF sortPartitionRows
<1>4. /\ sorted \in [1..Len(ch) -> Range(ch)]
      /\ InOrder(ch, less, sorted)
  <2> HIDE DEF less
  <2> QED BY <1>1, <1>2, StableSortSorts, Zenon
<1>5. Len(ch) \in Nat \ {0}
  BY <1>1
<1>6. ASSUME NEW m \in 1..Len(ch), NEW n \in 1..Len(ch), m < n
      PROVE  ~compareSortKeys(t, sorted[n], sorted[m])
  <2>1. PICK i \in DOMAIN ch, j \in DOMAIN ch : /\ sorted[m] = ch[i] /\ sorted[n] = ch[j]
                                                /\ <<j, i>> \notin less
    <3> HIDE DEF less, sorted
    <3> QED BY <1>4, <1>6 DEF InOrder
  <2>2. ~compareSortKeys(t, ch[j], ch[i])
    BY <2>1
  <2> HIDE DEF sorted
  <2> QED BY <2>1, <2>2
<1> HIDE DEF sorted
<1>7. ASSUME NEW m \in 1..Len(ch)
      PROVE  \E i \in DOMAIN ch : sorted[m] = ch[i]
  BY <1>1, <1>4, OfRange
<1>8. sorted \in Seq(R) /\ sorted # <<>> /\ DOMAIN sorted = 1..Len(ch) /\ Len(sorted) = Len(ch)
  BY <1>1, <1>4, <1>5
<1>9. sorted \in Chunks(t, R)
  <2>1. ASSUME NEW m \in DOMAIN sorted, NEW n \in DOMAIN sorted
        PROVE  computePartitionKey(t, sorted[m]) = computePartitionKey(t, sorted[n])
    <3>1. PICK i \in DOMAIN ch : sorted[m] = ch[i]
      BY <1>7, <1>8
    <3>2. PICK j \in DOMAIN ch : sorted[n] = ch[j]
      BY <1>7, <1>8
    <3>3. computePartitionKey(t, ch[i]) = computePartitionKey(t, ch[j])
      BY DEF Chunks
    <3> QED BY <3>1, <3>2, <3>3
  <2> QED BY <1>8, <2>1 DEF Chunks
<1>10. Head(sorted) = sorted[1]
  BY <1>8
<1>11. DataFile(t, ch).rows = sorted /\ DataFile(t, ch).part = computePartitionInfo(t, sorted[1])
  BY <1>3, <1>10 DEF DataFile
<1> QED BY <1>6, <1>8, <1>9, <1>11 DEF IsFileOf

-----------------------------------------------------------------------------
(* What an instance keeps, and what a method returns.                      *)

\* Rows of R, one at least, whose partition key is k.
OfKey(t, R, k) ==
  {ch \in Seq(R) : ch # <<>> /\ \A n \in DOMAIN ch : computePartitionKey(t, ch[n]) = k}

PartsOf(t, R, parts) ==
  /\ IsFiniteSet(DOMAIN parts)
  /\ \A k \in DOMAIN parts : parts[k] \in OfKey(t, R, k)

\* The rows an instance keeps are of R; they are fewer than the options allow.
InstanceOf(t, R, i) ==
  /\ i = [rows |-> i.rows, parts |-> i.parts]
  /\ i.rows \in Seq(R)
  /\ PartsOf(t, R, i.parts)

Small(i) ==
  /\ Len(i.rows) < BatchSize
  /\ \A k \in DOMAIN i.parts : Len(i.parts[k]) < PartitionBufferSize
  /\ Cardinality(DOMAIN i.parts) < RegularFlush

\* A request with all that its effect on the table depends on.
IsRequest(t, R, q) ==
  /\ q.kind \in {"none", "add", "put", "set", "upsert", "del"}
  /\ q.kind = "none" => q = NoRequest
  /\ q.rows \in Seq(Rows) /\ q.id \in Nat \cup {Null} /\ q.cells \in Seq(Int \cup {Null})
  /\ q.kind = "upsert" => q.cells # <<>>
  /\ \A f \in q.files : IsFileOf(t, R, f)

\* A result that is no error.
IsResult(t, R, res) ==
  res.err = "ok" =>
    /\ InstanceOf(t, R, res.inst) /\ Small(res.inst)
    /\ IsRequest(t, R, res.ask)

LEMMA Quotient ==
  ASSUME NEW n \in Nat, NEW p \in Nat \ {0}
  PROVE  n \div p \in Nat /\ (n \div p) * p <= n /\ n - (n \div p) * p < p
BY SMT

LEMMA PartOfChunk ==
  ASSUME NEW t, NEW R, NEW k, NEW buf \in OfKey(t, R, k),
         NEW a \in Nat \ {0}, NEW b \in Nat, a <= b, b <= Len(buf)
  PROVE  SubSeq(buf, a, b) \in OfKey(t, R, k) /\ Len(SubSeq(buf, a, b)) = b - a + 1
<1>1. buf \in Seq(R) /\ \A n \in DOMAIN buf : computePartitionKey(t, buf[n]) = k
  BY DEF OfKey
<1>2. /\ SubSeq(buf, a, b) \in Seq(R) /\ Len(SubSeq(buf, a, b)) = b - a + 1
      /\ \A n \in 1..(b - a + 1) : SubSeq(buf, a, b)[n] = buf[a + n - 1]
  BY <1>1
<1>3. SubSeq(buf, a, b) # <<>>
  BY <1>2
<1>4. ASSUME NEW n \in DOMAIN SubSeq(buf, a, b)
      PROVE  computePartitionKey(t, SubSeq(buf, a, b)[n]) = k
  <2>1. n \in 1..(b - a + 1)
    BY <1>2
  <2>2. a + n - 1 \in DOMAIN buf
    BY <1>1, <2>1
  <2> QED BY <1>1, <1>2, <2>1, <2>2
<1> QED BY <1>2, <1>3, <1>4 DEF OfKey

LEMMA ChunksOfKey ==
  ASSUME NEW t, NEW R, NEW k PROVE OfKey(t, R, k) \subseteq Chunks(t, R)
BY DEF OfKey, Chunks

LEMMA TakenChunks ==
  ASSUME NEW t, NEW R, NEW k, NEW buf \in OfKey(t, R, k), NEW flush \in BOOLEAN
  PROVE  Taken(buf, flush) \in Seq(Chunks(t, R))
<1>1. CASE flush
  <2>1. Taken(buf, flush) = <<buf>> /\ buf \in Chunks(t, R)
    BY <1>1, ChunksOfKey DEF Taken
  <2> QED BY <2>1
<1>2. CASE ~flush
  <2> DEFINE n == Len(buf) \div PartitionBufferSize
             part(i) == SubSeq(buf, (i - 1) * PartitionBufferSize + 1, i * PartitionBufferSize)
  <2>1. Len(buf) \in Nat /\ PartitionBufferSize \in Nat \ {0}
    BY PartitionAssumption DEF OfKey
  <2>2. n \in Nat /\ n * PartitionBufferSize <= Len(buf)
    BY <2>1, Quotient
  <2> HIDE DEF n
  <2>3. ASSUME NEW i \in 1..n PROVE part(i) \in Chunks(t, R)
    <3> DEFINE a == (i - 1) * PartitionBufferSize + 1
               b == i * PartitionBufferSize
    <3>1. a \in Nat \ {0} /\ b \in Nat /\ a <= b /\ b <= Len(buf)
      <4>1. b <= n * PartitionBufferSize
        BY <2>1, <2>2
      <4>2. a \in Nat \ {0} /\ b \in Nat /\ a <= b
        BY <2>1, <2>2
      <4> HIDE DEF a, b
      <4> QED BY <2>1, <2>2, <4>1, <4>2
    <3>2. part(i) \in OfKey(t, R, k)
      <4>1. part(i) = SubSeq(buf, a, b)
        OBVIOUS
      <4> HIDE DEF a, b, part
      <4> QED BY <3>1, <4>1, PartOfChunk
    <3> QED BY <3>2, ChunksOfKey
  <2>4. Taken(buf, flush) = [i \in 1..n |-> part(i)]
    BY <1>2 DEF Taken, n
  <2> HIDE DEF part
  <2> QED BY <2>2, <2>3, <2>4
<1> QED BY <1>1, <1>2

LEMMA LeftParts ==
  ASSUME NEW t, NEW R, NEW k, NEW buf \in OfKey(t, R, k), NEW flush \in BOOLEAN,
         Left(buf, flush) # <<>>
  PROVE  ~flush /\ Left(buf, flush) \in OfKey(t, R, k) /\ Len(Left(buf, flush)) < PartitionBufferSize
<1>1. ~flush
  BY DEF Left
<1> DEFINE q == Len(buf) \div PartitionBufferSize
<1>2. Len(buf) \in Nat /\ PartitionBufferSize \in Nat \ {0} /\ buf \in Seq(R)
  BY PartitionAssumption DEF OfKey
<1>3. /\ q \in Nat /\ q * PartitionBufferSize <= Len(buf)
      /\ Len(buf) - q * PartitionBufferSize < PartitionBufferSize
  BY <1>2, Quotient
<1>4. Left(buf, flush) = SubSeq(buf, q * PartitionBufferSize + 1, Len(buf))
  BY <1>1 DEF Left
<1> HIDE DEF q
<1>5. PICK a \in Nat \ {0} : a = q * PartitionBufferSize + 1
  BY <1>2, <1>3
<1>6. a <= Len(buf)
  <2> SUFFICES ASSUME a > Len(buf) PROVE FALSE
    BY <1>2, <1>5
  <2>1. SubSeq(buf, a, Len(buf)) = <<>>
    BY <1>2
  <2> QED BY <1>4, <1>5, <2>1
<1>7. SubSeq(buf, a, Len(buf)) \in OfKey(t, R, k) /\ Len(SubSeq(buf, a, Len(buf))) = Len(buf) - a + 1
  BY <1>2, <1>6, PartOfChunk
<1>8. Len(buf) - a + 1 < PartitionBufferSize
  BY <1>2, <1>3, <1>5
<1> QED BY <1>1, <1>4, <1>5, <1>7, <1>8

\* The keys of the rows of a sequence are finitely many.
LEMMA KeysFinite ==
  ASSUME NEW t, NEW R, NEW s \in Seq(R)
  PROVE  IsFiniteSet({computePartitionKey(t, r) : r \in Range(s)})
<1> DEFINE K == {computePartitionKey(t, r) : r \in Range(s)}
           f == [n \in 1..Len(s) |-> computePartitionKey(t, s[n])]
<1>1. IsFiniteSet(1..Len(s))
  BY FS_Interval
<1>2. f \in Surjection(1..Len(s), K)
  <2>1. f \in [1..Len(s) -> K]
    BY DEF Range
  <2>2. \A k \in K : \E n \in 1..Len(s) : f[n] = k
    BY DEF Range
  <2> HIDE DEF f, K
  <2> QED BY <2>1, <2>2 DEF Surjection
<1> HIDE DEF f, K
<1>3. IsFiniteSet(K)
  BY <1>1, <1>2, FS_Surjection
<1> QED BY <1>3 DEF K

\* Handing out puts every staged row into the buffer of its key.
LEMMA HandedOutParts ==
  ASSUME NEW t, NEW R, NEW i, i.rows \in Seq(R), PartsOf(t, R, i.parts)
  PROVE  PartsOf(t, R, HandedOut(t, i))
<1> DEFINE K == {computePartitionKey(t, r) : r \in Range(i.rows)}
           old(k) == IF k \in DOMAIN i.parts THEN i.parts[k] ELSE <<>>
           new(k) == Only(i.rows, {r \in Range(i.rows) : computePartitionKey(t, r) = k})
<1>1. HandedOut(t, i) = [k \in K \cup DOMAIN i.parts |-> old(k) \o new(k)]
  BY DEF HandedOut
<1>2. IsFiniteSet(K \cup DOMAIN i.parts)
  <2>1. IsFiniteSet(K) /\ IsFiniteSet(DOMAIN i.parts)
    BY KeysFinite DEF PartsOf
  <2> HIDE DEF K
  <2> QED BY <2>1, FS_Union
<1>3. ASSUME NEW k \in K \cup DOMAIN i.parts PROVE old(k) \o new(k) \in OfKey(t, R, k)
  <2> DEFINE T == {r \in Range(i.rows) : computePartitionKey(t, r) = k}
             RK == {r \in R : computePartitionKey(t, r) = k}
  <2>1. new(k) \in Seq(R \cap T) /\ ((\E n \in DOMAIN i.rows : i.rows[n] \in T) => new(k) # <<>>)
    <3> HIDE DEF T
    <3>1. new(k) = Only(i.rows, T)
      BY DEF T
    <3> QED BY <3>1, OnlyKeeps
  <2>2. new(k) \in Seq(RK)
    <3>1. R \cap T \subseteq RK
      OBVIOUS
    <3> HIDE DEF new, T, RK
    <3> QED BY <2>1, <3>1
  <2>3. k \in DOMAIN i.parts => old(k) \in Seq(RK) /\ old(k) # <<>>
    <3> SUFFICES ASSUME k \in DOMAIN i.parts PROVE i.parts[k] \in Seq(RK) /\ i.parts[k] # <<>>
      OBVIOUS
    <3>1. i.parts[k] \in OfKey(t, R, k)
      BY DEF PartsOf
    <3>2. PICK b \in OfKey(t, R, k) : b = i.parts[k]
      BY <3>1
    <3>3. b \in Seq(R) /\ b # <<>> /\ \A n \in DOMAIN b : b[n] \in RK
      BY DEF OfKey
    <3> HIDE DEF RK
    <3>4. b \in Seq(RK)
      BY <3>3
    <3> QED BY <3>2, <3>3, <3>4
  <2>4. k \notin DOMAIN i.parts => old(k) = <<>> /\ new(k) # <<>>
    <3> SUFFICES ASSUME k \in K PROVE new(k) # <<>>
      OBVIOUS
    <3>1. PICK r \in Range(i.rows) : computePartitionKey(t, r) = k
      OBVIOUS
    <3>2. PICK n \in DOMAIN i.rows : i.rows[n] = r
      BY DEF Range
    <3>3. i.rows[n] \in T
      BY <3>1, <3>2
    <3> QED BY <2>1, <3>3
  <2>5. <<>> \in Seq(RK)
    OBVIOUS
  <2>6. old(k) \o new(k) \in Seq(RK) /\ old(k) \o new(k) # <<>>
    <3> HIDE DEF old, new, RK
    <3>1. PICK a \in Seq(RK), b \in Seq(RK) : a = old(k) /\ b = new(k) /\ (a # <<>> \/ b # <<>>)
      BY <2>2, <2>3, <2>4, <2>5
    <3>2. a \o b \in Seq(RK) /\ Len(a \o b) = Len(a) + Len(b) /\ Len(a) + Len(b) # 0
      BY <3>1
    <3> QED BY <3>1, <3>2
  <2> HIDE DEF old, new
  <2>7. \A ch \in Seq(RK) : ch \in Seq(R) /\ \A n \in DOMAIN ch : computePartitionKey(t, ch[n]) = k
    OBVIOUS
  <2> HIDE DEF RK
  <2> QED BY <2>6, <2>7 DEF OfKey
<1> HIDE DEF old, new, K
<1> QED BY <1>1, <1>2, <1>3 DEF PartsOf

\* SetToSeq lists a finite set.
LEMMA ListOfSet ==
  ASSUME NEW S, IsFiniteSet(S)
  PROVE  SetToSeq(S) \in Seq(S)
<1>1. Cardinality(S) \in Nat /\ ExistsBijection(1..Cardinality(S), S)
  BY FS_CardinalityType
<1>2. \E f \in [1..Cardinality(S) -> S] : IsInjective(f)
  BY <1>1 DEF ExistsBijection, Bijection, Injection
<1>3. SetToSeq(S) \in [1..Cardinality(S) -> S]
  BY <1>2, Zenon DEF SetToSeq
<1> QED BY <1>1, <1>3

LEMMA RequestWithFiles ==
  ASSUME NEW rows, NEW fs
  PROVE  [Request("add", rows, Null, <<>>) EXCEPT !.files = fs] =
           [kind |-> "add", rows |-> rows, id |-> Null, cells |-> <<>>, files |-> fs]
BY DEF Request

\* Of the partitions written, what is left is small, and the request adds data
\* files of rows of one key.
LEMMA ProcessPartitionsResult ==
  ASSUME NEW t, t.order \in Seq(SortFields), NEW R, R \subseteq Rows, NEW i, i.rows = <<>>,
         PartsOf(t, R, i.parts),
         i = [rows |-> i.rows, parts |-> i.parts],
         NEW flush \in BOOLEAN, flush \/ Cardinality(DOMAIN i.parts) < RegularFlush
  PROVE  IsResult(t, R, processPartitions(t, i, flush))
<1> DEFINE buffers == SetToSeq(DOMAIN i.parts)
           taken == [n \in DOMAIN buffers |-> Taken(i.parts[buffers[n]], flush)]
           chunks == FlattenSeq(taken)
           open == {k \in DOMAIN i.parts : Left(i.parts[k], flush) # <<>>}
           left == [k \in open |-> Left(i.parts[k], flush)]
           rest == [i EXCEPT !.parts = left]
<1>1. /\ IsFiniteSet(DOMAIN i.parts)
      /\ \A k \in DOMAIN i.parts : i.parts[k] \in OfKey(t, R, k)
  BY DEF PartsOf
<1>2. buffers \in Seq(DOMAIN i.parts)
  BY <1>1, ListOfSet
<1>3. chunks \in Seq(Chunks(t, R))
  <2> HIDE DEF buffers
  <2>1. \A n \in DOMAIN buffers : buffers[n] \in DOMAIN i.parts
    BY <1>2
  <2>2. ASSUME NEW n \in DOMAIN buffers PROVE taken[n] \in Seq(Chunks(t, R))
    <3>1. buffers[n] \in DOMAIN i.parts
      BY <2>1
    <3>2. i.parts[buffers[n]] \in OfKey(t, R, buffers[n])
      BY <1>1, <3>1
    <3>3. Taken(i.parts[buffers[n]], flush) \in Seq(Chunks(t, R))
      BY <3>2, TakenChunks
    <3> QED BY <3>3
  <2>3. DOMAIN buffers = 1..Len(buffers) /\ Len(buffers) \in Nat /\ DOMAIN taken = DOMAIN buffers
    BY <1>2
  <2>4. taken = [n \in DOMAIN buffers |-> taken[n]]
    OBVIOUS
  <2> HIDE DEF taken
  <2>5. taken \in Seq(Seq(Chunks(t, R)))
    BY <2>2, <2>3, <2>4
  <2> QED BY <2>5, FlattenKeeps
<1>4. ASSUME NEW k \in open
      PROVE  ~flush /\ left[k] \in OfKey(t, R, k) /\ Len(left[k]) < PartitionBufferSize
  BY <1>1, LeftParts
<1>5. IsFiniteSet(open) /\ Cardinality(open) < RegularFlush
  <2>1. IsFiniteSet(open) /\ Cardinality(open) <= Cardinality(DOMAIN i.parts)
    BY <1>1, FS_Subset
  <2>2. Cardinality(open) \in Nat /\ Cardinality(DOMAIN i.parts) \in Nat /\ RegularFlush \in Nat \ {0}
    BY <1>1, <2>1, FS_CardinalityType, PartitionAssumption
  <2>3. CASE flush
    <3>1. open = {}
      BY <1>4, <2>3
    <3>2. Cardinality(open) = 0
      BY <3>1, FS_EmptySet
    <3> HIDE DEF open
    <3> QED BY <2>1, <2>2, <3>2
  <2>4. CASE Cardinality(DOMAIN i.parts) < RegularFlush
    <3> HIDE DEF open
    <3> QED BY <2>1, <2>2, <2>4
  <2> QED BY <2>3, <2>4
<1>6. InstanceOf(t, R, rest) /\ Small(rest)
  <2>1. DOMAIN left = open
    OBVIOUS
  <2>2. rest = [rows |-> <<>>, parts |-> left]
    <3> HIDE DEF left
    <3> QED OBVIOUS
  <2> HIDE DEF left, rest, open
  <2>3. rest.rows = <<>> /\ rest.parts = left
    BY <2>2
  <2>4. <<>> \in Seq(R) /\ Len(<<>>) < BatchSize
    BY BatchAssumption
  <2>5. PartsOf(t, R, left)
    BY <1>4, <1>5, <2>1 DEF PartsOf
  <2>6. InstanceOf(t, R, rest)
    BY <2>2, <2>3, <2>4, <2>5 DEF InstanceOf
  <2>7. Small(rest)
    BY <1>4, <1>5, <2>1, <2>3, <2>4 DEF Small
  <2> QED BY <2>6, <2>7
<1>7. ASSUME NEW ch \in Range(chunks) PROVE ch \in Chunks(t, R)
  <2> HIDE DEF chunks
  <2> QED BY <1>3 DEF Range
<1>8. FlattenSeq(chunks) \in Seq(Rows)
  <2>1. Chunks(t, R) \subseteq Seq(Rows)
    BY DEF Chunks
  <2>2. chunks \in Seq(Seq(Rows))
    <3> HIDE DEF chunks
    <3> QED BY <1>3, <2>1
  <2> HIDE DEF chunks
  <2> QED BY <2>2, FlattenKeeps
<1> DEFINE ask == [Request("add", FlattenSeq(chunks), Null, <<>>)
                     EXCEPT !.files = {DataFile(t, rows) : rows \in Range(chunks)}]
<1>9. ASSUME ~ValueFails(t) PROVE IsRequest(t, R, ask)
  <2> HIDE DEF chunks
  <2>1. ask = [kind |-> "add", rows |-> FlattenSeq(chunks), id |-> Null, cells |-> <<>>,
               files |-> {DataFile(t, rows) : rows \in Range(chunks)}]
    BY RequestWithFiles
  <2>2. /\ ask.kind = "add" /\ ask.rows = FlattenSeq(chunks) /\ ask.id = Null /\ ask.cells = <<>>
        /\ ask.files = {DataFile(t, rows) : rows \in Range(chunks)}
    BY <2>1
  <2>3. <<>> \in Seq(Int \cup {Null})
    OBVIOUS
  <2>4. \A f \in ask.files : IsFileOf(t, R, f)
    BY <1>7, <1>9, <2>2, FilesMade
  <2> HIDE DEF ask
  <2> QED BY <1>8, <2>2, <2>3, <2>4 DEF IsRequest
<1>10. NoRequest.kind = "none" /\ IsRequest(t, R, NoRequest)
  <2>1. NoRequest = [kind |-> "none", rows |-> <<>>, id |-> Null, cells |-> <<>>, files |-> {}]
    BY DEF NoRequest, Request
  <2>2. <<>> \in Seq(Int \cup {Null}) /\ <<>> \in Seq(Rows)
    OBVIOUS
  <2> QED BY <2>1, <2>2 DEF IsRequest
<1>11. processPartitions(t, i, flush) =
         CASE chunks = <<>>                  -> Quiet(rest)
           [] chunks # <<>> /\ ValueFails(t) -> Fails(rest)
           [] OTHER                          -> writeRecordBatches(t, rest, chunks)
  BY DEF processPartitions
<1>12. writeRecordBatches(t, rest, chunks) = Asks(rest, ask)
  BY DEF writeRecordBatches
<1> HIDE DEF chunks, rest, ask
<1>13. CASE chunks = <<>>
  <2>1. processPartitions(t, i, flush) = Quiet(rest)
    BY <1>11, <1>13
  <2> QED BY <2>1, <1>6, <1>10 DEF IsResult, Quiet, Result
<1>14. CASE chunks # <<>> /\ ValueFails(t)
  <2>1. processPartitions(t, i, flush) = Fails(rest)
    BY <1>11, <1>14
  <2> QED BY <2>1 DEF IsResult, Fails, Result
<1>15. CASE chunks # <<>> /\ ~ValueFails(t)
  <2>1. processPartitions(t, i, flush) = Asks(rest, ask)
    BY <1>11, <1>12, <1>15
  <2> QED BY <2>1, <1>6, <1>9, <1>15 DEF IsResult, Asks, Result
<1> QED BY <1>13, <1>14, <1>15

LEMMA ProcessCurrentBatchResult ==
  ASSUME NEW t, t.order \in Seq(SortFields), NEW R, R \subseteq Rows, NEW i, InstanceOf(t, R, i),
         NEW flush \in BOOLEAN
  PROVE  IsResult(t, R, processCurrentBatch(t, i, flush))
<1>1. CASE KeyFails(t, i.rows)
  BY <1>1 DEF processCurrentBatch, IsResult, Fails, Result
<1>2. CASE ~KeyFails(t, i.rows)
  <2> DEFINE parts == HandedOut(t, i)
             j == [rows |-> <<>>, parts |-> parts]
             all == flush \/ FlushesRegularly(parts)
  <2>1. PartsOf(t, R, parts)
    BY HandedOutParts DEF InstanceOf
  <2>2. processCurrentBatch(t, i, flush) = processPartitions(t, j, all)
    BY <1>2 DEF processCurrentBatch
  <2>3. j.rows = <<>> /\ j.parts = parts /\ j = [rows |-> j.rows, parts |-> j.parts]
    OBVIOUS
  <2>4. all \/ Cardinality(DOMAIN parts) < RegularFlush
    <3>1. Cardinality(DOMAIN parts) \in Nat /\ RegularFlush \in Nat
      BY <2>1, FS_CardinalityType, PartitionAssumption DEF PartsOf
    <3> HIDE DEF parts
    <3> QED BY <3>1 DEF FlushesRegularly
  <2>5. all \in BOOLEAN
    BY DEF FlushesRegularly
  <2> HIDE DEF all, j, parts
  <2> QED BY <2>1, <2>2, <2>3, <2>4, <2>5, ProcessPartitionsResult
<1> QED BY <1>1, <1>2

-----------------------------------------------------------------------------
(* The methods of the wrappers, for an instance that keeps rows of R.      *)

LEMMA NoRequestIs ==
  ASSUME NEW t, NEW R
  PROVE  IsRequest(t, R, NoRequest)
<1>1. NoRequest = [kind |-> "none", rows |-> <<>>, id |-> Null, cells |-> <<>>, files |-> {}]
  BY DEF NoRequest, Request
<1>2. <<>> \in Seq(Int \cup {Null}) /\ <<>> \in Seq(Rows)
  OBVIOUS
<1> QED BY <1>1, <1>2 DEF IsRequest

\* A request for one row, or for the row with an id.
LEMMA RequestIs ==
  ASSUME NEW t, NEW R, NEW kind \in {"add", "put", "set", "upsert", "del"}, NEW rows \in Seq(Rows),
         NEW id \in Nat \cup {Null}, NEW cells \in Seq(Int \cup {Null}),
         kind = "upsert" => cells # <<>>
  PROVE  IsRequest(t, R, Request(kind, rows, id, cells))
<1>1. Request(kind, rows, id, cells) =
        [kind |-> kind, rows |-> rows, id |-> id, cells |-> cells, files |-> {}]
  BY DEF Request
<1> QED BY <1>1 DEF IsRequest

LEMMA ErrorsAreResults ==
  ASSUME NEW t, NEW R, NEW i
  PROVE  IsResult(t, R, Fails(i)) /\ IsResult(t, R, Unwinds(i))
BY DEF IsResult, Fails, Unwinds, Result

LEMMA AsksIs ==
  ASSUME NEW t, NEW R, NEW i, InstanceOf(t, R, i), Small(i), NEW q, IsRequest(t, R, q)
  PROVE  IsResult(t, R, Asks(i, q))
BY DEF IsResult, Asks, Result

LEMMA QuietIs ==
  ASSUME NEW t, NEW R, NEW i, InstanceOf(t, R, i), Small(i)
  PROVE  IsResult(t, R, Quiet(i))
BY NoRequestIs DEF IsResult, Quiet, Result

LEMMA RowResults ==
  ASSUME NEW t, NEW R, NEW i, InstanceOf(t, R, i), Small(i)
  PROVE  /\ \A r \in Rows : IsResult(t, R, Add(i, r))
         /\ \A id \in Nat \cup {Null}, cells \in Seq(Int \cup {Null}) : IsResult(t, R, Set(i, id, cells))
         /\ \A id \in Nat \cup {Null} : IsResult(t, R, Del(i, id))
<1>1. <<>> \in Seq(Int \cup {Null}) /\ <<>> \in Seq(Rows)
  OBVIOUS
<1>2. ASSUME NEW r \in Rows PROVE IsResult(t, R, Add(i, r))
  <2>1. <<r>> \in Seq(Rows) /\ r.id \in Nat \cup {Null}
    BY DEF Rows
  <2>2. IsRequest(t, R, Request("add", <<r>>, r.id, <<>>))
    BY <1>1, <2>1, RequestIs
  <2> QED BY <2>2, AsksIs DEF Add
<1>3. ASSUME NEW id \in Nat \cup {Null}, NEW cells \in Seq(Int \cup {Null})
      PROVE  IsResult(t, R, Set(i, id, cells))
  <2>1. IsRequest(t, R, Request("set", <<>>, id, cells))
    BY <1>1, RequestIs
  <2> QED BY <2>1, AsksIs DEF Set
<1>4. ASSUME NEW id \in Nat \cup {Null} PROVE IsResult(t, R, Del(i, id))
  <2>1. IsRequest(t, R, Request("del", <<>>, id, <<>>))
    BY <1>1, RequestIs
  <2> QED BY <2>1, AsksIs DEF Del
<1> QED BY <1>2, <1>3, <1>4

\* A row more among the staged ones.
LEMMA OneRowMore ==
  ASSUME NEW t, NEW R, NEW i, InstanceOf(t, R, i), Small(i), NEW r \in R,
         NEW more, more = [i EXCEPT !.rows = Append(@, r)]
  PROVE  /\ InstanceOf(t, R, more)
         /\ Len(more.rows) < BatchSize => Small(more)
<1>1. more = [rows |-> Append(i.rows, r), parts |-> i.parts]
  BY DEF InstanceOf
<1>2. Append(i.rows, r) \in Seq(R) /\ PartsOf(t, R, i.parts)
  BY DEF InstanceOf
<1>3. InstanceOf(t, R, more)
  BY <1>1, <1>2 DEF InstanceOf
<1>4. Len(more.rows) < BatchSize => Small(more)
  BY <1>1 DEF Small
<1> QED BY <1>3, <1>4

LEMMA S3vectorsFlushResult ==
  ASSUME NEW t, NEW R, R \subseteq Rows, NEW i, InstanceOf(t, R, i),
         \A k \in DOMAIN i.parts : Len(i.parts[k]) < PartitionBufferSize,
         Cardinality(DOMAIN i.parts) < RegularFlush
  PROVE  IsResult(t, R, S3vectorsFlush(i))
<1>1. <<>> \in Seq(Int \cup {Null}) /\ i.rows \in Seq(Rows) /\ <<>> \in Seq(R)
      /\ Len(<<>>) < BatchSize
  BY BatchAssumption DEF InstanceOf
<1>2. CASE i.rows = <<>>
  <2>1. Small(i)
    BY <1>1, <1>2 DEF Small
  <2> QED BY <1>2, <2>1, QuietIs DEF S3vectorsFlush
<1>3. CASE i.rows # <<>>
  <2> DEFINE rest == [i EXCEPT !.rows = <<>>]
  <2>1. rest = [rows |-> <<>>, parts |-> i.parts]
    BY DEF InstanceOf
  <2>2. S3vectorsFlush(i) = Asks(rest, Request("put", i.rows, Null, <<>>))
    BY <1>3 DEF S3vectorsFlush
  <2> HIDE DEF rest
  <2>3. InstanceOf(t, R, rest)
    BY <1>1, <2>1 DEF InstanceOf
  <2>4. Small(rest)
    BY <1>1, <2>1 DEF Small
  <2>5. IsRequest(t, R, Request("put", i.rows, Null, <<>>))
    BY <1>1, RequestIs
  <2> QED BY <2>2, <2>3, <2>4, <2>5, AsksIs
<1> QED BY <1>2, <1>3

LEMMA S3vectorsInsertResult ==
  ASSUME NEW t, NEW R, R \subseteq Rows, NEW i, InstanceOf(t, R, i), Small(i), NEW r \in R
  PROVE  IsResult(t, R, S3vectorsInsert(t, i, r))
<1> DEFINE more == [i EXCEPT !.rows = Append(@, r)]
<1>1. InstanceOf(t, R, more) /\ (Len(more.rows) < BatchSize => Small(more))
  <2> HIDE DEF more
  <2>1. more = [i EXCEPT !.rows = Append(@, r)]
    BY DEF more
  <2> QED BY <2>1, OneRowMore
<1>2. more.parts = i.parts
  BY DEF InstanceOf
<1>3. IsResult(t, R, S3vectorsFlush(more))
  <2> HIDE DEF more
  <2> QED BY <1>1, <1>2, S3vectorsFlushResult DEF Small
<1>4. Len(more.rows) \in Nat /\ BatchSize \in Nat
  BY BatchAssumption DEF InstanceOf
<1>5. S3vectorsInsert(t, i, r) =
        CASE t.rowid # "text" -> Fails(i)
          [] t.rowid = "text" /\ Len(more.rows) >= BatchSize -> S3vectorsFlush(more)
          [] OTHER -> Quiet(more)
  BY DEF S3vectorsInsert
<1> HIDE DEF more
<1>6. CASE t.rowid # "text"
  BY <1>5, <1>6, ErrorsAreResults
<1>7. CASE t.rowid = "text" /\ Len(more.rows) >= BatchSize
  BY <1>3, <1>5, <1>7
<1>8. CASE t.rowid = "text" /\ ~(Len(more.rows) >= BatchSize)
  <2>1. Small(more)
    BY <1>1, <1>4, <1>8
  <2>2. IsResult(t, R, Quiet(more))
    BY <1>1, <2>1, QuietIs
  <2> QED BY <1>5, <1>8, <2>2
<1> QED BY <1>6, <1>7, <1>8

LEMMA IcebergInsertResult ==
  ASSUME NEW t, t.order \in Seq(SortFields), NEW R, R \subseteq Rows, NEW i, InstanceOf(t, R, i),
         Small(i), NEW r \in R
  PROVE  IsResult(t, R, IcebergInsert(t, i, r))
<1> DEFINE more == [i EXCEPT !.rows = Append(@, r)]
<1>1. InstanceOf(t, R, more) /\ (Len(more.rows) < BatchSize => Small(more))
  <2> HIDE DEF more
  <2>1. more = [i EXCEPT !.rows = Append(@, r)]
    BY DEF more
  <2> QED BY <2>1, OneRowMore
<1>2. Len(more.rows) \in Nat /\ BatchSize \in Nat
  BY BatchAssumption DEF InstanceOf
<1>3. IcebergInsert(t, i, r) =
        IF Len(more.rows) >= BatchSize THEN processCurrentBatch(t, more, FALSE) ELSE Quiet(more)
  BY DEF IcebergInsert
<1> HIDE DEF more
<1>4. IsResult(t, R, processCurrentBatch(t, more, FALSE))
  BY <1>1, ProcessCurrentBatchResult
<1>5. Len(more.rows) < BatchSize => IsResult(t, R, Quiet(more))
  BY <1>1, QuietIs
<1>6. CASE Len(more.rows) >= BatchSize
  BY <1>3, <1>4, <1>6
<1>7. CASE Len(more.rows) < BatchSize
  <2>1. ~(Len(more.rows) >= BatchSize)
    BY <1>2, <1>7
  <2> QED BY <1>3, <1>5, <1>7, <2>1
<1> QED BY <1>2, <1>6, <1>7

\* The cells WithoutNulls and Cfd1Update make of others are cells.
LEMMA CellsMade ==
  ASSUME NEW t, NEW cells \in Seq(Int \cup {Null})
  PROVE  /\ WithoutNulls(cells) \in Seq(Int \cup {Null})
         /\ [n \in DOMAIN cells |-> IF t.col = "text" /\ cells[n] = TextNull THEN Null ELSE cells[n]]
              \in Seq(Int \cup {Null})
<1>1. WithoutNulls(cells) \in Seq((Int \cup {Null}) \cap (Range(cells) \ {Null}))
  BY OnlyKeeps DEF WithoutNulls
<1>2. (Int \cup {Null}) \cap (Range(cells) \ {Null}) \subseteq Int \cup {Null}
  OBVIOUS
<1>3. WithoutNulls(cells) \in Seq(Int \cup {Null})
  <2> DEFINE W == WithoutNulls(cells)
             V == (Int \cup {Null}) \cap (Range(cells) \ {Null})
             X == Int \cup {Null}
  <2>1. W \in Seq(V) /\ V \subseteq X
    BY <1>1, <1>2
  <2> HIDE DEF W, V, X
  <2>2. W \in Seq(X)
    BY <2>1
  <2> QED BY <2>2 DEF W, X
<1> QED BY <1>3

LEMMA InsertResult ==
  ASSUME c.order \in Seq(SortFields), NEW R, R \subseteq Rows, InstanceOf(c, R, inst), Small(inst), NEW r \in R
  PROVE  IsResult(c, R, insert(r))
<1>1. /\ IsResult(c, R, Fails(inst)) /\ IsResult(c, R, Quiet(inst)) /\ IsResult(c, R, Add(inst, r))
  BY ErrorsAreResults, QuietIs, RowResults
<1>2. CASE c.w = "bigquery"
  BY <1>1, <1>2 DEF insert, BigqueryInsert
<1>3. CASE c.w = "clickhouse"
  <2>1. [r EXCEPT !.val = Cast(c, @)] \in Rows
    <3>1. r \in Rows /\ r.val \in Int \cup {Null}
      BY DEF Rows
    <3>2. Cast(c, r.val) \in Int \cup {Null}
      BY <3>1 DEF Cast
    <3> QED BY <3>1, <3>2 DEF Rows
  <2>2. IsResult(c, R, ClickhouseInsert(c, inst, r))
    BY <2>1, RowResults DEF ClickhouseInsert
  <2> QED BY <1>3, <2>2 DEF insert
<1>4. CASE c.w \in {"mysql", "mongodb", "cfd1", "snowflake"}
  BY <1>1, <1>4 DEF insert, MysqlInsert, MongodbInsert, Cfd1Insert, SnowflakeInsert
<1>5. CASE c.w = "dynamodb"
  <2>1. <<r>> \in Seq(Rows) /\ r.id \in Nat \cup {Null} /\ <<>> \in Seq(Int \cup {Null})
    BY DEF Rows
  <2>2. IsRequest(c, R, Request("put", <<r>>, r.id, <<>>))
    BY <2>1, RequestIs
  <2>3. IsResult(c, R, Asks(inst, Request("put", <<r>>, r.id, <<>>)))
    BY <2>2, AsksIs
  <2> QED BY <1>1, <1>5, <2>3 DEF insert, DynamodbInsert
<1>6. CASE c.w = "stripe"
  BY <1>1, <1>6 DEF insert, StripeInsert
<1>7. CASE c.w = "s3vectors"
  BY <1>7, S3vectorsInsertResult DEF insert
<1>8. CASE c.w = "iceberg"
  BY <1>8, IcebergInsertResult DEF insert
<1>9. CASE c.w \in {"clerk", "orb"}
  BY <1>1, <1>9 DEF insert, ClerkInsert, OrbInsert
<1>10. CASE c.w \in {"paddle", "cal"}
  BY <1>1, <1>10 DEF insert, PaddleInsert, CalInsert
<1>11. CASE c.w \notin {"bigquery", "clickhouse", "mysql", "mongodb", "dynamodb", "stripe",
                        "s3vectors", "iceberg", "cfd1", "snowflake", "clerk", "orb", "paddle", "cal"}
  BY <1>1, <1>11 DEF insert
<1> QED BY <1>2, <1>3, <1>4, <1>5, <1>6, <1>7, <1>8, <1>9, <1>10, <1>11

LEMMA UpdateResult ==
  ASSUME NEW R, InstanceOf(c, R, inst), Small(inst),
         NEW id \in Nat \cup {Null}, NEW cells \in Seq(Int \cup {Null})
  PROVE  IsResult(c, R, update(id, cells))
<1> DEFINE made == [n \in DOMAIN cells |->
                      IF c.col = "text" /\ cells[n] = TextNull THEN Null ELSE cells[n]]
<1>1. /\ IsResult(c, R, Fails(inst)) /\ IsResult(c, R, Unwinds(inst))
      /\ IsResult(c, R, Quiet(inst)) /\ IsResult(c, R, Set(inst, id, cells))
  BY ErrorsAreResults, QuietIs, RowResults
<1>2. IsResult(c, R, Set(inst, id, WithoutNulls(cells))) /\ IsResult(c, R, Set(inst, id, made))
  <2>1. WithoutNulls(cells) \in Seq(Int \cup {Null}) /\ made \in Seq(Int \cup {Null})
    BY CellsMade
  <2> HIDE DEF made
  <2> QED BY <2>1, RowResults
<1> HIDE DEF made
<1>3. CASE c.w \in {"bigquery", "clickhouse", "mysql", "mongodb"}
  BY <1>1, <1>3 DEF update, BigqueryUpdate, ClickhouseUpdate, MysqlUpdate, MongodbUpdate
<1>4. CASE c.w = "dynamodb"
  <2>1. <<>> \in Seq(Rows)
    OBVIOUS
  <2>2. cells # <<>> => IsRequest(c, R, Request("upsert", <<>>, id, cells))
    BY <2>1, RequestIs
  <2>3. cells # <<>> => IsResult(c, R, Asks(inst, Request("upsert", <<>>, id, cells)))
    BY <2>2, AsksIs
  <2> QED BY <1>1, <1>4, <2>3 DEF update, DynamodbUpdate
<1>5. CASE c.w = "stripe"
  BY <1>1, <1>2, <1>5 DEF update, StripeUpdate
<1>6. CASE c.w = "cfd1"
  BY <1>1, <1>2, <1>6 DEF update, Cfd1Update, made
<1>7. CASE c.w = "snowflake"
  BY <1>1, <1>7 DEF update, SnowflakeUpdate
<1>8. CASE c.w \in {"clerk", "orb"}
  BY <1>1, <1>8 DEF update, ClerkUpdate, OrbUpdate
<1>9. CASE c.w \in {"paddle", "cal"}
  BY <1>1, <1>2, <1>9 DEF update, PaddleUpdate, CalUpdate
<1>10. CASE c.w \notin {"bigquery", "clickhouse", "mysql", "mongodb", "dynamodb", "stripe",
                        "cfd1", "snowflake", "clerk", "orb", "paddle", "cal"}
  BY <1>1, <1>10 DEF update
<1> QED BY <1>3, <1>4, <1>5, <1>6, <1>7, <1>8, <1>9, <1>10

LEMMA DeleteResult ==
  ASSUME NEW R, InstanceOf(c, R, inst), Small(inst), NEW id \in Nat \cup {Null}
  PROVE  IsResult(c, R, delete(id))
<1>1. /\ IsResult(c, R, Fails(inst)) /\ IsResult(c, R, Unwinds(inst)) /\ IsResult(c, R, Quiet(inst))
      /\ IsResult(c, R, Del(inst, id)) /\ IsResult(c, R, Del(inst, Null))
  BY ErrorsAreResults, QuietIs, RowResults
<1>2. CASE c.w \in {"bigquery", "clickhouse", "mysql", "mongodb", "dynamodb", "stripe"}
  BY <1>1, <1>2 DEF delete, BigqueryDelete, ClickhouseDelete, MysqlDelete, MongodbDelete,
                    DynamodbDelete, StripeDelete
<1>3. CASE c.w = "cfd1"
  BY <1>1, <1>3 DEF delete, Cfd1Delete
<1>4. CASE c.w \in {"s3vectors", "snowflake", "clerk", "orb", "paddle", "cal"}
  BY <1>1, <1>4 DEF delete, S3vectorsDelete, SnowflakeDelete, ClerkDelete, OrbDelete,
                    PaddleDelete, CalDelete
<1>5. CASE c.w \notin {"bigquery", "clickhouse", "mysql", "mongodb", "dynamodb", "stripe",
                       "s3vectors", "cfd1", "snowflake", "clerk", "orb", "paddle", "cal"}
  BY <1>1, <1>5 DEF delete
<1> QED BY <1>2, <1>3, <1>4, <1>5

LEMMA EndResult ==
  ASSUME c.order \in Seq(SortFields), NEW R, R \subseteq Rows, InstanceOf(c, R, inst), Small(inst)
  PROVE  IsResult(c, R, end_modify)
<1>1. IsResult(c, R, Quiet(inst))
  BY QuietIs
<1>2. CASE c.w = "s3vectors"
  <2>1. IsResult(c, R, S3vectorsFlush(inst))
    BY S3vectorsFlushResult DEF Small
  <2> QED BY <1>2, <2>1 DEF end_modify, S3vectorsEnd
<1>3. CASE c.w = "iceberg"
  <2>1. IsResult(c, R, processCurrentBatch(c, inst, TRUE))
    BY ProcessCurrentBatchResult
  <2> QED BY <1>1, <1>3, <2>1 DEF end_modify, IcebergEnd
<1>4. CASE c.w \notin {"s3vectors", "iceberg"}
  BY <1>1, <1>4 DEF end_modify
<1> QED BY <1>2, <1>3, <1>4

-----------------------------------------------------------------------------
(* The remote table.                                                       *)

\* A bag of finitely many different rows.
IsTable(B) ==
  /\ B = [r \in DOMAIN B |-> B[r]]
  /\ \A r \in DOMAIN B : B[r] \in Nat \ {0}
  /\ IsFiniteSet(DOMAIN B) /\ DOMAIN B \subseteq Rows

LEMMA TablesAdd ==
  ASSUME NEW A, NEW B, IsTable(A), IsTable(B)
  PROVE  IsTable(A (+) B)
<1>1. DOMAIN (A (+) B) = DOMAIN A \cup DOMAIN B
  BY DEF (+)
<1>2. IsFiniteSet(DOMAIN A \cup DOMAIN B) /\ DOMAIN A \cup DOMAIN B \subseteq Rows
  BY FS_Union DEF IsTable
<1>3. ASSUME NEW r \in DOMAIN A \cup DOMAIN B PROVE (A (+) B)[r] \in Nat \ {0}
  <2> DEFINE a == IF r \in DOMAIN A THEN A[r] ELSE 0
             b == IF r \in DOMAIN B THEN B[r] ELSE 0
  <2>1. (A (+) B)[r] = a + b
    BY DEF (+)
  <2>2. a \in Nat /\ b \in Nat /\ (a # 0 \/ b # 0)
    BY DEF IsTable
  <2> HIDE DEF a, b
  <2> QED BY <2>1, <2>2
<1>4. A (+) B = [r \in DOMAIN (A (+) B) |-> (A (+) B)[r]]
  BY DEF (+)
<1> QED BY <1>1, <1>2, <1>3, <1>4 DEF IsTable

LEMMA TableOfSet ==
  ASSUME NEW S, IsFiniteSet(S), S \subseteq Rows
  PROVE  IsTable(SetToBag(S))
BY DEF IsTable, SetToBag

LEMMA TableOfSeq ==
  ASSUME NEW s \in Seq(Rows)
  PROVE  IsTable(SeqToBag(s))
<1>1. SeqToBag(s) = [r \in Range(s) |-> Cardinality({i \in DOMAIN s : s[i] = r})]
  BY DEF SeqToBag
<1>2. IsFiniteSet(Range(s)) /\ Range(s) \subseteq Rows
  <2>1. IsFiniteSet(1..Len(s))
    BY FS_Interval
  <2>2. s \in Surjection(1..Len(s), Range(s))
    BY DEF Surjection, Range
  <2> QED BY <2>1, <2>2, FS_Surjection, OfRange
<1>3. ASSUME NEW r \in Range(s) PROVE Cardinality({i \in DOMAIN s : s[i] = r}) \in Nat \ {0}
  <2> DEFINE D == {i \in DOMAIN s : s[i] = r}
  <2>1. IsFiniteSet(1..Len(s)) /\ D \subseteq 1..Len(s)
    BY FS_Interval
  <2>2. D # {}
    BY OfRange
  <2> HIDE DEF D
  <2>3. IsFiniteSet(D)
    BY <2>1, FS_Subset
  <2>4. Cardinality(D) \in Nat /\ Cardinality(D) # 0
    BY <2>2, <2>3, FS_CardinalityType, FS_EmptySet
  <2> QED BY <2>4 DEF D
<1> QED BY <1>1, <1>2, <1>3 DEF IsTable

LEMMA TableWithout ==
  ASSUME IsTable(table), NEW ids
  PROVE  IsTable(Without(ids))
<1> DEFINE D == {r \in DOMAIN table : r.id \notin ids}
<1>1. Without(ids) = [r \in D |-> table[r]]
  BY DEF Without
<1>2. IsFiniteSet(D) /\ D \subseteq DOMAIN table
  BY FS_Subset DEF IsTable
<1> HIDE DEF D
<1> QED BY <1>1, <1>2 DEF IsTable

\* An assignment keeps the copies of a row, and adds up those of rows that it
\* makes alike.
LEMMA TableAssigned ==
  ASSUME IsTable(table), NEW ask, ask.cells \in Seq(Int \cup {Null})
  PROVE  IsTable(Assigned(ask))
<1> DEFINE new(r) == IF r.id = ask.id /\ ask.cells # <<>> THEN [r EXCEPT !.val = Last(ask.cells)] ELSE r
           copies == UNION {{r} \X (1..table[r]) : r \in DOMAIN table}
           D == {new(x) : x \in DOMAIN table}
           made(r) == {p \in copies : new(p[1]) = r}
<1>1. Assigned(ask) = [r \in D |-> Cardinality(made(r))]
  BY DEF Assigned
<1>2. \A r \in DOMAIN table : r \in Rows /\ table[r] \in Nat \ {0}
  BY DEF IsTable
<1>3. IsFiniteSet(DOMAIN table)
  BY DEF IsTable
<1>4. ASSUME NEW r \in DOMAIN table PROVE new(r) \in Rows
  <2>1. r \in Rows
    BY <1>2
  <2>2. ask.cells # <<>> => Last(ask.cells) \in Int \cup {Null}
    BY DEF Last
  <2> QED BY <2>1, <2>2 DEF Rows
<1> HIDE DEF new
<1>5. IsFiniteSet(D) /\ D \subseteq Rows
  <2> DEFINE f == [r \in DOMAIN table |-> new(r)]
  <2>1. f \in Surjection(DOMAIN table, D)
    <3>1. f \in [DOMAIN table -> D]
      OBVIOUS
    <3>2. \A d \in D : \E r \in DOMAIN table : f[r] = d
      OBVIOUS
    <3> HIDE DEF f, D
    <3> QED BY <3>1, <3>2 DEF Surjection
  <2>2. IsFiniteSet(D)
    <3> HIDE DEF f, D
    <3> QED BY <1>3, <2>1, FS_Surjection
  <2> QED BY <1>4, <2>2
<1>6. IsFiniteSet(copies)
  <2> DEFINE blocks == {{r} \X (1..table[r]) : r \in DOMAIN table}
             g == [r \in DOMAIN table |-> {r} \X (1..table[r])]
  <2>1. g \in Surjection(DOMAIN table, blocks)
    <3>1. g \in [DOMAIN table -> blocks]
      OBVIOUS
    <3>2. \A d \in blocks : \E r \in DOMAIN table : g[r] = d
      OBVIOUS
    <3> HIDE DEF g, blocks
    <3> QED BY <3>1, <3>2 DEF Surjection
  <2>2. ASSUME NEW b \in blocks PROVE IsFiniteSet(b)
    <3>1. PICK r \in DOMAIN table : b = {r} \X (1..table[r])
      OBVIOUS
    <3>2. IsFiniteSet({r})
      BY FS_Singleton
    <3>3. table[r] \in Int /\ 1 \in Int
      BY <1>2
    <3>4. IsFiniteSet(1..table[r])
      BY <3>3, FS_Interval
    <3> QED BY <3>1, <3>2, <3>4, FS_Product
  <2> HIDE DEF blocks, g
  <2>3. IsFiniteSet(blocks)
    BY <1>3, <2>1, FS_Surjection
  <2>4. IsFiniteSet(UNION blocks)
    BY <2>2, <2>3, FS_UNION
  <2> QED BY <2>4 DEF blocks
<1>7. ASSUME NEW d \in D PROVE Cardinality(made(d)) \in Nat \ {0}
  <2>1. PICK r \in DOMAIN table : d = new(r)
    OBVIOUS
  <2>2. <<r, 1>> \in copies
    BY <1>2
  <2>3. <<r, 1>> \in made(d)
    BY <2>1, <2>2
  <2>4. made(d) \subseteq copies /\ made(d) # {}
    BY <2>3
  <2> HIDE DEF made, copies
  <2>5. IsFiniteSet(made(d))
    BY <1>6, <2>4, FS_Subset
  <2> QED BY <2>4, <2>5, FS_CardinalityType, FS_EmptySet
<1> HIDE DEF D, made
<1> QED BY <1>1, <1>5, <1>7 DEF IsTable

\* Whatever a request does, the remote table stays one.
LEMMA TableAfter ==
  ASSUME IsTable(table), NEW R, NEW q, IsRequest(c, R, q), q # NoRequest
  PROVE  IsTable(Effect(q))
<1>1. /\ q.kind \in {"add", "put", "set", "upsert", "del"}
      /\ q.rows \in Seq(Rows) /\ q.id \in Nat \cup {Null} /\ q.cells \in Seq(Int \cup {Null})
      /\ q.kind = "upsert" => q.cells # <<>>
  BY DEF IsRequest
<1>2. IsTable(SeqToBag(q.rows)) /\ IsTable(Assigned(q))
  BY <1>1, TableOfSeq, TableAssigned
<1>3. CASE q.kind = "add"
  BY <1>2, <1>3, TablesAdd DEF Effect
<1>4. CASE q.kind = "put"
  BY <1>2, <1>4, TablesAdd, TableWithout DEF Effect
<1>5. CASE q.kind = "set"
  BY <1>2, <1>5 DEF Effect
<1>6. CASE q.kind = "upsert" /\ q.id \in Ids
  BY <1>2, <1>6 DEF Effect
<1>7. CASE q.kind = "upsert" /\ q.id \notin Ids
  <2> DEFINE r == [id |-> q.id, val |-> Last(q.cells)]
  <2>1. r \in Rows
    BY <1>1, <1>7 DEF Last, Rows
  <2>2. IsTable(SetToBag({r}))
    BY <2>1, FS_Singleton, TableOfSet
  <2>3. Effect(q) = table (+) SetToBag({r})
    BY <1>7 DEF Effect
  <2> QED BY <2>2, <2>3, TablesAdd
<1>8. CASE q.kind = "del"
  BY <1>8, TableWithout DEF Effect
<1> QED BY <1>1, <1>3, <1>4, <1>5, <1>6, <1>7, <1>8

-----------------------------------------------------------------------------
(* The scan of an UPDATE or DELETE.                                        *)

\* Row ids are ordered like sort keys.
LEMMA IdsOrdered ==
  ASSUME NEW a \in Nat \cup {Null}, NEW b \in Nat \cup {Null}, NEW d \in Nat \cup {Null}
  PROVE  /\ Below(a, b) => ~Below(b, a)
         /\ Below(a, d) => Below(a, b) \/ Below(b, d)
<1>1. Null \notin Int
  BY BatchAssumption
<1> QED BY <1>1 DEF Below

LEMMA SortedRows ==
  ASSUME IsTable(table)
  PROVE  SortedTable \in Seq(Rows)
<1> DEFINE rows == SetToSeq(BagToSet(table))
           less == {p \in (DOMAIN rows) \X (DOMAIN rows) : Below(rows[p[1]].id, rows[p[2]].id)}
<1>1. IsFiniteSet(DOMAIN table) /\ DOMAIN table \subseteq Rows /\ BagToSet(table) = DOMAIN table
  BY DEF IsTable, BagToSet
<1>2. rows \in Seq(DOMAIN table)
  BY <1>1, ListOfSet
<1>3. rows \in Seq(Rows)
  <2> HIDE DEF rows
  <2> QED BY <1>1, <1>2
<1>4. SortedTable = StableSort(rows, less)
  BY DEF SortedTable
<1> HIDE DEF rows
<1>5. ASSUME NEW n \in DOMAIN rows PROVE rows[n].id \in Nat \cup {Null}
  <2>1. rows[n] \in Rows
    BY <1>3
  <2> QED BY <2>1 DEF Rows
<1>6. IsWeakOrder(less, DOMAIN rows)
  <2>1. \A i, j \in DOMAIN rows : <<i, j>> \in less <=> Below(rows[i].id, rows[j].id)
    OBVIOUS
  <2> HIDE DEF less
  <2>2. ASSUME NEW i \in DOMAIN rows, NEW j \in DOMAIN rows PROVE <<i, j>> \in less => <<j, i>> \notin less
    <3> DEFINE a == rows[i].id
               b == rows[j].id
    <3>1. a \in Nat \cup {Null} /\ b \in Nat \cup {Null}
      BY <1>5
    <3> HIDE DEF a, b
    <3>2. Below(a, b) => ~Below(b, a)
      BY <3>1, IdsOrdered
    <3> QED BY <2>1, <3>2 DEF a, b
  <2>3. ASSUME NEW i \in DOMAIN rows, NEW j \in DOMAIN rows, NEW k \in DOMAIN rows
        PROVE  <<i, k>> \in less => <<i, j>> \in less \/ <<j, k>> \in less
    <3> DEFINE a == rows[i].id
               b == rows[j].id
               d == rows[k].id
    <3>1. a \in Nat \cup {Null} /\ b \in Nat \cup {Null} /\ d \in Nat \cup {Null}
      BY <1>5
    <3> HIDE DEF a, b, d
    <3>2. Below(a, d) => Below(a, b) \/ Below(b, d)
      BY <3>1, IdsOrdered
    <3> QED BY <2>1, <3>2 DEF a, b, d
  <2> QED BY <2>2, <2>3 DEF IsWeakOrder
<1> HIDE DEF less
<1>7. StableSort(rows, less) \in [1..Len(rows) -> Rows] /\ Len(rows) \in Nat
  BY <1>3, <1>6, StableSortSorts
<1> QED BY <1>4, <1>7

LEMMA PageRows ==
  ASSUME NEW rows \in Seq(Rows)
  PROVE  PageOf(rows) \in Seq(Rows)
<1> DEFINE n == Min({PageSize, Len(rows)})
<1>1. PageSize \in Nat /\ Len(rows) \in Nat
  BY ModifyAssumption
<1>2. n \in {PageSize, Len(rows)} /\ n <= Len(rows)
  <2>1. \E x \in {PageSize, Len(rows)} : \A y \in {PageSize, Len(rows)} : x <= y
    BY <1>1
  <2>2. n \in {PageSize, Len(rows)} /\ \A y \in {PageSize, Len(rows)} : n <= y
    BY <2>1 DEF Min
  <2> QED BY <2>2
<1>3. n \in Nat
  BY <1>1, <1>2
<1>4. PageOf(rows) = SubSeq(rows, 1, n)
  BY DEF PageOf
<1> HIDE DEF n
<1> QED BY <1>2, <1>3, <1>4

LEMMA NextPageRows ==
  ASSUME IsTable(table), scan.cnt \in Nat
  PROVE  NextPage \in Seq(Rows)
<1> DEFINE later == {r \in DOMAIN table : scan.at = Null \/ Below(scan.at, r.id)}
<1>1. SortedTable \in Seq(Rows)
  BY SortedRows
<1>2. Only(SortedTable, later) \in Seq(Rows)
  <2>1. Only(SortedTable, later) \in Seq(Rows \cap later)
    BY <1>1, OnlyKeeps
  <2> QED BY <2>1
<1>3. SubSeq(SortedTable, scan.cnt + 1, Len(SortedTable)) \in Seq(Rows)
  BY <1>1
<1>4. /\ PageOf(Only(SortedTable, later)) \in Seq(Rows) /\ PageOf(SortedTable) \in Seq(Rows)
      /\ PageOf(SubSeq(SortedTable, scan.cnt + 1, Len(SortedTable))) \in Seq(Rows)
  BY <1>1, <1>2, <1>3, PageRows
<1> HIDE DEF later
<1>5. NextPage =
        CASE c.w \in {"mongodb", "dynamodb", "s3vectors", "paddle"} -> PageOf(Only(SortedTable, later))
          [] c.w = "clerk" -> PageOf(SubSeq(SortedTable, scan.cnt + 1, Len(SortedTable)))
          [] c.w = "orb"   -> PageOf(SortedTable)
          [] OTHER         -> SortedTable
  BY DEF NextPage, later
<1> QED BY <1>1, <1>4, <1>5

-----------------------------------------------------------------------------
(* What a statement makes of the remote side.                              *)

\* The rows of the statement.
Given == Range(c.stmt.rows)

IsScan(s) ==
  /\ s = [rows |-> s.rows, at |-> s.at, cnt |-> s.cnt, end |-> s.end]
  /\ s.rows \in Seq(Rows) /\ s.cnt \in Nat

\* An instance keeps rows of the statement by their keys, a request that is on
\* its way adds files made of chunks of one key, as are those of the table, and
\* the table is a bag of rows whatever the requests did to it.
WriteInv ==
  /\ c \in Cases /\ pos \in Nat \ {0}
  /\ sends \in 0..MaxSends - 1 /\ (Idle => sends = 0)
  /\ phase \in {"plan", "begin"} => inst = FreshInstance
  /\ phase = "open" => InstanceOf(c, Given, inst) /\ Small(inst)
  /\ IsScan(scan)
  /\ IsRequest(c, Given, request)
  /\ IsTable(table)
  /\ \A f \in files : IsFileOf(c, Given, f)

LEMMA CaseIs ==
  ASSUME c \in Cases
  PROVE  /\ c.stmt.rows \in Seq(Rows) /\ c.stmt.cells \in Seq(Int \cup {Null})
         /\ Given \subseteq Rows
         /\ \A n \in DOMAIN c.stmt.rows : c.stmt.rows[n] \in Given
         /\ IsFiniteSet(c.rows) /\ c.rows \subseteq Rows
<1>1. /\ c.stmt.rows \in Seq(Rows) /\ c.stmt.cells \in Seq(Int \cup {Null})
      /\ IsFiniteSet(c.rows) /\ c.rows \subseteq Rows
  BY ModifyAssumption DEF Rows
<1>2. Given \subseteq Rows
  BY <1>1, OfRange DEF Given
<1>3. \A n \in DOMAIN c.stmt.rows : c.stmt.rows[n] \in Given
  BY DEF Given, Range
<1> QED BY <1>1, <1>2, <1>3

LEMMA OrderIs ==
  ASSUME c \in Cases
  PROVE  c.order \in Seq(SortFields)
BY ModifyAssumption

LEMMA FreshIs ==
  ASSUME NEW t, NEW R
  PROVE  InstanceOf(t, R, FreshInstance) /\ Small(FreshInstance)
<1>1. /\ FreshInstance = [rows |-> <<>>, parts |-> <<>>]
      /\ FreshInstance.rows = <<>> /\ FreshInstance.parts = <<>>
  BY DEF FreshInstance
<1>2. DOMAIN <<>> = {} /\ <<>> \in Seq(R) /\ Len(<<>>) = 0
  OBVIOUS
<1>3. IsFiniteSet({}) /\ Cardinality({}) = 0
  BY FS_EmptySet
<1>4. InstanceOf(t, R, FreshInstance)
  BY <1>1, <1>2, <1>3 DEF InstanceOf, PartsOf
<1>5. Small(FreshInstance)
  BY <1>1, <1>2, <1>3, BatchAssumption, PartitionAssumption DEF Small
<1> QED BY <1>4, <1>5

LEMMA WriteInvInit == Init => WriteInv
<1> SUFFICES ASSUME Init PROVE WriteInv
  OBVIOUS
<1>1. c \in Cases /\ pos \in Nat \ {0} /\ inst = FreshInstance
  BY DEF Init
<1>2. sends \in 0..MaxSends - 1 /\ sends = 0
  BY ModifyAssumption DEF Init
<1>3. IsScan(scan)
  <2>1. scan = [rows |-> <<>>, at |-> Null, cnt |-> 0, end |-> FALSE] /\ <<>> \in Seq(Rows)
    BY DEF Init
  <2> QED BY <2>1 DEF IsScan
<1>4. IsRequest(c, Given, request)
  BY NoRequestIs DEF Init
<1>5. IsTable(table)
  BY <1>1, CaseIs, TableOfSet DEF Init
<1>6. files = {} /\ InstanceOf(c, Given, inst) /\ Small(inst)
  BY <1>1, FreshIs DEF Init
<1> QED BY <1>1, <1>2, <1>3, <1>4, <1>5, <1>6 DEF WriteInv

\* The framework's way on after a method: what the method returns is kept.
LEMMA HandlesKeeps ==
  ASSUME WriteInv, phase = "open", Idle, contexts = 1,
         NEW res, IsResult(c, Given, res), res.err \in Outcomes, Handles(res),
         c' = c, pos' \in Nat \ {0}, IsScan(scan'), UNCHANGED <<table, files>>
  PROVE  WriteInv'
<1>1. /\ c' \in Cases /\ Given' = Given /\ IsTable(table')
      /\ \A f \in files' : IsFileOf(c', Given', f)
      /\ sends = 0 /\ sends \in 0..MaxSends - 1 /\ 0 \in 0..MaxSends - 1
  BY ModifyAssumption DEF WriteInv, Given
<1>2. CASE res.err = "ok"
  <2>1. inst' = res.inst /\ request' = res.ask /\ phase' = phase /\ sends' = sends
    BY <1>2 DEF Handles
  <2>2. InstanceOf(c, Given, res.inst) /\ Small(res.inst) /\ IsRequest(c, Given, res.ask)
    BY <1>2 DEF IsResult
  <2> QED BY <1>1, <2>1, <2>2 DEF WriteInv
<1>3. CASE res.err = "error"
  <2>1. phase' = "failed" /\ request' = NoRequest /\ sends' = 0
    BY <1>3 DEF Handles, DropState
  <2> QED BY <1>1, <2>1, NoRequestIs DEF WriteInv
<1>4. CASE res.err = "unwinds"
  <2>1. phase' = "failed" /\ request' = request /\ sends' = sends
    BY <1>4 DEF Handles, Unwind
  <2>2. IsRequest(c, Given, request)
    BY DEF WriteInv
  <2> QED BY <1>1, <2>1, <2>2 DEF WriteInv
<1> QED BY <1>2, <1>3, <1>4 DEF Outcomes

\* An error: the statement is over, what the remote side has stays.
LEMMA FailingKeeps ==
  ASSUME WriteInv, phase' = "failed", c' = c, pos' = pos, scan' = scan,
         IsTable(table'), \A f \in files' : IsFileOf(c, Given, f),
         \/ request' = NoRequest /\ sends' = 0
         \/ request' = request /\ sends' = sends
  PROVE  WriteInv'
<1>1. /\ c' \in Cases /\ Given' = Given /\ pos' \in Nat \ {0} /\ IsScan(scan')
      /\ \A f \in files' : IsFileOf(c', Given', f)
  BY DEF WriteInv, Given
<1>2. IsRequest(c', Given', request')
  BY <1>1, NoRequestIs DEF WriteInv
<1>3. sends' \in 0..MaxSends - 1 /\ (request' = NoRequest => sends' = 0)
  BY ModifyAssumption DEF WriteInv, Idle
<1> QED BY <1>1, <1>2, <1>3 DEF WriteInv, Idle

LEMMA WriteInvStep == WriteInv /\ LifeInv /\ [Next]_vars => WriteInv'
<1> SUFFICES ASSUME WriteInv, LifeInv, [Next]_vars PROVE WriteInv'
  OBVIOUS
<1>0. /\ c \in Cases /\ pos \in Nat \ {0} /\ sends \in 0..MaxSends - 1 /\ IsScan(scan)
      /\ IsRequest(c, Given, request) /\ IsTable(table) /\ \A f \in files : IsFileOf(c, Given, f)
      /\ phase = "open" => InstanceOf(c, Given, inst) /\ Small(inst)
      /\ Given \subseteq Rows
  BY CaseIs DEF WriteInv
<1>1. CASE PlanForeignModify
  <2>1. /\ UNCHANGED <<c, pos, scan, inst, request, sends, table, files>>
        /\ phase = "plan" /\ phase' \in {"failed", "begin"}
    BY <1>1 DEF PlanForeignModify, local
  <2> QED BY <2>1 DEF WriteInv, Given, Idle
<1>2. CASE BeginForeignModify
  <2>1. /\ UNCHANGED <<c, pos, scan, inst, request, sends, table, files>>
        /\ phase = "begin" /\ phase' \in {"failed", "open"}
    BY <1>2 DEF BeginForeignModify, local
  <2>2. InstanceOf(c, Given, inst) /\ Small(inst)
    BY <2>1, FreshIs DEF WriteInv
  <2> QED BY <2>1, <2>2 DEF WriteInv, Given, Idle
<1>3. CASE ExecForeignInsert
  <2> DEFINE r == c.stmt.rows[pos]
  <2>1. /\ phase = "open" /\ Idle /\ contexts = 1 /\ Handles(insert(r))
        /\ c' = c /\ pos' = pos + 1 /\ scan' = scan /\ UNCHANGED <<table, files>>
    BY <1>3 DEF ExecForeignInsert
  <2>2. r \in Given
    <3>1. pos \in DOMAIN c.stmt.rows
      BY <1>0, <1>3, CaseIs DEF ExecForeignInsert
    <3> QED BY <1>0, <3>1, CaseIs
  <2> HIDE DEF r
  <2>3. IsResult(c, Given, insert(r)) /\ insert(r).err \in Outcomes
    BY <1>0, <2>1, <2>2, OrderIs, InsertResult, InsertOutcomes
  <2>4. pos' \in Nat \ {0} /\ IsScan(scan')
    BY <1>0, <2>1
  <2> QED BY <2>1, <2>3, <2>4, HandlesKeeps
<1>4. CASE FetchPage
  <2> DEFINE chosen == Only(NextPage, {r \in DOMAIN table : r.id \in c.stmt.ids})
  <2>1. /\ UNCHANGED <<c, phase, pos, inst, request, sends, table, files>>
        /\ scan' = [rows |-> chosen, at |-> IF NextPage = <<>> THEN Null ELSE Last(NextPage).id,
                    cnt  |-> scan.cnt + Len(NextPage),
                    end  |-> Len(NextPage) # PageSize
                               \/ c.w \notin {"mongodb", "dynamodb", "s3vectors", "paddle", "clerk"}]
    BY <1>4 DEF FetchPage
  <2>2. scan.cnt \in Nat
    BY <1>0 DEF IsScan
  <2>3. NextPage \in Seq(Rows)
    BY <1>0, <2>2, NextPageRows
  <2>4. chosen \in Seq(Rows)
    <3>1. chosen \in Seq(Rows \cap {r \in DOMAIN table : r.id \in c.stmt.ids})
      BY <2>3, OnlyKeeps
    <3> QED BY <3>1
  <2>5. scan.cnt + Len(NextPage) \in Nat
    BY <2>2, <2>3
  <2> HIDE DEF chosen
  <2>6. IsScan(scan')
    BY <2>1, <2>4, <2>5 DEF IsScan
  <2> QED BY <2>1, <2>6 DEF WriteInv, Given, Idle
<1>5. ASSUME NEW r \in Range(scan.rows), TakesRow(r)
      PROVE  /\ phase = "open" /\ Idle /\ contexts = 1
             /\ c' = c /\ pos' = pos /\ UNCHANGED <<table, files>> /\ IsScan(scan')
             /\ get_rowid_cell(r) \in Nat \cup {Null}
             /\ new_row \in Seq(Int \cup {Null})
  <2>1. /\ phase = "open" /\ Idle /\ contexts = 1
        /\ c' = c /\ pos' = pos /\ UNCHANGED <<table, files>>
        /\ scan.rows # <<>> /\ scan' = [scan EXCEPT !.rows = Tail(@)]
    BY <1>5 DEF TakesRow
  <2>2. scan = [rows |-> scan.rows, at |-> scan.at, cnt |-> scan.cnt, end |-> scan.end]
    BY <1>0 DEF IsScan
  <2>3. scan.rows \in Seq(Rows) /\ Tail(scan.rows) \in Seq(Rows) /\ scan.cnt \in Nat
    BY <1>0, <2>1 DEF IsScan
  <2>4. scan' = [rows |-> Tail(scan.rows), at |-> scan.at, cnt |-> scan.cnt, end |-> scan.end]
    BY <2>1, <2>2
  <2>5. IsScan(scan')
    BY <2>3, <2>4 DEF IsScan
  <2>6. r \in Rows
    BY <2>3, OfRange
  <2>7. get_rowid_cell(r) \in Nat \cup {Null}
    BY <2>6 DEF get_rowid_cell, Rows
  <2>8. <<>> \in Seq(Int \cup {Null})
    OBVIOUS
  <2>9. new_row \in Seq(Int \cup {Null})
    BY <1>0, <2>8, CaseIs DEF new_row
  <2> QED BY <2>1, <2>5, <2>7, <2>9
<1>6. ASSUME NEW r \in Range(scan.rows), TakesRow(r), SkipsRow
      PROVE  WriteInv'
  <2>1. UNCHANGED <<c, pos, table, files, phase, inst, request, sends>> /\ IsScan(scan')
    BY <1>5, <1>6 DEF SkipsRow
  <2> QED BY <2>1 DEF WriteInv, Given, Idle
<1>7. CASE ExecForeignUpdate
  <2>1. PICK r \in Range(scan.rows) :
               /\ TakesRow(r)
               /\ IF get_rowid_cell(r) = Null THEN SkipsRow
                  ELSE Handles(update(get_rowid_cell(r), new_row))
    BY <1>7 DEF ExecForeignUpdate
  <2>2. CASE get_rowid_cell(r) # Null
    <3> DEFINE res == update(get_rowid_cell(r), new_row)
    <3>1. IsResult(c, Given, res)
      BY <1>0, <1>5, <2>1, UpdateResult
    <3>2. res.err \in Outcomes
      BY UpdateOutcomes
    <3>3. Handles(res)
      BY <2>1, <2>2
    <3>4. pos' \in Nat \ {0}
      BY <1>0, <1>5, <2>1
    <3> HIDE DEF res
    <3> QED BY <1>5, <2>1, <3>1, <3>2, <3>3, <3>4, HandlesKeeps
  <2> QED BY <1>6, <2>1, <2>2
<1>8. CASE ExecForeignDelete
  <2>1. PICK r \in Range(scan.rows) :
               /\ TakesRow(r)
               /\ IF get_rowid_cell(r) = Null THEN SkipsRow
                  ELSE Handles(delete(get_rowid_cell(r)))
    BY <1>8 DEF ExecForeignDelete
  <2>2. CASE get_rowid_cell(r) # Null
    <3> DEFINE res == delete(get_rowid_cell(r))
    <3>1. IsResult(c, Given, res)
      BY <1>0, <1>5, <2>1, DeleteResult
    <3>2. res.err \in Outcomes
      BY DeleteOutcomes
    <3>3. Handles(res)
      BY <2>1, <2>2
    <3>4. pos' \in Nat \ {0}
      BY <1>0, <1>5, <2>1
    <3> HIDE DEF res
    <3> QED BY <1>5, <2>1, <3>1, <3>2, <3>3, <3>4, HandlesKeeps
  <2> QED BY <1>6, <2>1, <2>2
<1>9. ASSUME SendAgain PROVE sends' \in 0..MaxSends - 1
  BY <1>0, <1>9, ModifyAssumption DEF SendAgain
<1>10. CASE RemoteWrites
  <2>1. /\ ~Idle /\ c' = c /\ pos' = pos /\ scan' = scan
        /\ table' = Effect(request) /\ files' = files \cup request.files
    BY <1>10 DEF RemoteWrites
  <2>2. IsTable(table')
    BY <1>0, <2>1, TableAfter DEF Idle
  <2>3. \A f \in files' : IsFileOf(c, Given, f)
    BY <1>0, <2>1 DEF IsRequest
  <2>4. CASE Answered
    <3>1. inst' = inst /\ request' = NoRequest /\ sends' = 0 /\ phase' = IF phase = "ending" THEN "done" ELSE phase
      BY <2>4 DEF Answered
    <3>2. phase \in {"open", "ending"}
      BY <2>1 DEF LifeInv
    <3>3. 0 \in 0..MaxSends - 1
      BY ModifyAssumption
    <3> QED BY <1>0, <2>1, <2>2, <2>3, <3>1, <3>2, <3>3, NoRequestIs DEF WriteInv, Given, Idle
  <2>5. CASE SendAgain
    <3>1. UNCHANGED <<phase, inst, request>>
      BY <2>5 DEF SendAgain
    <3> QED BY <1>0, <1>9, <2>1, <2>2, <2>3, <2>5, <3>1 DEF WriteInv, Given, Idle
  <2>6. CASE GivesUp
    BY <2>1, <2>2, <2>3, <2>6, FailingKeeps DEF GivesUp, DropState
  <2> QED BY <1>10, <2>4, <2>5, <2>6 DEF RemoteWrites
<1>11. CASE RemoteRefuses
  <2>1. ~Idle /\ UNCHANGED <<c, pos, scan, table, files>>
    BY <1>11 DEF RemoteRefuses
  <2>2. CASE SendAgain
    <3>1. UNCHANGED <<phase, inst, request>>
      BY <2>2 DEF SendAgain
    <3> QED BY <1>0, <1>9, <2>1, <2>2, <3>1 DEF WriteInv, Given, Idle
  <2>3. CASE DropState
    BY <1>0, <2>1, <2>3, FailingKeeps DEF DropState
  <2> QED BY <1>11, <2>2, <2>3 DEF RemoteRefuses
<1>12. CASE EndForeignModify
  <2>1. phase = "open" /\ Idle /\ UNCHANGED <<c, pos, scan, table, files>>
    BY <1>12 DEF EndForeignModify
  <2>2. CASE contexts = 0
    <3>1. phase' = "done" /\ UNCHANGED <<inst, request, sends>>
      BY <1>12, <2>2 DEF EndForeignModify
    <3> QED BY <2>1, <3>1 DEF WriteInv, Given, Idle
  <2>3. CASE contexts # 0 /\ end_modify.err # "ok"
    <3>1. DropState
      BY <1>12, <2>3 DEF EndForeignModify
    <3> QED BY <1>0, <2>1, <3>1, FailingKeeps DEF DropState
  <2>4. CASE contexts # 0 /\ end_modify.err = "ok"
    <3>1. request' = end_modify.ask /\ sends' = sends /\ phase' \in {"done", "ending"}
      BY <1>12, <2>4 DEF EndForeignModify
    <3>2. IsRequest(c, Given, end_modify.ask)
      BY <1>0, <2>1, <2>4, OrderIs, EndResult DEF IsResult
    <3>3. sends' = 0
      BY <2>1, <3>1 DEF WriteInv
    <3> QED BY <1>0, <2>1, <3>1, <3>2, <3>3 DEF WriteInv, Given
  <2> QED BY <2>2, <2>3, <2>4
<1>13. CASE AbortElsewhere
  BY <1>0, <1>13, FailingKeeps DEF AbortElsewhere, Unwind
<1>14. CASE RivalDeletes
  <2>1. UNCHANGED <<c, pos, scan, inst, phase, request, sends, files>>
    BY <1>14 DEF RivalDeletes, local
  <2>2. IsTable(table')
    BY <1>0, <1>14, TableWithout DEF RivalDeletes
  <2> QED BY <2>1, <2>2 DEF WriteInv, Given, Idle
<1>15. CASE UNCHANGED vars
  BY <1>15 DEF vars, WriteInv, Given, Idle
<1> QED BY <1>1, <1>2, <1>3, <1>4, <1>7, <1>8, <1>10, <1>11, <1>12, <1>13, <1>14, <1>15
        DEF Next, Finished

LEMMA WriteInvHolds == Spec => [](WriteInv /\ LifeInv)
<1> DEFINE Inv == WriteInv /\ LifeInv
<1>1. Init => Inv
  BY WriteInvInit, LifeInvInit
<1>2. Inv /\ [Next]_vars => Inv'
  BY WriteInvStep, LifeInvStep
<1> QED BY <1>1, <1>2, PTL DEF Spec

\* In every state of every statement the variables are of the kinds the code
\* knows; the remote table stays a bag of rows whatever insert, put, assignment
\* or deletion, of this statement or of other clients, comes in which order.
THEOREM ModifyTypeOK == Spec => []TypeOK
<1>1. ASSUME WriteInv, LifeInv PROVE TypeOK
  <2>1. IsTable(table)
    BY <1>1 DEF WriteInv
  <2>2. IsABag(table)
    <3>1. table \in [DOMAIN table -> {n \in Nat : n > 0}]
      BY <2>1 DEF IsTable
    <3> QED BY <3>1 DEF IsABag
  <2>3. {r.id : r \in DOMAIN table} \subseteq Nat \cup {Null}
    BY <2>1 DEF IsTable, Rows
  <2> QED BY <1>1, <2>2, <2>3 DEF TypeOK, WriteInv, LifeInv
<1> QED BY <1>1, WriteInvHolds, PTL

\* Between two calls a wrapper keeps fewer rows than its options allow, for all
\* statements and options: the staged rows, each partition's buffer, which is
\* never an empty one, and the number of open partitions.
THEOREM BuffersStayBounded == Spec => []BuffersBounded
<1>1. ASSUME WriteInv PROVE BuffersBounded
  <2> SUFFICES ASSUME phase = "open"
               PROVE  /\ Len(inst.rows) < BatchSize
                      /\ \A k \in DOMAIN inst.parts : Len(inst.parts[k]) \in 1..PartitionBufferSize - 1
                      /\ Cardinality(DOMAIN inst.parts) < RegularFlush
    BY DEF BuffersBounded
  <2>1. InstanceOf(c, Given, inst) /\ Small(inst)
    BY <1>1 DEF WriteInv
  <2>2. ASSUME NEW k \in DOMAIN inst.parts PROVE Len(inst.parts[k]) \in 1..PartitionBufferSize - 1
    <3>1. inst.parts[k] \in Seq(Given) /\ inst.parts[k] # <<>>
      BY <2>1 DEF InstanceOf, PartsOf, OfKey
    <3>2. Len(inst.parts[k]) < PartitionBufferSize
      BY <2>1 DEF Small
    <3> QED BY <3>1, <3>2, PartitionAssumption
  <2> QED BY <2>1, <2>2 DEF Small
<1> QED BY <1>1, WriteInvHolds, PTL

-----------------------------------------------------------------------------
(* The partitions of the data files.                                       *)

LEMMA FilesBelong ==
  ASSUME WriteInv, ValueFails(c) \/ KeysAgree(c)
  PROVE  FilesInPartition
<1> SUFFICES ASSUME NEW f \in files, NEW r \in Range(f.rows)
             PROVE  IcebergTransform(c, r.val) = f.part
  BY DEF FilesInPartition
<1>1. f.rows \in Chunks(c, Given) /\ ~ValueFails(c) /\ f.part = computePartitionInfo(c, f.rows[1])
  BY DEF WriteInv, IsFileOf
<1>2. f.rows \in Seq(Given) /\ f.rows # <<>>
  BY <1>1 DEF Chunks
<1>3. PICK n \in DOMAIN f.rows : f.rows[n] = r
  BY <1>2, OfRange
<1>4. 1 \in DOMAIN f.rows /\ f.rows[1] \in Given /\ r \in Given
  BY <1>2, <1>3
<1>5. computePartitionKey(c, r) = computePartitionKey(c, f.rows[1])
  BY <1>1, <1>3, <1>4 DEF Chunks
<1>6. KeysAgree(c)
  BY <1>1
<1> QED BY <1>1, <1>4, <1>5, <1>6 DEF KeysAgree, Given

\* Every row of a data file belongs to the partition of its file whenever the
\* keys of the buffers tell apart what the transforms of the format do; with the
\* approximate months and years of the code that is a matter of the dates.
THEOREM FilesFollowTransform ==
  ASSUME \A x \in Cases : ValueFails(x) \/ KeysAgree(x)
  PROVE  Spec => []FilesInPartition
<1>1. WriteInv => FilesInPartition
  BY FilesBelong DEF WriteInv
<1> QED BY <1>1, WriteInvHolds, PTL

\* Rows without a partition, of an identity, of days or of hours.
ByPeriod(x) ==
  /\ x.part \in {"none", "identity", "day", "hour"}
  /\ x.part \in {"day", "hour"} => x.col \in {"date", "timestamp"}
  /\ x.col = "timestamp" => \A r \in Range(x.stmt.rows) : r.val = Null \/ r.val >= PgEpoch

\* Days and hours are counted from 2000 for a buffer and from 1970 for a file.
LEMMA EpochsAgree ==
  ASSUME NEW v \in Int, v >= PgEpoch
  PROVE  /\ TruncDiv(v - PgEpoch, 48) = v \div 48 - 10957 /\ TruncDiv(v, 48) = v \div 48
         /\ TruncDiv(v - PgEpoch, 2) = v \div 2 - 262968 /\ TruncDiv(v, 2) = v \div 2
<1>1. PgEpoch = 525936
  BY DEF PgEpoch
<1>2. (v - 525936) \div 48 = v \div 48 - 10957 /\ (v - 525936) \div 2 = v \div 2 - 262968
  OBVIOUS
<1> QED BY <1>1, <1>2 DEF TruncDiv

\* The transforms by the kinds of ByPeriod.
LEMMA TransformedBy ==
  ASSUME NEW t, NEW v
  PROVE  /\ t.part = "identity" => Transformed(t, v) = v
         /\ t.part = "day" /\ t.col = "date" => Transformed(t, v) = v
         /\ t.part = "day" /\ t.col = "timestamp" => Transformed(t, v) = TruncDiv(v, 48)
         /\ t.part = "hour" /\ t.col = "date" => Transformed(t, v) = v * 24
         /\ t.part = "hour" /\ t.col = "timestamp" => Transformed(t, v) = TruncDiv(v, 2)
<1>1. CASE t.part = "identity"
  BY <1>1 DEF Transformed
<1>2. CASE t.part = "day"
  BY <1>2 DEF Transformed
<1>3. CASE t.part = "hour"
  BY <1>3 DEF Transformed
<1> QED BY <1>1, <1>2, <1>3

LEMMA FormatBy ==
  ASSUME NEW t, NEW v
  PROVE  /\ ~Partitioned(t, v) => IcebergTransform(t, v) = Null
         /\ Partitioned(t, v) /\ t.part = "identity" => IcebergTransform(t, v) = v
         /\ Partitioned(t, v) /\ t.part = "day" /\ t.col = "date" => IcebergTransform(t, v) = v
         /\ Partitioned(t, v) /\ t.part = "day" /\ t.col = "timestamp" => IcebergTransform(t, v) = v \div 48
         /\ Partitioned(t, v) /\ t.part = "hour" /\ t.col = "date" => IcebergTransform(t, v) = v * 24
         /\ Partitioned(t, v) /\ t.part = "hour" /\ t.col = "timestamp" => IcebergTransform(t, v) = v \div 2
<1>1. CASE ~Partitioned(t, v)
  BY <1>1 DEF IcebergTransform
<1>2. CASE Partitioned(t, v) /\ t.part = "identity"
  BY <1>2 DEF IcebergTransform
<1>3. CASE Partitioned(t, v) /\ t.part = "day"
  BY <1>3 DEF IcebergTransform
<1>4. CASE Partitioned(t, v) /\ t.part = "hour"
  BY <1>4 DEF IcebergTransform
<1> QED BY <1>1, <1>2, <1>3, <1>4

\* What lies before 2000.
Shift(x) == IF x.col # "timestamp" THEN 0 ELSE IF x.part = "day" THEN 10957 ELSE 262968

\* The key of a buffer stands for the partition value, less the shift.
LEMMA OneValue ==
  ASSUME NEW x, NEW r \in Range(x.stmt.rows), x.stmt.rows \in Seq(Rows), ByPeriod(x), ~ValueFails(x)
  PROVE  /\ computePartitionInfo(x, r) = IcebergTransform(x, r.val)
         /\ ~Partitioned(x, r.val) =>
              IcebergTransform(x, r.val) = Null /\ computePartitionKey(x, r) = Null
         /\ Partitioned(x, r.val) =>
              /\ IcebergTransform(x, r.val) \in Int
              /\ computePartitionKey(x, r) = IcebergTransform(x, r.val) - Shift(x)
<1> DEFINE v == r.val
           k == computePartitionKey(x, r)
           d == computePartitionInfo(x, r)
           f == IcebergTransform(x, v)
<1>1. CASE ~Partitioned(x, v)
  BY <1>1, FormatBy DEF computePartitionInfo, computePartitionKey
<1>2. CASE Partitioned(x, v)
  <2>1. r \in Rows
    BY OfRange
  <2>2. v \in Int /\ x.part \in {"identity", "day", "hour"}
    BY <1>2, <2>1 DEF Rows, Partitioned, ByPeriod
  <2>3. /\ d = Transformed(x, v)
        /\ x.col = "timestamp" => k = Transformed(x, v - PgEpoch)
        /\ x.col # "timestamp" => k = Transformed(x, v)
    BY <1>2 DEF computePartitionInfo, computePartitionKey
  <2> HIDE DEF v, k, d
  <2> HIDE DEF f
  <2>4. CASE x.part = "identity"
    <3>1. x.col # "timestamp"
      BY <2>4 DEF ValueFails
    <3>2. f = v /\ d = v /\ k = v
      BY <1>2, <2>3, <2>4, <3>1, FormatBy, TransformedBy DEF f
    <3> QED BY <1>2, <2>2, <3>1, <3>2 DEF v, d, k, f, Shift
  <2>5. CASE x.part = "day" /\ x.col = "date"
    <3>1. f = v /\ d = v /\ k = v
      BY <1>2, <2>3, <2>5, FormatBy, TransformedBy DEF f
    <3> QED BY <1>2, <2>2, <2>5, <3>1 DEF v, d, k, f, Shift
  <2>6. CASE x.part = "hour" /\ x.col = "date"
    <3>1. f = v * 24 /\ d = v * 24 /\ k = v * 24
      BY <1>2, <2>3, <2>6, FormatBy, TransformedBy DEF f
    <3> QED BY <1>2, <2>2, <2>6, <3>1 DEF v, d, k, f, Shift
  <2>7. CASE x.col = "timestamp" /\ x.part \in {"day", "hour"}
    <3>1. v >= PgEpoch
      BY <1>2, <2>7 DEF ByPeriod, Partitioned, v
    <3>2. CASE x.part = "day"
      <4>1. f = v \div 48 /\ d = TruncDiv(v, 48) /\ k = TruncDiv(v - PgEpoch, 48)
        BY <1>2, <2>3, <2>7, <3>2, FormatBy, TransformedBy DEF f
      <4>2. d = f /\ k = f - 10957 /\ f \in Int
        BY <2>2, <3>1, <4>1, EpochsAgree
      <4> QED BY <1>2, <2>7, <3>2, <4>2 DEF v, d, k, f, Shift
    <3>3. CASE x.part = "hour"
      <4>1. f = v \div 2 /\ d = TruncDiv(v, 2) /\ k = TruncDiv(v - PgEpoch, 2)
        BY <1>2, <2>3, <2>7, <3>3, FormatBy, TransformedBy DEF f
      <4>2. d = f /\ k = f - 262968 /\ f \in Int
        BY <2>2, <3>1, <4>1, EpochsAgree
      <4> QED BY <1>2, <2>7, <3>3, <4>2 DEF v, d, k, f, Shift
    <3> QED BY <2>7, <3>2, <3>3
  <2> QED BY <2>2, <2>4, <2>5, <2>6, <2>7 DEF ByPeriod
<1> QED BY <1>1, <1>2

LEMMA PeriodsAgree ==
  ASSUME NEW x, x.stmt.rows \in Seq(Rows), ByPeriod(x)
  PROVE  ValueFails(x) \/ KeysAgree(x)
<1> SUFFICES ASSUME ~ValueFails(x), NEW r \in Range(x.stmt.rows), NEW q \in Range(x.stmt.rows)
             PROVE  /\ computePartitionInfo(x, r) = IcebergTransform(x, r.val)
                    /\ computePartitionKey(x, r) = computePartitionKey(x, q) =>
                         IcebergTransform(x, r.val) = IcebergTransform(x, q.val)
  BY DEF KeysAgree
<1> DEFINE shift == Shift(x)
           fr == IcebergTransform(x, r.val)
           fq == IcebergTransform(x, q.val)
           kr == computePartitionKey(x, r)
           kq == computePartitionKey(x, q)
<1>1. /\ computePartitionInfo(x, r) = fr
      /\ ~Partitioned(x, r.val) => fr = Null /\ kr = Null
      /\ Partitioned(x, r.val) => fr \in Int /\ kr = fr - shift
      /\ ~Partitioned(x, q.val) => fq = Null /\ kq = Null
      /\ Partitioned(x, q.val) => fq \in Int /\ kq = fq - shift
  <2>1. /\ computePartitionInfo(x, r) = fr
        /\ ~Partitioned(x, r.val) => fr = Null /\ kr = Null
        /\ Partitioned(x, r.val) => fr \in Int /\ kr = fr - shift
    BY OneValue
  <2>2. /\ ~Partitioned(x, q.val) => fq = Null /\ kq = Null
        /\ Partitioned(x, q.val) => fq \in Int /\ kq = fq - shift
    BY OneValue
  <2> HIDE DEF shift, fr, fq, kr, kq
  <2> QED BY <2>1, <2>2
<1>2. shift \in Int /\ Null \notin Int
  BY BatchAssumption DEF Shift
<1> HIDE DEF shift, fr, fq, kr, kq
<1>3. kr = kq => fr = fq
  BY <1>1, <1>2
<1> QED BY <1>1, <1>3 DEF fr, fq, kr, kq

\* For tables without partitions and those by identity, day or hour, whatever
\* rows from 2000 on are inserted: the buffers count from 2000, the files from
\* 1970, and still no row lands in a file of another partition.
THEOREM PeriodsInPartition ==
  ASSUME \A x \in Cases : ByPeriod(x)
  PROVE  Spec => []FilesInPartition
<1>1. ASSUME WriteInv PROVE FilesInPartition
  <2>1. c \in Cases /\ c.stmt.rows \in Seq(Rows) /\ ByPeriod(c)
    BY <1>1, CaseIs DEF WriteInv
  <2>2. ValueFails(c) \/ KeysAgree(c)
    BY <2>1, PeriodsAgree
  <2> QED BY <1>1, <2>2, FilesBelong
<1> QED BY <1>1, WriteInvHolds, PTL

-----------------------------------------------------------------------------
(* The order of the data files.                                            *)

LEMMA FilesInOrder ==
  ASSUME WriteInv, OrderKept(c)
  PROVE  FilesSorted
<1> SUFFICES ASSUME NEW f \in files, NEW i \in DOMAIN f.rows, NEW j \in DOMAIN f.rows, i < j,
                    FormatBelow(c, f.rows[j], f.rows[i])
             PROVE  FALSE
  BY DEF FilesSorted
<1>1. f.rows \in Chunks(c, Given) /\ ~compareSortKeys(c, f.rows[j], f.rows[i])
  BY DEF WriteInv, IsFileOf
<1>2. f.rows \in Seq(Given)
  BY <1>1 DEF Chunks
<1>3. f.rows[i] \in Given /\ f.rows[j] \in Given
  BY <1>2
<1> QED BY <1>1, <1>3 DEF OrderKept, Given

\* Every data file is in the sort order of its table, however many rows, NULLs
\* and repeated keys it has, whenever the keys of the code tell apart what the
\* format orders: that is a matter of the types, transforms and NULL orders.
THEOREM FilesFollowOrder ==
  ASSUME \A x \in Cases : OrderKept(x)
  PROVE  Spec => []FilesSorted
<1>1. WriteInv => FilesSorted
  BY FilesInOrder DEF WriteInv
<1> QED BY <1>1, WriteInvHolds, PTL

\* Fields the code orders as the format does: no decimals, NULL first when
\* ascending and last when descending, no transform but the days or hours of
\* the last field.
PlainOrder(x) ==
  \A i \in DOMAIN x.order :
    /\ x.order[i].nulls = IF x.order[i].desc THEN "last" ELSE "first"
    /\ x.order[i].source = "val" =>
         /\ x.col # "numeric"
         /\ \/ x.order[i].transform = "identity"
            \/ /\ i = Len(x.order) /\ x.order[i].transform \in {"day", "hour"}
               /\ x.col \in {"date", "timestamp"}

\* Keys of one letter are in the order of their letters.
LEMMA LettersBelow ==
  ASSUME NEW v \in Int, NEW w \in Int, v < w
  PROVE  TextBelow(<<v>>, <<w>>) /\ TextBelow(<<>>, <<w>>)
<1>1. 1 \in DOMAIN <<w>> /\ 1..1 - 1 = {} /\ <<v>>[1] = v /\ <<w>>[1] = w /\ 1 \notin DOMAIN <<>>
  OBVIOUS
<1> QED BY <1>1 DEF TextBelow

\* The order of two different values of a field is that of their keys.
LEMMA CellsInOrder ==
  ASSUME NEW t, NEW source \in {"id", "val"}, source = "val" => t.col # "numeric",
         NEW v \in Int \cup {Null}, NEW w \in Int,
         v = Null \/ v < w
  PROVE  TextBelow(cellToSortValue(t, source, v), cellToSortValue(t, source, w))
<1>1. Null \notin Int
  BY BatchAssumption
<1> DEFINE z == IF source = "val" /\ t.col = "timestamp" THEN PgEpoch ELSE 0
<1>2. z \in Int
  BY DEF PgEpoch
<1>3. /\ cellToSortValue(t, source, w) = <<w - z>>
      /\ v # Null => cellToSortValue(t, source, v) = <<v - z>>
      /\ v = Null => cellToSortValue(t, source, v) = <<>>
  BY <1>1 DEF cellToSortValue
<1> HIDE DEF z
<1>4. CASE v = Null
  <2>1. TextBelow(<<>>, <<w - z>>)
    <3>1. w - z \in Int /\ w - z - 1 \in Int /\ w - z - 1 < w - z
      BY <1>2
    <3> QED BY <3>1, LettersBelow
  <2> QED BY <1>3, <1>4, <2>1
<1>5. CASE v # Null
  <2>1. v - z \in Int /\ w - z \in Int /\ v - z < w - z
    BY <1>2, <1>5
  <2> QED BY <1>3, <1>5, <2>1, LettersBelow
<1> QED BY <1>4, <1>5

\* What the value of a field in the order of the format says of the cell.
LEMMA SortValueBy ==
  ASSUME NEW t, NEW field \in SortFields, NEW r \in Rows, NEW q \in Rows,
         \/ field.source = "id" \/ field.transform = "identity"
         \/ field.transform \in {"day", "hour"} /\ t.col \in {"date", "timestamp"}
  PROVE  LET v == r[field.source]
             w == q[field.source]
             x == SortValue(t, field, r)
             y == SortValue(t, field, q)
         IN  /\ v \in Int \cup {Null} /\ w \in Int \cup {Null}
             /\ x = Null <=> v = Null
             /\ y = Null <=> w = Null
             /\ x # Null /\ y # Null /\ x < y => v < w
             /\ x # Null /\ y # Null /\ y < x => w < v
             /\ field.source = "id" \/ field.transform = "identity" => x = v /\ y = w
<1>1. Null \notin Int
  BY BatchAssumption
<1>2. r.id \in Int \cup {Null} /\ r.val \in Int \cup {Null} /\ q.id \in Int \cup {Null} /\ q.val \in Int \cup {Null}
  BY DEF Rows
<1>3. CASE field.source = "id"
  BY <1>2, <1>3 DEF SortValue
<1>4. CASE field.source = "val"
  <2> DEFINE s == [part |-> field.transform, col |-> t.col]
             T(u) == IcebergTransform(s, u)
  <2>1. SortValue(t, field, r) = T(r.val) /\ SortValue(t, field, q) = T(q.val)
    BY <1>4 DEF SortValue
  <2>2. s.part = field.transform /\ s.col = t.col /\ s.part # "none"
    BY DEF SortFields
  <2> HIDE DEF s
  <2>3. \A u : Partitioned(s, u) <=> u # Null
    BY <2>2 DEF Partitioned
  <2>4. /\ T(Null) = Null
        /\ \/ \A u \in Int : T(u) = u
           \/ field.transform # "identity" /\ \A u \in Int : T(u) = u \div 48
           \/ field.transform # "identity" /\ \A u \in Int : T(u) = u * 24
           \/ field.transform # "identity" /\ \A u \in Int : T(u) = u \div 2
    BY <1>1, <1>4, <2>2, <2>3, FormatBy
  <2>5. \A u, u2 \in Int : /\ u \div 48 < u2 \div 48 => u < u2
                           /\ u \div 2 < u2 \div 2 => u < u2
                           /\ u * 24 < u2 * 24 => u < u2
                           /\ u \div 48 \in Int /\ u \div 2 \in Int /\ u * 24 \in Int
    OBVIOUS
  <2>6. \A u \in Int : T(u) \in Int
    <3> HIDE DEF T
    <3> QED BY <2>4, <2>5
  <2>7. \A u, u2 \in Int : T(u) < T(u2) => u < u2
    <3> HIDE DEF T
    <3> QED BY <2>4, <2>5
  <2>8. field.transform = "identity" => \A u \in Int : T(u) = u
    <3> HIDE DEF T
    <3> QED BY <2>4
  <2> DEFINE v == r.val
             w == q.val
             x == SortValue(t, field, r)
             y == SortValue(t, field, q)
  <2>9. x = T(v) /\ y = T(w) /\ v \in Int \cup {Null} /\ w \in Int \cup {Null} /\ T(Null) = Null
    BY <1>2, <2>1, <2>4
  <2> HIDE DEF T, v, w, x, y
  <2>10. /\ x = Null <=> v = Null
         /\ y = Null <=> w = Null
         /\ x # Null /\ y # Null /\ x < y => v < w
         /\ x # Null /\ y # Null /\ y < x => w < v
         /\ field.transform = "identity" => x = v /\ y = w
    BY <1>1, <2>6, <2>7, <2>8, <2>9
  <2>11. r[field.source] = v /\ q[field.source] = w /\ field.source # "id"
    BY <1>4 DEF v, w
  <2> QED BY <2>9, <2>10, <2>11, Zenon DEF x, y
<1> QED BY <1>3, <1>4 DEF SortFields

LEMMA PlainKept ==
  ASSUME NEW x, x.order \in Seq(SortFields), x.stmt.rows \in Seq(Rows), PlainOrder(x)
  PROVE  OrderKept(x)
<1> SUFFICES ASSUME NEW r \in Range(x.stmt.rows), NEW q \in Range(x.stmt.rows), FormatBelow(x, r, q)
             PROVE  compareSortKeys(x, r, q)
  BY DEF OrderKept
<1> DEFINE n == Len(x.order)
<1>1. r \in Rows /\ q \in Rows
  BY OfRange
<1>2. n \in Nat /\ DOMAIN x.order = 1..n /\ \A i \in 1..n : x.order[i] \in SortFields
  OBVIOUS
<1>3. PICK i \in 1..n :
        /\ \A j \in 1..i - 1 : SortValue(x, x.order[j], r) = SortValue(x, x.order[j], q)
        /\ ValueBelow(x.order[i], SortValue(x, x.order[i], r), SortValue(x, x.order[i], q))
  BY <1>2, Zenon DEF FormatBelow
<1>4. ASSUME NEW j \in 1..n
      PROVE  /\ x.order[j].nulls = IF x.order[j].desc THEN "last" ELSE "first"
             /\ x.order[j].source = "val" =>
                  /\ x.col # "numeric"
                  /\ \/ x.order[j].transform = "identity"
                     \/ /\ j = n /\ x.order[j].transform \in {"day", "hour"}
                        /\ x.col \in {"date", "timestamp"}
  BY <1>2 DEF PlainOrder
<1> HIDE DEF n
<1>5. ASSUME NEW j \in 1..n PROVE x.order[j].source \in {"id", "val"} /\ x.order[j].desc \in BOOLEAN
  BY <1>2 DEF SortFields
<1>6. ASSUME NEW j \in 1..i - 1
      PROVE  sortKey(x, x.order[j], r) = sortKey(x, x.order[j], q)
  <2>1. j \in 1..n /\ j # n
    BY <1>2
  <2> DEFINE f == x.order[j]
  <2>2. f \in SortFields /\ (f.source = "id" \/ f.transform = "identity")
    BY <1>2, <1>4, <1>5, <2>1
  <2>3. SortValue(x, f, r) = SortValue(x, f, q)
    BY <1>3
  <2> HIDE DEF f
  <2>4. r[f.source] = q[f.source]
    BY <1>1, <2>2, <2>3, SortValueBy
  <2>5. sortKey(x, f, r) = sortKey(x, f, q)
    BY <2>4 DEF sortKey
  <2> QED BY <2>5 DEF f
<1> DEFINE f == x.order[i]
           v == r[f.source]
           w == q[f.source]
           y == SortValue(x, f, r)
           z == SortValue(x, f, q)
<1>7. /\ f \in SortFields /\ f.source \in {"id", "val"} /\ f.desc \in BOOLEAN
      /\ f.source = "val" => x.col # "numeric"
      /\ f.nulls = IF f.desc THEN "last" ELSE "first"
      /\ \/ f.source = "id" \/ f.transform = "identity"
         \/ f.transform \in {"day", "hour"} /\ x.col \in {"date", "timestamp"}
      /\ ValueBelow(f, y, z)
  BY <1>2, <1>3, <1>4, <1>5
<1> HIDE DEF f
<1>8. /\ v \in Int \cup {Null} /\ w \in Int \cup {Null}
      /\ y = Null <=> v = Null
      /\ z = Null <=> w = Null
      /\ y # Null /\ z # Null /\ y < z => v < w
      /\ y # Null /\ z # Null /\ z < y => w < v
  BY <1>1, <1>7, SortValueBy
<1> DEFINE kv == cellToSortValue(x, f.source, v)
           kw == cellToSortValue(x, f.source, w)
<1> HIDE DEF v, w, y, z
<1>9. /\ (v = Null \/ v < w) /\ w # Null => TextBelow(kv, kw)
      /\ (w = Null \/ w < v) /\ v # Null => TextBelow(kw, kv)
  BY <1>7, <1>8, CellsInOrder
<1> HIDE DEF kv, kw
<1>10. compareWithDirection(f, kv, kw)
  <2>1. CASE f.desc
    <3>1. y # Null /\ (z = Null \/ z < y)
      BY <1>7, <2>1 DEF ValueBelow
    <3>2. TextBelow(kw, kv)
      BY <1>8, <1>9, <3>1
    <3> QED BY <2>1, <3>2 DEF compareWithDirection
  <2>2. CASE ~f.desc
    <3>1. z # Null /\ (y = Null \/ y < z)
      BY <1>7, <2>2 DEF ValueBelow
    <3>2. TextBelow(kv, kw)
      BY <1>8, <1>9, <3>1
    <3> QED BY <2>2, <3>2 DEF compareWithDirection
  <2> QED BY <2>1, <2>2
<1>11. compareWithDirection(f, sortKey(x, f, r), sortKey(x, f, q))
  BY <1>10 DEF kv, kw, v, w, sortKey
<1>12. i \in DOMAIN x.order
  BY <1>2
<1> QED BY <1>6, <1>11, <1>12, Zenon DEF compareSortKeys, f
\* For tables ordered by any number of such fields, in any directions, every
\* data file is in the sort order of its table, whatever rows are inserted.
THEOREM PlainFilesSorted ==
  ASSUME \A x \in Cases : PlainOrder(x)
  PROVE  Spec => []FilesSorted
<1>1. ASSUME WriteInv PROVE FilesSorted
  <2>1. c \in Cases /\ c.stmt.rows \in Seq(Rows) /\ c.order \in Seq(SortFields) /\ PlainOrder(c)
    BY <1>1, CaseIs, OrderIs DEF WriteInv
  <2>2. OrderKept(c)
    BY <2>1, PlainKept
  <2> QED BY <1>1, <2>2, FilesInOrder
<1> QED BY <1>1, WriteInvHolds, PTL

-----------------------------------------------------------------------------
(* Rows that are kept and asked for once.                                  *)

Distinct(s) == \A i, j \in DOMAIN s : s[i] = s[j] => i = j

\* Sequences of different elements, none of which is in two of them.
Pile(ss) ==
  /\ \A k \in DOMAIN ss : Distinct(ss[k])
  /\ \A k, l \in DOMAIN ss : k # l => Range(ss[k]) \cap Range(ss[l]) = {}

Heap(ss) == UNION {Range(ss[k]) : k \in DOMAIN ss}

LEMMA AppendDistinct ==
  ASSUME NEW S, NEW s \in Seq(S), NEW r \in S
  PROVE  /\ Range(Append(s, r)) = Range(s) \cup {r}
         /\ Distinct(s) /\ r \notin Range(s) => Distinct(Append(s, r))
<1> DEFINE a == Append(s, r)
<1>1. /\ Len(s) \in Nat /\ DOMAIN s = 1..Len(s) /\ DOMAIN a = 1..(Len(s) + 1)
      /\ \A i \in 1..Len(s) : a[i] = s[i]
      /\ a[Len(s) + 1] = r
  OBVIOUS
<1> HIDE DEF a
<1>2. ASSUME NEW i \in DOMAIN a
      PROVE  (i \in DOMAIN s /\ a[i] = s[i]) \/ (i = Len(s) + 1 /\ a[i] = r)
  <2>1. i \in 1..Len(s) \/ i = Len(s) + 1
    BY <1>1
  <2> QED BY <1>1, <2>1
<1>3. \A i \in DOMAIN s : i \in DOMAIN a /\ a[i] = s[i]
  BY <1>1
<1>4. Len(s) + 1 \in DOMAIN a /\ a[Len(s) + 1] = r
  BY <1>1
<1>5. Range(a) = Range(s) \cup {r}
  BY <1>2, <1>3, <1>4 DEF Range
<1>6. ASSUME Distinct(s), r \notin Range(s), NEW i \in DOMAIN a, NEW j \in DOMAIN a, a[i] = a[j]
      PROVE  i = j
  <2>1. \A k \in DOMAIN s : s[k] # r
    BY <1>6 DEF Range
  <2> QED BY <1>2, <1>6, <2>1 DEF Distinct
<1> QED BY <1>5, <1>6 DEF a, Distinct

LEMMA ConcatDistinct ==
  ASSUME NEW S, NEW s \in Seq(S), NEW u \in Seq(S)
  PROVE  /\ Range(s \o u) = Range(s) \cup Range(u)
         /\ Distinct(s) /\ Distinct(u) /\ Range(s) \cap Range(u) = {} => Distinct(s \o u)
<1> DEFINE a == s \o u
<1>1. /\ Len(s) \in Nat /\ Len(u) \in Nat /\ DOMAIN s = 1..Len(s) /\ DOMAIN u = 1..Len(u)
      /\ DOMAIN a = 1..(Len(s) + Len(u))
      /\ \A i \in 1..Len(s) : a[i] = s[i]
      /\ \A i \in (Len(s) + 1)..(Len(s) + Len(u)) : a[i] = u[i - Len(s)]
  OBVIOUS
<1> HIDE DEF a
<1>2. ASSUME NEW i \in DOMAIN a
      PROVE  (i \in DOMAIN s /\ a[i] = s[i]) \/ (i - Len(s) \in DOMAIN u /\ a[i] = u[i - Len(s)])
  <2>1. i \in 1..Len(s) \/ i \in (Len(s) + 1)..(Len(s) + Len(u))
    BY <1>1
  <2>2. i \in (Len(s) + 1)..(Len(s) + Len(u)) => i - Len(s) \in 1..Len(u)
    BY <1>1
  <2> QED BY <1>1, <2>1, <2>2
<1>3. \A i \in DOMAIN s : i \in DOMAIN a /\ a[i] = s[i]
  BY <1>1
<1>4. \A i \in DOMAIN u : i + Len(s) \in DOMAIN a /\ a[i + Len(s)] = u[i]
  BY <1>1
<1>5. Range(a) = Range(s) \cup Range(u)
  <2>1. Range(a) \subseteq Range(s) \cup Range(u)
    BY <1>2 DEF Range
  <2>2. Range(s) \subseteq Range(a)
    BY <1>3 DEF Range
  <2>3. Range(u) \subseteq Range(a)
    BY <1>4 DEF Range
  <2> QED BY <2>1, <2>2, <2>3
<1>6. ASSUME Distinct(s), Distinct(u), Range(s) \cap Range(u) = {},
             NEW i \in DOMAIN a, NEW j \in DOMAIN a, a[i] = a[j]
      PROVE  i = j
  <2>1. \A k \in DOMAIN s, l \in DOMAIN u : s[k] # u[l]
    BY <1>6 DEF Range
  <2>2. i \in Int /\ j \in Int
    BY <1>1
  <2>3. CASE i \in DOMAIN s /\ a[i] = s[i] /\ j \in DOMAIN s /\ a[j] = s[j]
    BY <1>6, <2>3 DEF Distinct
  <2>4. CASE /\ i - Len(s) \in DOMAIN u /\ a[i] = u[i - Len(s)]
             /\ j - Len(s) \in DOMAIN u /\ a[j] = u[j - Len(s)]
    <3>1. i - Len(s) = j - Len(s)
      BY <1>6, <2>4 DEF Distinct
    <3> QED BY <1>1, <2>2, <3>1
  <2> QED BY <1>2, <1>6, <2>1, <2>3, <2>4
<1> QED BY <1>5, <1>6 DEF a, Distinct

LEMMA SubSeqDistinct ==
  ASSUME NEW S, NEW s \in Seq(S), NEW a \in Nat \ {0}, NEW b \in Nat, b <= Len(s)
  PROVE  /\ SubSeq(s, a, b) \in Seq(S)
         /\ Range(SubSeq(s, a, b)) = {s[n] : n \in a..b}
         /\ Distinct(s) => Distinct(SubSeq(s, a, b))
<1> DEFINE u == SubSeq(s, a, b)
<1>1. CASE a <= b
  <2>1. /\ DOMAIN s = 1..Len(s) /\ Len(s) \in Nat /\ u \in Seq(S) /\ DOMAIN u = 1..(b - a + 1)
        /\ \A i \in 1..(b - a + 1) : u[i] = s[a + i - 1]
    BY <1>1
  <2> HIDE DEF u
  <2>2. \A i \in DOMAIN u : a + i - 1 \in a..b /\ a + i - 1 \in DOMAIN s /\ u[i] = s[a + i - 1] /\ i \in Int
    BY <2>1
  <2>3. \A n \in a..b : n - a + 1 \in DOMAIN u /\ u[n - a + 1] = s[n]
    <3> SUFFICES ASSUME NEW n \in a..b, NEW i, i = n - a + 1 PROVE i \in DOMAIN u /\ u[i] = s[n]
      OBVIOUS
    <3>1. i \in 1..(b - a + 1) /\ a + i - 1 = n
      OBVIOUS
    <3>2. u[i] = s[a + i - 1]
      BY <2>1, <3>1
    <3> QED BY <2>1, <3>1, <3>2
  <2>4. Range(u) = {s[n] : n \in a..b}
    BY <2>2, <2>3 DEF Range
  <2>5. ASSUME Distinct(s), NEW i \in DOMAIN u, NEW j \in DOMAIN u, u[i] = u[j] PROVE i = j
    <3>1. a + i - 1 = a + j - 1
      BY <2>2, <2>5 DEF Distinct
    <3> QED BY <2>2, <3>1
  <2> QED BY <2>1, <2>4, <2>5 DEF u, Distinct
<1>2. CASE ~(a <= b)
  <2>1. u = <<>> /\ a..b = {}
    BY <1>2
  <2> HIDE DEF u
  <2>2. <<>> \in Seq(S) /\ DOMAIN u = {}
    BY <2>1
  <2>3. Range(u) = {} /\ Distinct(u)
    BY <2>2 DEF Range, Distinct
  <2> QED BY <2>1, <2>2, <2>3 DEF u
<1> QED BY <1>1, <1>2

LEMMA OnlyDistinct ==
  ASSUME NEW S, NEW s \in Seq(S), NEW T
  PROVE  /\ Only(s, T) \in Seq(S)
         /\ Range(Only(s, T)) = Range(s) \cap T
         /\ Distinct(s) => Distinct(Only(s, T))
<1>1. PICK ch : Only(s, T) = ch[Len(s)] /\ Selects(s, T, ch, Len(s))
  BY OnlyIs
<1>2. Len(s) \in Nat /\ DOMAIN s = 1..Len(s)
  OBVIOUS
<1> DEFINE first(j) == {s[i] : i \in 1..j}
           Has == {j \in Nat : j <= Len(s) =>
                     /\ ch[j] \in Seq(S) /\ Range(ch[j]) = first(j) \cap T
                     /\ Distinct(s) => Distinct(ch[j])}
<1>3. 0 \in Has
  <2>1. ch[0] = <<>>
    BY <1>1 DEF Selects
  <2>2. <<>> \in Seq(S) /\ DOMAIN <<>> = {} /\ first(0) = {}
    OBVIOUS
  <2>3. Range(ch[0]) = {} /\ Distinct(ch[0])
    BY <2>1, <2>2 DEF Range, Distinct
  <2> HIDE DEF first
  <2> QED BY <2>1, <2>2, <2>3
<1>4. ASSUME NEW j \in Nat, j \in Has PROVE j + 1 \in Has
  <2> SUFFICES ASSUME NEW m, m = j + 1, m <= Len(s)
               PROVE  /\ ch[m] \in Seq(S) /\ Range(ch[m]) = first(m) \cap T
                      /\ Distinct(s) => Distinct(ch[m])
    OBVIOUS
  <2>1. m \in 1..Len(s) /\ m - 1 = j /\ j <= Len(s) /\ 1..m = (1..j) \cup {m} /\ m \notin 1..j
        /\ s[m] \in S
    BY <1>2
  <2>2. ch[m] = IF s[m] \in T THEN Append(ch[j], s[m]) ELSE ch[j]
    <3>1. ch[m] = IF s[m] \in T THEN Append(ch[m - 1], s[m]) ELSE ch[m - 1]
      BY <1>1, <2>1, Zenon DEF Selects
    <3> QED BY <2>1, <3>1, Zenon
  <2>3. /\ ch[j] \in Seq(S) /\ Range(ch[j]) = first(j) \cap T
        /\ Distinct(s) => Distinct(ch[j])
    BY <1>4, <2>1
  <2>4. first(m) = first(j) \cup {s[m]}
    BY <2>1
  <2>5. Distinct(s) => s[m] \notin first(j)
    <3> SUFFICES ASSUME Distinct(s), NEW i \in 1..j, s[i] = s[m] PROVE FALSE
      OBVIOUS
    <3>1. i \in DOMAIN s /\ m \in DOMAIN s
      BY <1>2, <2>1
    <3> QED BY <2>1, <3>1 DEF Distinct
  <2> HIDE DEF first, Has
  <2>6. CASE s[m] \in T
    <3>1. ch[m] = Append(ch[j], s[m]) /\ Append(ch[j], s[m]) \in Seq(S)
      BY <2>1, <2>2, <2>3, <2>6
    <3>2. Range(ch[m]) = Range(ch[j]) \cup {s[m]}
      BY <2>1, <2>3, <3>1, AppendDistinct
    <3>3. Distinct(s) => Distinct(ch[m])
      BY <2>1, <2>3, <2>5, <3>1, AppendDistinct
    <3> QED BY <2>3, <2>4, <2>6, <3>1, <3>2, <3>3
  <2>7. CASE s[m] \notin T
    BY <2>2, <2>3, <2>4, <2>7
  <2> QED BY <2>6, <2>7
<1>5. Nat \subseteq Has
  <2> HIDE DEF Has
  <2> QED BY <1>3, <1>4, Inductive
<1>6. /\ ch[Len(s)] \in Seq(S) /\ Range(ch[Len(s)]) = first(Len(s)) \cap T
      /\ Distinct(s) => Distinct(ch[Len(s)])
  <2>1. Len(s) \in Nat /\ Len(s) <= Len(s)
    BY <1>2
  <2>2. Len(s) \in Has
    BY <1>5, <2>1
  <2> QED BY <2>1, <2>2
<1>7. first(Len(s)) = Range(s)
  BY <1>2 DEF Range
<1> HIDE DEF first
<1> QED BY <1>1, <1>6, <1>7

LEMMA ConcatPile ==
  ASSUME NEW S, NEW s \in Seq(Seq(S)), NEW u \in Seq(Seq(S))
  PROVE  /\ Heap(s \o u) = Heap(s) \cup Heap(u)
         /\ Pile(s) /\ Pile(u) /\ Heap(s) \cap Heap(u) = {} => Pile(s \o u)
<1> DEFINE a == s \o u
<1>1. /\ Len(s) \in Nat /\ Len(u) \in Nat /\ DOMAIN s = 1..Len(s) /\ DOMAIN u = 1..Len(u)
      /\ DOMAIN a = 1..(Len(s) + Len(u))
      /\ \A i \in 1..Len(s) : a[i] = s[i]
      /\ \A i \in (Len(s) + 1)..(Len(s) + Len(u)) : a[i] = u[i - Len(s)]
  <2> DEFINE X == Seq(S)
  <2> HIDE DEF X
  <2>1. s \in Seq(X) /\ u \in Seq(X)
    BY DEF X
  <2> QED BY <2>1
<1> HIDE DEF a
<1>2. ASSUME NEW i \in DOMAIN a
      PROVE  (i \in DOMAIN s /\ a[i] = s[i]) \/ (i - Len(s) \in DOMAIN u /\ a[i] = u[i - Len(s)])
  <2>1. i \in 1..Len(s) \/ i \in (Len(s) + 1)..(Len(s) + Len(u))
    BY <1>1
  <2>2. i \in (Len(s) + 1)..(Len(s) + Len(u)) => i - Len(s) \in 1..Len(u)
    BY <1>1
  <2> QED BY <1>1, <2>1, <2>2
<1>3. \A i \in DOMAIN s : i \in DOMAIN a /\ a[i] = s[i]
  BY <1>1
<1>4. \A i \in DOMAIN u : i + Len(s) \in DOMAIN a /\ a[i + Len(s)] = u[i]
  <2> SUFFICES ASSUME NEW i \in DOMAIN u, NEW n, n = i + Len(s) PROVE n \in DOMAIN a /\ a[n] = u[i]
    OBVIOUS
  <2>1. i \in 1..Len(u) /\ Len(s) \in Nat /\ Len(u) \in Nat
    BY <1>1
  <2>2. n \in (Len(s) + 1)..(Len(s) + Len(u)) /\ n \in 1..(Len(s) + Len(u)) /\ n - Len(s) = i
    BY <2>1
  <2> QED BY <1>1, <2>2
<1>5. Heap(a) = Heap(s) \cup Heap(u)
  <2>1. Heap(a) \subseteq Heap(s) \cup Heap(u)
    BY <1>2 DEF Heap
  <2>2. Heap(s) \subseteq Heap(a)
    BY <1>3 DEF Heap
  <2>3. Heap(u) \subseteq Heap(a)
    BY <1>4 DEF Heap
  <2> QED BY <2>1, <2>2, <2>3
<1>6. ASSUME Pile(s), Pile(u), Heap(s) \cap Heap(u) = {} PROVE Pile(a)
  <2>1. ASSUME NEW k \in DOMAIN a PROVE Distinct(a[k])
    BY <1>2, <1>6 DEF Pile
  <2>2. ASSUME NEW k \in DOMAIN a, NEW l \in DOMAIN a, k # l PROVE Range(a[k]) \cap Range(a[l]) = {}
    <3>1. k \in Int /\ l \in Int
      BY <1>1
    <3>2. \A i \in DOMAIN s, j \in DOMAIN u : Range(s[i]) \cap Range(u[j]) = {}
      BY <1>6 DEF Heap
    <3>3. CASE k \in DOMAIN s /\ a[k] = s[k] /\ l \in DOMAIN s /\ a[l] = s[l]
      BY <1>6, <2>2, <3>3 DEF Pile
    <3>4. CASE /\ k - Len(s) \in DOMAIN u /\ a[k] = u[k - Len(s)]
               /\ l - Len(s) \in DOMAIN u /\ a[l] = u[l - Len(s)]
      <4>1. k - Len(s) # l - Len(s)
        BY <1>1, <2>2, <3>1
      <4> QED BY <1>6, <3>4, <4>1 DEF Pile
    <3> QED BY <1>2, <3>2, <3>3, <3>4
  <2> QED BY <2>1, <2>2 DEF Pile
<1> QED BY <1>5, <1>6 DEF a

\* What flattening makes of a pile.
LEMMA FlattenDistinct ==
  ASSUME NEW S, NEW ss \in Seq(Seq(S))
  PROVE  /\ FlattenSeq(ss) \in Seq(S)
         /\ Range(FlattenSeq(ss)) = Heap(ss)
         /\ Pile(ss) => Distinct(FlattenSeq(ss))
<1> DEFINE first(j) == UNION {Range(ss[k]) : k \in 1..j}
           G == [j \in 0..Len(ss) |-> {s \in Seq(S) : Range(s) = first(j) /\ (Pile(ss) => Distinct(s))}]
<1>1. Len(ss) \in Nat /\ DOMAIN ss = 1..Len(ss) /\ \A i \in DOMAIN ss : ss[i] \in Seq(S)
  <2> DEFINE X == Seq(S)
  <2> HIDE DEF X
  <2>1. ss \in Seq(X)
    BY DEF X
  <2>2. Len(ss) \in Nat /\ DOMAIN ss = 1..Len(ss) /\ \A i \in DOMAIN ss : ss[i] \in X
    BY <2>1
  <2> QED BY <2>2 DEF X
<1>2. \A j \in 0..Len(ss), s \in Seq(S) :
        s \in G[j] <=> Range(s) = first(j) /\ (Pile(ss) => Distinct(s))
  OBVIOUS
<1>3. 0 \in 0..Len(ss) /\ <<>> \in Seq(S) /\ DOMAIN <<>> = {} /\ first(0) = {}
  BY <1>1
<1>4. <<>> \in G[0]
  <2>1. Range(<<>>) = {} /\ Distinct(<<>>)
    BY <1>3 DEF Range, Distinct
  <2> HIDE DEF first, G
  <2> QED BY <1>2, <1>3, <2>1
<1>5. Len(ss) # 0 => ss[1] \in G[1]
  <2> SUFFICES ASSUME Len(ss) # 0 PROVE ss[1] \in G[1]
    OBVIOUS
  <2>1. 1 \in DOMAIN ss /\ 1 \in 0..Len(ss) /\ first(1) = Range(ss[1])
    BY <1>1
  <2>2. Pile(ss) => Distinct(ss[1])
    BY <2>1 DEF Pile
  <2> HIDE DEF first, G
  <2> QED BY <1>1, <1>2, <2>1, <2>2
<1>6. ASSUME NEW i \in 2..Len(ss), NEW s \in Seq(S), s \in G[i - 1] PROVE s \o ss[i] \in G[i]
  <2>1. /\ i - 1 \in 0..Len(ss) /\ i \in 0..Len(ss) /\ i \in DOMAIN ss
        /\ 1..i = 1..(i - 1) \cup {i} /\ 1..(i - 1) \subseteq DOMAIN ss /\ i \notin 1..(i - 1)
    BY <1>1
  <2>2. first(i) = first(i - 1) \cup Range(ss[i])
    BY <2>1
  <2>3. Pile(ss) => Distinct(ss[i]) /\ first(i - 1) \cap Range(ss[i]) = {}
    <3> SUFFICES ASSUME Pile(ss) PROVE Distinct(ss[i]) /\ first(i - 1) \cap Range(ss[i]) = {}
      OBVIOUS
    <3>1. \A k \in 1..(i - 1) : Range(ss[k]) \cap Range(ss[i]) = {}
      BY <2>1 DEF Pile
    <3> QED BY <2>1, <3>1 DEF Pile
  <2> HIDE DEF first, G
  <2>4. ss[i] \in Seq(S) /\ s \o ss[i] \in Seq(S)
    BY <1>1, <2>1
  <2>5. Range(s) = first(i - 1) /\ (Pile(ss) => Distinct(s))
    BY <1>2, <1>6, <2>1
  <2>6. Range(s \o ss[i]) = first(i) /\ (Pile(ss) => Distinct(s \o ss[i]))
    BY <2>2, <2>3, <2>4, <2>5, ConcatDistinct
  <2> QED BY <1>2, <2>1, <2>4, <2>6
<1> HIDE DEF G
<1>7. FlattenSeq(ss) \in Seq(S) /\ FlattenSeq(ss) \in G[Len(ss)]
  BY <1>4, <1>5, <1>6, FlattenReaches
<1>8. Range(FlattenSeq(ss)) = first(Len(ss)) /\ (Pile(ss) => Distinct(FlattenSeq(ss)))
  BY <1>1, <1>2, <1>7
<1>9. first(Len(ss)) = Heap(ss)
  BY <1>1 DEF Heap
<1> QED BY <1>7, <1>8, <1>9

\* Piles of different elements, flattened, are a pile.
LEMMA FlattenPile ==
  ASSUME NEW S, NEW ss \in Seq(Seq(Seq(S)))
  PROVE  /\ FlattenSeq(ss) \in Seq(Seq(S))
         /\ Heap(FlattenSeq(ss)) = UNION {Heap(ss[k]) : k \in DOMAIN ss}
         /\ /\ \A k \in DOMAIN ss : Pile(ss[k])
            /\ \A k, l \in DOMAIN ss : k # l => Heap(ss[k]) \cap Heap(ss[l]) = {}
            => Pile(FlattenSeq(ss))
<1> DEFINE X == Seq(S)
           P == /\ \A k \in DOMAIN ss : Pile(ss[k])
                /\ \A k, l \in DOMAIN ss : k # l => Heap(ss[k]) \cap Heap(ss[l]) = {}
           first(j) == UNION {Heap(ss[k]) : k \in 1..j}
           G == [j \in 0..Len(ss) |-> {s \in Seq(X) : Heap(s) = first(j) /\ (P => Pile(s))}]
<1>1. Len(ss) \in Nat /\ DOMAIN ss = 1..Len(ss) /\ \A i \in DOMAIN ss : ss[i] \in Seq(X)
  <2> DEFINE Y == Seq(X)
  <2> HIDE DEF Y
  <2>1. ss \in Seq(Y)
    BY DEF Y
  <2>2. Len(ss) \in Nat /\ DOMAIN ss = 1..Len(ss) /\ \A i \in DOMAIN ss : ss[i] \in Y
    BY <2>1
  <2> QED BY <2>2 DEF Y
<1>0. ss \in Seq(Seq(X))
  OBVIOUS
<1>2. \A j \in 0..Len(ss), s \in Seq(X) : s \in G[j] <=> Heap(s) = first(j) /\ (P => Pile(s))
  <2> HIDE DEF P, first, X
  <2> QED OBVIOUS
<1>3. 0 \in 0..Len(ss) /\ <<>> \in Seq(X) /\ DOMAIN <<>> = {} /\ first(0) = {}
  <2> HIDE DEF X
  <2> QED BY <1>1
<1>4. <<>> \in G[0]
  <2>1. Heap(<<>>) = {} /\ Pile(<<>>)
    BY <1>3 DEF Heap, Pile
  <2> HIDE DEF first, G, P, X
  <2> QED BY <1>2, <1>3, <2>1
<1>5. Len(ss) # 0 => ss[1] \in G[1]
  <2> SUFFICES ASSUME Len(ss) # 0 PROVE ss[1] \in G[1]
    OBVIOUS
  <2>1. 1 \in DOMAIN ss /\ 1 \in 0..Len(ss) /\ first(1) = Heap(ss[1])
    BY <1>1
  <2>2. P => Pile(ss[1])
    BY <2>1
  <2> HIDE DEF first, G, P, X
  <2> QED BY <1>1, <1>2, <2>1, <2>2
<1>6. ASSUME NEW i \in 2..Len(ss), NEW s \in Seq(X), s \in G[i - 1] PROVE s \o ss[i] \in G[i]
  <2>1. /\ i - 1 \in 0..Len(ss) /\ i \in 0..Len(ss) /\ i \in DOMAIN ss
        /\ 1..i = 1..(i - 1) \cup {i} /\ 1..(i - 1) \subseteq DOMAIN ss /\ i \notin 1..(i - 1)
    BY <1>1
  <2>2. first(i) = first(i - 1) \cup Heap(ss[i])
    BY <2>1
  <2>3. P => Pile(ss[i]) /\ first(i - 1) \cap Heap(ss[i]) = {}
    <3> SUFFICES ASSUME P PROVE Pile(ss[i]) /\ first(i - 1) \cap Heap(ss[i]) = {}
      OBVIOUS
    <3>1. \A k \in 1..(i - 1) : Heap(ss[k]) \cap Heap(ss[i]) = {}
      BY <2>1
    <3> QED BY <2>1, <3>1
  <2>4. ss[i] \in Seq(X)
    BY <1>1, <2>1
  <2>5. Heap(s) = first(i - 1) /\ (P => Pile(s))
    <3> HIDE DEF first, G, P, X
    <3> QED BY <1>2, <1>6, <2>1
  <2>6. /\ Heap(s \o ss[i]) = Heap(s) \cup Heap(ss[i])
        /\ Pile(s) /\ Pile(ss[i]) /\ Heap(s) \cap Heap(ss[i]) = {} => Pile(s \o ss[i])
    <3> HIDE DEF first, G, P
    <3> QED BY <2>4, ConcatPile
  <2> HIDE DEF first, G, P, X
  <2>7. s \o ss[i] \in Seq(X)
    BY <2>4
  <2> QED BY <1>2, <2>1, <2>2, <2>3, <2>5, <2>6, <2>7
<1> HIDE DEF G
<1>7. FlattenSeq(ss) \in Seq(X) /\ FlattenSeq(ss) \in G[Len(ss)]
  <2> HIDE DEF X
  <2> QED BY <1>0, <1>4, <1>5, <1>6, FlattenReaches
<1>8. Heap(FlattenSeq(ss)) = first(Len(ss)) /\ (P => Pile(FlattenSeq(ss)))
  <2> HIDE DEF X, first, P
  <2> QED BY <1>1, <1>2, <1>7
<1>9. first(Len(ss)) = UNION {Heap(ss[k]) : k \in DOMAIN ss}
  BY <1>1
<1> HIDE DEF first
<1> QED BY <1>7, <1>8, <1>9

\* The multiples of p cut the naturals up to n * p into n pieces.
LEMMA Pieces ==
  ASSUME NEW p \in Nat \ {0}, NEW n \in Nat
  PROVE  /\ \A i \in 1..n : (i - 1) * p + 1 \in Nat \ {0} /\ i * p \in Nat /\ i * p <= n * p
         /\ \A i, j \in 1..n : i < j => i * p <= (j - 1) * p
         /\ \A m \in 1..(n * p) : \E i \in 1..n : m \in ((i - 1) * p + 1)..(i * p)
<1>1. \A i \in 1..n : (i - 1) * p + 1 \in Nat \ {0} /\ i * p \in Nat /\ i * p <= n * p
  BY SMT
<1>2. \A i, j \in 1..n : i < j => i * p <= (j - 1) * p
  BY SMT
<1>3. ASSUME NEW m \in 1..(n * p) PROVE \E i \in 1..n : m \in ((i - 1) * p + 1)..(i * p)
  <2> DEFINE q == (m - 1) \div p
  <2>1. m \in Nat \ {0} /\ m - 1 \in Nat /\ m <= n * p /\ n * p \in Nat
    BY SMT
  <2>2. q \in Nat /\ q * p <= m - 1 /\ m - 1 - q * p < p
    BY <2>1, Quotient
  <2> HIDE DEF q
  <2>3. q < n
    <3> SUFFICES ASSUME n <= q PROVE FALSE
      BY <2>2
    <3>1. n * p <= q * p
      BY <2>2, SMT
    <3> QED BY <2>1, <2>2, <3>1
  <2>4. (q + 1) * p = q * p + p
    BY <2>2, SMT
  <2>5. q + 1 \in 1..n /\ (q + 1) - 1 = q
    BY <2>2, <2>3
  <2>6. m \in (q * p + 1)..((q + 1) * p)
    BY <2>1, <2>2, <2>4
  <2>7. PICK i \in 1..n : i = q + 1 /\ i - 1 = q
    BY <2>5
  <2> QED BY <2>6, <2>7
<1> QED BY <1>1, <1>2, <1>3

\* What is taken of a buffer and what is left are its rows, each once.
LEMMA TakenOnce ==
  ASSUME NEW S, NEW buf \in Seq(S), Distinct(buf), NEW flush \in BOOLEAN
  PROVE  /\ Taken(buf, flush) \in Seq(Seq(S)) /\ Pile(Taken(buf, flush))
         /\ Left(buf, flush) \in Seq(S) /\ Distinct(Left(buf, flush))
         /\ Heap(Taken(buf, flush)) \cup Range(Left(buf, flush)) = Range(buf)
         /\ Heap(Taken(buf, flush)) \cap Range(Left(buf, flush)) = {}
<1>1. CASE flush
  <2> DEFINE u == <<buf>>
  <2>1. Taken(buf, flush) = u /\ Left(buf, flush) = <<>>
    BY <1>1 DEF Taken, Left
  <2>2. u \in Seq(Seq(S)) /\ DOMAIN u = {1} /\ u[1] = buf /\ <<>> \in Seq(S) /\ DOMAIN <<>> = {}
    OBVIOUS
  <2> HIDE DEF u
  <2>3. Pile(u) /\ Heap(u) = Range(buf)
    BY <2>2 DEF Pile, Heap
  <2>4. Distinct(<<>>) /\ Range(<<>>) = {}
    BY <2>2 DEF Distinct, Range
  <2> QED BY <2>1, <2>2, <2>3, <2>4
<1>2. CASE ~flush
  <2> DEFINE n == Len(buf) \div PartitionBufferSize
             p == PartitionBufferSize
             end == n * p
             low(i) == (i - 1) * p + 1
             high(i) == i * p
             part(i) == SubSeq(buf, low(i), high(i))
             u == [i \in 1..n |-> part(i)]
             rest == SubSeq(buf, end + 1, Len(buf))
             of(a, b) == {buf[m] : m \in a..b}
  <2>1. Len(buf) \in Nat /\ p \in Nat \ {0} /\ DOMAIN buf = 1..Len(buf)
    BY PartitionAssumption
  <2>2. n \in Nat /\ end <= Len(buf)
    BY <2>1, Quotient
  <2>3. Taken(buf, flush) = u /\ Left(buf, flush) = rest
    BY <1>2 DEF Taken, Left
  <2> HIDE DEF n, p
  <2>4. /\ \A i \in 1..n : low(i) \in Nat \ {0} /\ high(i) \in Nat /\ high(i) <= end
        /\ \A i, j \in 1..n : i < j => high(i) < low(j)
        /\ \A m \in 1..end : \E i \in 1..n : m \in low(i)..high(i)
    <3>1. /\ \A i \in 1..n : (i - 1) * p + 1 \in Nat \ {0} /\ i * p \in Nat /\ i * p <= n * p
          /\ \A i, j \in 1..n : i < j => i * p <= (j - 1) * p
          /\ \A m \in 1..(n * p) : \E i \in 1..n : m \in ((i - 1) * p + 1)..(i * p)
      BY <2>1, <2>2, Pieces
    <3>2. ASSUME NEW i \in 1..n, NEW j \in 1..n, i < j PROVE high(i) < low(j)
      <4>1. (j - 1) * p \in Int /\ i * p \in Int
        BY <2>1, <2>2, SMT
      <4>2. i * p <= (j - 1) * p
        BY <3>1, <3>2
      <4> QED BY <4>1, <4>2
    <3> QED BY <3>1, <3>2
  <2>5. end \in Nat
    BY <2>1, <2>2, SMT
  <2> HIDE DEF end, low, high
  <2>6. ASSUME NEW i \in 1..n
        PROVE  part(i) \in Seq(S) /\ Distinct(part(i)) /\ Range(part(i)) = of(low(i), high(i))
    <3>1. low(i) \in Nat \ {0} /\ high(i) \in Nat /\ high(i) <= Len(buf)
      BY <2>1, <2>2, <2>4, <2>5
    <3> QED BY <3>1, SubSeqDistinct
  <2>7. rest \in Seq(S) /\ Distinct(rest) /\ Range(rest) = of(end + 1, Len(buf))
    <3>1. end + 1 \in Nat \ {0} /\ Len(buf) \in Nat /\ Len(buf) <= Len(buf)
      BY <2>1, <2>5
    <3> QED BY <3>1, SubSeqDistinct
  <2>8. DOMAIN u = 1..n /\ \A i \in 1..n : u[i] = part(i)
    OBVIOUS
  <2>9. u \in Seq(Seq(S))
    <3> HIDE DEF part
    <3> QED BY <2>2, <2>6
  \* Indices that are not in one piece are of different rows.
  <2>10. ASSUME NEW a \in Nat \ {0}, NEW b \in Nat, NEW d \in Nat \ {0}, NEW e \in Nat,
                b < d, e <= Len(buf)
         PROVE  of(a, b) \cap of(d, e) = {}
    <3> SUFFICES ASSUME NEW k \in a..b, NEW l \in d..e, buf[k] = buf[l] PROVE FALSE
      OBVIOUS
    <3>1. k \in DOMAIN buf /\ l \in DOMAIN buf /\ k # l
      BY <2>1, <2>10
    <3> QED BY <3>1 DEF Distinct
  <2> HIDE DEF of
  <2>11. ASSUME NEW i \in 1..n, NEW j \in 1..n, i < j PROVE Range(part(i)) \cap Range(part(j)) = {}
    <3>1. /\ low(i) \in Nat \ {0} /\ high(i) \in Nat /\ low(j) \in Nat \ {0} /\ high(j) \in Nat
          /\ high(i) < low(j) /\ high(j) <= Len(buf)
      BY <2>1, <2>2, <2>4, <2>5, <2>11
    <3> QED BY <2>6, <2>10, <3>1
  <2>12. Pile(u)
    <3> HIDE DEF part, u
    <3>1. ASSUME NEW i \in 1..n, NEW j \in 1..n, i # j PROVE Range(part(i)) \cap Range(part(j)) = {}
      <4>1. i < j \/ j < i
        BY <2>2, <3>1
      <4> QED BY <2>11, <4>1
    <3> QED BY <2>6, <2>8, <3>1 DEF Pile
  <2>13. Heap(u) = of(1, end)
    <3>1. Heap(u) = UNION {of(low(i), high(i)) : i \in 1..n}
      <4> HIDE DEF part, u, of
      <4>1. Heap(u) = UNION {Range(u[i]) : i \in 1..n}
        BY <2>8 DEF Heap
      <4>2. \A i \in 1..n : Range(u[i]) = of(low(i), high(i))
        BY <2>6, <2>8
      <4> QED BY <4>1, <4>2
    <3>2. \A i \in 1..n : \A m \in low(i)..high(i) : m \in 1..end
      BY <2>4, <2>5
    <3> HIDE DEF u
    <3> QED BY <2>4, <3>1, <3>2 DEF of
  <2>14. of(1, end) \cap of(end + 1, Len(buf)) = {}
    <3>1. 1 \in Nat \ {0} /\ end + 1 \in Nat \ {0} /\ end < end + 1 /\ Len(buf) <= Len(buf)
      BY <2>1, <2>5
    <3> QED BY <2>1, <2>5, <2>10, <3>1
  <2>15. of(1, end) \cup of(end + 1, Len(buf)) = Range(buf)
    <3>1. 1..Len(buf) = (1..end) \cup ((end + 1)..Len(buf))
      BY <2>1, <2>2, <2>5
    <3>2. Range(buf) = of(1, Len(buf))
      BY <2>1 DEF Range, of
    <3> QED BY <3>1, <3>2 DEF of
  <2> HIDE DEF u, rest
  <2> QED BY <2>3, <2>7, <2>9, <2>12, <2>13, <2>14, <2>15
<1> QED BY <1>1, <1>2

\* SetToSeq lists every member of a finite set, once.
LEMMA ListsOnce ==
  ASSUME NEW S, IsFiniteSet(S)
  PROVE  SetToSeq(S) \in Seq(S) /\ Distinct(SetToSeq(S)) /\ Range(SetToSeq(S)) = S
<1> DEFINE n == Cardinality(S)
           I(f) == IsInjective(f)
           s == CHOOSE f \in [1..n -> S] : I(f)
<1>1. n \in Nat /\ ExistsBijection(1..n, S)
  BY FS_CardinalityType
<1>2. \E f \in [1..n -> S] : I(f)
  BY <1>1 DEF ExistsBijection, Bijection, Injection
<1>3. SetToSeq(S) = s
  BY DEF SetToSeq
<1>4. s \in [1..n -> S] /\ I(s)
  <2> HIDE DEF I
  <2> QED BY <1>2, Zenon
<1> HIDE DEF s
<1>5. DOMAIN s = 1..n /\ s \in Seq(S)
  BY <1>1, <1>4
<1>6. Distinct(s)
  BY <1>4 DEF IsInjective, Distinct
<1>7. s \in Injection(1..n, S)
  BY <1>4 DEF Injection
<1>8. IsFiniteSet(1..n) /\ Cardinality(1..n) = n
  BY <1>1, FS_Interval
<1>9. s \in Surjection(1..n, S)
  <2> HIDE DEF n
  <2>1. n = Cardinality(S)
    BY DEF n
  <2> QED BY <1>7, <1>8, <2>1, FS_Injection
<1>10. Range(s) = S
  BY <1>4, <1>5, <1>9 DEF Range, Surjection
<1> QED BY <1>3, <1>5, <1>6, <1>10

\* Handing out the staged rows moves them, each to one buffer.
LEMMA HandedOutOnce ==
  ASSUME NEW t, NEW S, NEW i, i.rows \in Seq(S), \A k \in DOMAIN i.parts : i.parts[k] \in Seq(S),
         Distinct(i.rows), Pile(i.parts), Range(i.rows) \cap Heap(i.parts) = {}
  PROVE  /\ Pile(HandedOut(t, i))
         /\ Heap(HandedOut(t, i)) = Range(i.rows) \cup Heap(i.parts)
<1> DEFINE T(k) == {r \in Range(i.rows) : computePartitionKey(t, r) = k}
           K == {computePartitionKey(t, r) : r \in Range(i.rows)}
           old(k) == IF k \in DOMAIN i.parts THEN i.parts[k] ELSE <<>>
           new(k) == Only(i.rows, T(k))
           D == K \cup DOMAIN i.parts
           out == [k \in D |-> old(k) \o new(k)]
<1>1. HandedOut(t, i) = out
  BY DEF HandedOut
<1>2. ASSUME NEW k PROVE new(k) \in Seq(S) /\ Range(new(k)) = T(k) /\ Distinct(new(k))
  <2>1. Range(i.rows) \cap T(k) = T(k)
    OBVIOUS
  <2> HIDE DEF T
  <2> QED BY <2>1, OnlyDistinct
<1>3. ASSUME NEW k
      PROVE  /\ old(k) \in Seq(S) /\ Distinct(old(k))
             /\ Range(old(k)) = IF k \in DOMAIN i.parts THEN Range(i.parts[k]) ELSE {}
  <2>1. <<>> \in Seq(S) /\ DOMAIN <<>> = {}
    OBVIOUS
  <2>2. Distinct(<<>>) /\ Range(<<>>) = {}
    BY <2>1 DEF Distinct, Range
  <2> QED BY <2>1, <2>2 DEF Pile
<1>4. ASSUME NEW k, NEW l PROVE Range(old(k)) \cap T(l) = {}
  BY <1>3 DEF Heap
<1> HIDE DEF old, new, T
<1>5. ASSUME NEW k PROVE Distinct(old(k) \o new(k)) /\ Range(old(k) \o new(k)) = Range(old(k)) \cup T(k)
  BY <1>2, <1>3, <1>4, ConcatDistinct
<1>6. ASSUME NEW k \in D, NEW l \in D, k # l
      PROVE  (Range(old(k)) \cup T(k)) \cap (Range(old(l)) \cup T(l)) = {}
  <2>1. T(k) \cap T(l) = {}
    BY <1>6 DEF T
  <2>2. Range(old(k)) \cap Range(old(l)) = {}
    BY <1>3, <1>6 DEF Pile
  <2> QED BY <1>4, <2>1, <2>2
<1>7. DOMAIN out = D /\ \A k \in D : out[k] = old(k) \o new(k)
  OBVIOUS
<1>8. UNION {Range(old(k)) \cup T(k) : k \in D} = Range(i.rows) \cup Heap(i.parts)
  <2>1. ASSUME NEW r \in Range(i.rows) PROVE \E k \in D : r \in T(k)
    BY DEF T
  <2>2. ASSUME NEW k \in DOMAIN i.parts PROVE k \in D /\ Range(old(k)) = Range(i.parts[k])
    BY <1>3
  <2>3. ASSUME NEW k \in D
        PROVE  T(k) \subseteq Range(i.rows) /\ Range(old(k)) \subseteq Heap(i.parts)
    BY <1>3 DEF T, Heap
  <2> HIDE DEF D
  <2>4. Heap(i.parts) \subseteq UNION {Range(old(k)) \cup T(k) : k \in D}
    BY <2>2 DEF Heap
  <2>5. Range(i.rows) \subseteq UNION {Range(old(k)) \cup T(k) : k \in D}
    BY <2>1
  <2> QED BY <2>3, <2>4, <2>5
<1> HIDE DEF out, D
<1>9. Pile(out)
  <2>1. \A k \in D : Distinct(out[k]) /\ Range(out[k]) = Range(old(k)) \cup T(k)
    BY <1>5, <1>7
  <2> QED BY <1>6, <1>7, <2>1 DEF Pile
<1>10. Heap(out) = UNION {Range(old(k)) \cup T(k) : k \in D}
  BY <1>5, <1>7 DEF Heap
<1> QED BY <1>1, <1>8, <1>9, <1>10

\* The rows an instance keeps, and that it keeps each of them once.
Kept(i) == Range(i.rows) \cup Heap(i.parts)
KeptOnce(i) == Distinct(i.rows) /\ Pile(i.parts) /\ Range(i.rows) \cap Heap(i.parts) = {}

\* Unless it fails a method keeps every row of K or asks for it, never both.
Passes(K, res) ==
  res.err = "ok" =>
    /\ KeptOnce(res.inst) /\ Distinct(res.ask.rows)
    /\ Kept(res.inst) \cup Range(res.ask.rows) = K
    /\ Kept(res.inst) \cap Range(res.ask.rows) = {}
    /\ res.ask.kind \in {"none", "add", "put"}

LEMMA NothingAsked ==
  /\ NoRequest.rows = <<>> /\ NoRequest.kind = "none" /\ NoRequest.files = {}
  /\ DOMAIN <<>> = {} /\ Range(<<>>) = {} /\ Distinct(<<>>) /\ Heap(<<>>) = {} /\ Pile(<<>>)
<1>1. DOMAIN <<>> = {}
  OBVIOUS
<1>2. NoRequest.rows = <<>> /\ NoRequest.kind = "none" /\ NoRequest.files = {}
  BY DEF NoRequest, Request
<1> QED BY <1>1, <1>2 DEF Range, Distinct, Heap, Pile

LEMMA QuietPasses ==
  ASSUME NEW i, KeptOnce(i)
  PROVE  Passes(Kept(i), Quiet(i))
<1>1. Quiet(i).inst = i /\ Quiet(i).ask = NoRequest
  BY DEF Quiet, Result
<1> QED BY <1>1, NothingAsked DEF Passes

LEMMA PartitionsPass ==
  ASSUME NEW t, NEW S, NEW i, i = [rows |-> i.rows, parts |-> i.parts], i.rows = <<>>,
         IsFiniteSet(DOMAIN i.parts), \A k \in DOMAIN i.parts : i.parts[k] \in Seq(S),
         Pile(i.parts), NEW flush \in BOOLEAN
  PROVE  /\ Passes(Heap(i.parts), processPartitions(t, i, flush))
         /\ flush => Kept(processPartitions(t, i, flush).inst) = {}
<1> DEFINE D == DOMAIN i.parts
           buffers == SetToSeq(D)
           of(k) == Taken(i.parts[k], flush)
           rem(k) == Left(i.parts[k], flush)
           taken == [n \in DOMAIN buffers |-> of(buffers[n])]
           chunks == FlattenSeq(taken)
           open == {k \in D : rem(k) # <<>>}
           left == [k \in open |-> rem(k)]
           rest == [i EXCEPT !.parts = left]
           ask == [Request("add", FlattenSeq(chunks), Null, <<>>)
                     EXCEPT !.files = {DataFile(t, rows) : rows \in Range(chunks)}]
<1>1. processPartitions(t, i, flush) =
        CASE chunks = <<>>                   -> Quiet(rest)
          [] chunks # <<>> /\ ValueFails(t) -> Fails(rest)
          [] OTHER                           -> Asks(rest, ask)
  BY DEF processPartitions, writeRecordBatches
<1>2. buffers \in Seq(D) /\ Distinct(buffers) /\ Range(buffers) = D
  BY ListsOnce
<1>3. ASSUME NEW k \in D
      PROVE  /\ of(k) \in Seq(Seq(S)) /\ Pile(of(k)) /\ Distinct(rem(k))
             /\ Heap(of(k)) \cup Range(rem(k)) = Range(i.parts[k])
             /\ Heap(of(k)) \cap Range(rem(k)) = {}
  <2>1. i.parts[k] \in Seq(S) /\ Distinct(i.parts[k])
    BY DEF Pile
  <2> QED BY <2>1, TakenOnce
<1>4. flush => \A k \in D : rem(k) = <<>>
  BY DEF Left
<1>5. ask.rows = FlattenSeq(chunks) /\ ask.kind = "add"
  BY DEF Request
<1>6. rest = [rows |-> <<>>, parts |-> left]
  <2> HIDE DEF left
  <2> QED OBVIOUS
<1> HIDE DEF of, rem, buffers
<1>7. ASSUME NEW k \in D, NEW l \in D, k # l
      PROVE  /\ Heap(of(k)) \cap Heap(of(l)) = {} /\ Range(rem(k)) \cap Range(rem(l)) = {}
             /\ Heap(of(k)) \cap Range(rem(l)) = {}
  <2>1. Range(i.parts[k]) \cap Range(i.parts[l]) = {}
    BY <1>7 DEF Pile
  <2> QED BY <1>3, <2>1
<1>8. \A n \in DOMAIN buffers : buffers[n] \in D
  BY <1>2
<1>9. /\ DOMAIN taken = DOMAIN buffers /\ DOMAIN buffers = 1..Len(buffers) /\ Len(buffers) \in Nat
      /\ \A n \in DOMAIN buffers : taken[n] = of(buffers[n])
  BY <1>2
<1>10. taken \in Seq(Seq(Seq(S)))
  <2> DEFINE X == Seq(Seq(S))
  <2>1. \A n \in DOMAIN buffers : of(buffers[n]) \in X
    BY <1>3, <1>8
  <2> HIDE DEF X
  <2>2. taken \in Seq(X)
    BY <1>9, <2>1
  <2> QED BY <2>2 DEF X
<1> HIDE DEF taken
<1>11. /\ \A n \in DOMAIN taken : Pile(taken[n])
       /\ \A m, n \in DOMAIN taken : m # n => Heap(taken[m]) \cap Heap(taken[n]) = {}
  <2>1. \A m, n \in DOMAIN buffers : m # n => buffers[m] # buffers[n]
    BY <1>2 DEF Distinct
  <2> QED BY <1>3, <1>7, <1>8, <1>9, <2>1
<1>12. chunks \in Seq(Seq(S)) /\ Pile(chunks) /\ Heap(chunks) = UNION {Heap(taken[n]) : n \in DOMAIN taken}
  <2> HIDE DEF chunks
  <2>1. chunks = FlattenSeq(taken)
    BY DEF chunks
  <2> QED BY <1>10, <1>11, <2>1, FlattenPile
<1> HIDE DEF chunks
<1>13. Heap(chunks) = UNION {Heap(of(k)) : k \in D}
  <2>1. \A k \in D : \E n \in DOMAIN buffers : buffers[n] = k
    BY <1>2 DEF Range
  <2> QED BY <1>8, <1>9, <1>12, <2>1
<1>14. Range(ask.rows) = Heap(chunks) /\ Distinct(ask.rows)
  BY <1>5, <1>12, FlattenDistinct
<1>15. DOMAIN left = open /\ \A k \in open : left[k] = rem(k) /\ k \in D
  OBVIOUS
<1>16. Pile(left)
  <2> HIDE DEF left, open
  <2> QED BY <1>3, <1>7, <1>15 DEF Pile
<1>17. Heap(left) = UNION {Range(rem(k)) : k \in D}
  <2>1. \A k \in D : k \notin open => Range(rem(k)) = {}
    BY NothingAsked
  <2>2. Heap(left) = UNION {Range(rem(k)) : k \in open}
    <3> HIDE DEF left, open
    <3> QED BY <1>15 DEF Heap
  <2> HIDE DEF left
  <2> QED BY <2>1, <2>2
<1>18. flush => Heap(left) = {}
  BY <1>4, <1>17, NothingAsked
<1> HIDE DEF left, open
<1>19. rest.rows = <<>> /\ rest.parts = left
  BY <1>6
<1> HIDE DEF rest, ask
<1>20. KeptOnce(rest) /\ Kept(rest) = Heap(left)
  BY <1>16, <1>19, NothingAsked DEF KeptOnce, Kept
<1>21. Heap(left) \cup Heap(chunks) = Heap(i.parts) /\ Heap(left) \cap Heap(chunks) = {}
  <2>1. Heap(i.parts) = UNION {Range(i.parts[k]) : k \in D}
    BY DEF Heap
  <2>2. Heap(left) \cup Heap(chunks) = Heap(i.parts)
    BY <1>3, <1>13, <1>17, <2>1
  <2>3. \A k, l \in D : Heap(of(k)) \cap Range(rem(l)) = {}
    BY <1>3, <1>7
  <2>4. Heap(left) \cap Heap(chunks) = {}
    BY <1>13, <1>17, <2>3
  <2> QED BY <2>2, <2>4
<1>22. CASE chunks = <<>>
  <2>1. processPartitions(t, i, flush) = Quiet(rest)
    BY <1>1, <1>22
  <2>2. Quiet(rest).inst = rest
    BY DEF Quiet, Result
  <2>3. Heap(chunks) = {}
    BY <1>22, NothingAsked
  <2>4. Passes(Heap(i.parts), Quiet(rest))
    BY <1>20, <1>21, <2>3, QuietPasses
  <2> QED BY <1>18, <1>20, <2>1, <2>2, <2>4
<1>23. CASE chunks # <<>> /\ ValueFails(t)
  <2>1. processPartitions(t, i, flush) = Fails(rest)
    BY <1>1, <1>23
  <2>2. Fails(rest).inst = rest /\ Fails(rest).err = "error"
    BY DEF Fails, Result
  <2> QED BY <1>18, <1>20, <2>1, <2>2 DEF Passes
<1>24. CASE chunks # <<>> /\ ~ValueFails(t)
  <2>1. processPartitions(t, i, flush) = Asks(rest, ask)
    BY <1>1, <1>24
  <2>2. Asks(rest, ask).inst = rest /\ Asks(rest, ask).ask = ask
    BY DEF Asks, Result
  <2> QED BY <1>5, <1>14, <1>18, <1>20, <1>21, <2>1, <2>2 DEF Passes
<1> QED BY <1>22, <1>23, <1>24

LEMMA CurrentBatchPasses ==
  ASSUME NEW t, NEW R, NEW i, InstanceOf(t, R, i), KeptOnce(i), NEW flush \in BOOLEAN
  PROVE  /\ Passes(Kept(i), processCurrentBatch(t, i, flush))
         /\ flush /\ processCurrentBatch(t, i, flush).err = "ok" =>
              Kept(processCurrentBatch(t, i, flush).inst) = {}
<1>1. CASE KeyFails(t, i.rows)
  <2>1. processCurrentBatch(t, i, flush) = Fails(i)
    BY <1>1 DEF processCurrentBatch
  <2>2. Fails(i).err = "error"
    BY DEF Fails, Result
  <2> QED BY <2>1, <2>2 DEF Passes
<1>2. CASE ~KeyFails(t, i.rows)
  <2> DEFINE parts == HandedOut(t, i)
             j == [rows |-> <<>>, parts |-> parts]
             all == flush \/ FlushesRegularly(parts)
  <2>1. PartsOf(t, R, parts)
    BY HandedOutParts DEF InstanceOf
  <2>2. processCurrentBatch(t, i, flush) = processPartitions(t, j, all)
    BY <1>2 DEF processCurrentBatch
  <2>3. j.rows = <<>> /\ j.parts = parts /\ j = [rows |-> j.rows, parts |-> j.parts]
    OBVIOUS
  <2>4. all \in BOOLEAN /\ (flush => all)
    BY DEF FlushesRegularly
  <2>5. i.rows \in Seq(R) /\ \A k \in DOMAIN i.parts : i.parts[k] \in Seq(R)
    BY DEF InstanceOf, PartsOf, OfKey
  <2>6. Pile(parts) /\ Heap(parts) = Kept(i)
    BY <2>5, HandedOutOnce DEF KeptOnce, Kept
  <2>7. IsFiniteSet(DOMAIN parts) /\ \A k \in DOMAIN parts : parts[k] \in Seq(R)
    BY <2>1 DEF PartsOf, OfKey
  <2> HIDE DEF all, j, parts
  <2> QED BY <2>2, <2>3, <2>4, <2>6, <2>7, PartitionsPass
<1> QED BY <1>1, <1>2

\* Only two wrappers keep rows between calls, and only one in buffers.
KeepsRows(w, i) ==
  /\ w # "iceberg" => i.parts = <<>>
  /\ w \notin {"iceberg", "s3vectors"} => i.rows = <<>>

LEMMA OneMoreKept ==
  ASSUME NEW t, NEW R, NEW i, InstanceOf(t, R, i), KeptOnce(i), NEW r \in R, r \notin Kept(i),
         NEW more, more = [i EXCEPT !.rows = Append(@, r)]
  PROVE  /\ InstanceOf(t, R, more) /\ KeptOnce(more) /\ Kept(more) = Kept(i) \cup {r}
         /\ more.parts = i.parts
<1>1. more = [rows |-> Append(i.rows, r), parts |-> i.parts]
  BY DEF InstanceOf
<1>2. more.rows = Append(i.rows, r) /\ more.parts = i.parts
  BY <1>1
<1>3. i.rows \in Seq(R) /\ Append(i.rows, r) \in Seq(R)
  BY DEF InstanceOf
<1>4. InstanceOf(t, R, more)
  BY <1>1, <1>2, <1>3 DEF InstanceOf
<1>5. Range(more.rows) = Range(i.rows) \cup {r} /\ Distinct(more.rows)
  BY <1>2, <1>3, AppendDistinct DEF KeptOnce, Kept
<1> QED BY <1>2, <1>4, <1>5 DEF KeptOnce, Kept

LEMMA OneRowPasses ==
  ASSUME NEW i, KeptOnce(i), NEW r, r \notin Kept(i), NEW kind, kind \in {"add", "put"}, NEW id,
         NEW res, res = Asks(i, Request(kind, <<r>>, id, <<>>))
  PROVE  Passes(Kept(i) \cup {r}, res)
<1> DEFINE s == <<r>>
<1>1. DOMAIN s = {1} /\ s[1] = r
  OBVIOUS
<1>2. res.inst = i /\ res.ask = Request(kind, s, id, <<>>)
  BY DEF Asks, Result
<1>3. Request(kind, s, id, <<>>).kind = kind /\ Request(kind, s, id, <<>>).rows = s
  BY DEF Request
<1> HIDE DEF s
<1>4. Range(s) = {r} /\ Distinct(s)
  BY <1>1 DEF Range, Distinct
<1> QED BY <1>1, <1>2, <1>3, <1>4 DEF Passes

LEMMA FlushPasses ==
  ASSUME NEW t, NEW R, NEW i, InstanceOf(t, R, i), KeptOnce(i)
  PROVE  /\ Passes(Kept(i), S3vectorsFlush(i))
         /\ S3vectorsFlush(i).inst.parts = i.parts /\ S3vectorsFlush(i).inst.rows = <<>>
<1>1. CASE i.rows = <<>>
  <2>1. S3vectorsFlush(i) = Quiet(i) /\ Quiet(i).inst = i
    BY <1>1 DEF S3vectorsFlush, Quiet, Result
  <2> QED BY <1>1, <2>1, QuietPasses
<1>2. CASE i.rows # <<>>
  <2> DEFINE rest == [i EXCEPT !.rows = <<>>]
             ask == Request("put", i.rows, Null, <<>>)
  <2>1. rest = [rows |-> <<>>, parts |-> i.parts]
    BY DEF InstanceOf
  <2>2. S3vectorsFlush(i) = Asks(rest, ask)
    BY <1>2 DEF S3vectorsFlush
  <2>3. ask.kind = "put" /\ ask.rows = i.rows
    BY DEF Request
  <2> HIDE DEF rest, ask
  <2>4. rest.rows = <<>> /\ rest.parts = i.parts
    BY <2>1
  <2>5. Asks(rest, ask).inst = rest /\ Asks(rest, ask).ask = ask
    BY DEF Asks, Result
  <2>6. KeptOnce(rest) /\ Kept(rest) = Heap(i.parts)
    BY <2>4, NothingAsked DEF KeptOnce, Kept
  <2>7. Passes(Kept(i), Asks(rest, ask))
    BY <2>3, <2>5, <2>6 DEF Passes, KeptOnce, Kept
  <2> QED BY <2>2, <2>4, <2>5, <2>7
<1> QED BY <1>1, <1>2

LEMMA InsertPasses ==
  ASSUME NEW R, InstanceOf(c, R, inst), KeptOnce(inst), KeepsRows(c.w, inst),
         NEW r \in R, r \in Rows, r \notin Kept(inst), c.w \in Writers,
         c.w = "clickhouse" /\ c.col = "uint8" => r.val \in 0..255 \cup {Null},
         c.w = "cal" => r.val # Null
  PROVE  /\ Passes(Kept(inst) \cup {r}, insert(r))
         /\ insert(r).err = "ok" =>
              /\ KeepsRows(c.w, insert(r).inst)
              /\ c.w \in Retrying => Len(insert(r).ask.rows) <= 1 /\ insert(r).ask.kind # "put"
<1> DEFINE Goal(res) ==
             /\ Passes(Kept(inst) \cup {r}, res)
             /\ res.err = "ok" => /\ KeepsRows(c.w, res.inst)
                                  /\ c.w \in Retrying => Len(res.ask.rows) <= 1 /\ res.ask.kind # "put"
<1>1. Goal(Fails(inst))
  BY DEF Passes, Fails, Result
<1>2. ASSUME NEW kind \in {"add", "put"}, kind = "add" \/ c.w \notin Retrying
      PROVE  Goal(Asks(inst, Request(kind, <<r>>, r.id, <<>>)))
  <2> DEFINE res == Asks(inst, Request(kind, <<r>>, r.id, <<>>))
  <2>1. /\ Passes(Kept(inst) \cup {r}, res) /\ res.inst = inst /\ res.ask.kind = kind
        /\ Len(res.ask.rows) <= 1
    <3> HIDE DEF res
    <3>1. res = Asks(inst, Request(kind, <<r>>, r.id, <<>>))
      BY DEF res
    <3>2. Passes(Kept(inst) \cup {r}, res)
      BY <3>1, OneRowPasses
    <3>3. res.inst = inst /\ res.ask = Request(kind, <<r>>, r.id, <<>>)
      BY <3>1 DEF Asks, Result
    <3>4. res.ask.kind = kind /\ res.ask.rows = <<r>>
      BY <3>3 DEF Request
    <3>5. Len(<<r>>) <= 1
      OBVIOUS
    <3> QED BY <3>2, <3>3, <3>4, <3>5
  <2> HIDE DEF res
  <2>2. Goal(res)
    BY <1>2, <2>1
  <2> QED BY <2>2 DEF res
<1>0. Goal(Add(inst, r))
  <2>1. Goal(Asks(inst, Request("add", <<r>>, r.id, <<>>)))
    BY <1>2
  <2> HIDE DEF Goal
  <2> QED BY <2>1 DEF Add
<1>3. CASE c.w = "clickhouse"
  <2>1. r = [id |-> r.id, val |-> r.val] /\ r.val \in Int \cup {Null}
    BY DEF Rows
  <2>2. Cast(c, r.val) = r.val
    BY <1>3, <2>1 DEF Cast
  <2>3. [r EXCEPT !.val = Cast(c, @)] = r
    BY <2>1, <2>2
  <2>4. insert(r) = Add(inst, r)
    BY <1>3, <2>3 DEF insert, ClickhouseInsert
  <2> QED BY <1>0, <2>4
<1>4. CASE c.w = "dynamodb"
  <2>1. Goal(Asks(inst, Request("put", <<r>>, r.id, <<>>)))
    BY <1>2, <1>4 DEF Retrying
  <2>2. insert(r) = Fails(inst) \/ insert(r) = Asks(inst, Request("put", <<r>>, r.id, <<>>))
    BY <1>4 DEF insert, DynamodbInsert
  <2> HIDE DEF Goal
  <2>3. Goal(insert(r))
    BY <1>1, <2>1, <2>2
  <2> QED BY <2>3 DEF Goal
<1>5. CASE c.w = "s3vectors"
  <2> DEFINE more == [inst EXCEPT !.rows = Append(@, r)]
  <2>1. /\ InstanceOf(c, R, more) /\ KeptOnce(more) /\ Kept(more) = Kept(inst) \cup {r}
        /\ more.parts = inst.parts
    <3> HIDE DEF more
    <3>1. more = [inst EXCEPT !.rows = Append(@, r)]
      BY DEF more
    <3> QED BY <3>1, OneMoreKept
  <2>2. S3vectorsInsert(c, inst, r) =
          CASE c.rowid # "text" -> Fails(inst)
            [] c.rowid = "text" /\ Len(more.rows) >= BatchSize -> S3vectorsFlush(more)
            [] OTHER -> Quiet(more)
    BY DEF S3vectorsInsert
  <2> HIDE DEF more
  <2>3. Goal(S3vectorsFlush(more))
    <3>1. /\ Passes(Kept(more), S3vectorsFlush(more))
          /\ S3vectorsFlush(more).inst.parts = more.parts /\ S3vectorsFlush(more).inst.rows = <<>>
      BY <2>1, FlushPasses
    <3> QED BY <1>5, <2>1, <3>1 DEF KeepsRows, Retrying
  <2>4. Goal(Quiet(more))
    <3>1. Quiet(more).inst = more
      BY DEF Quiet, Result
    <3> QED BY <1>5, <2>1, <3>1, QuietPasses DEF KeepsRows, Retrying
  <2>5. insert(r) = S3vectorsInsert(c, inst, r)
    BY <1>5 DEF insert
  <2> HIDE DEF Goal
  <2>6. Goal(insert(r))
    BY <1>1, <2>2, <2>3, <2>4, <2>5
  <2> QED BY <2>6 DEF Goal
<1>6. CASE c.w = "iceberg"
  <2> DEFINE more == [inst EXCEPT !.rows = Append(@, r)]
  <2>1. InstanceOf(c, R, more) /\ KeptOnce(more) /\ Kept(more) = Kept(inst) \cup {r}
    <3> HIDE DEF more
    <3>1. more = [inst EXCEPT !.rows = Append(@, r)]
      BY DEF more
    <3> QED BY <3>1, OneMoreKept
  <2>2. insert(r) =
          IF Len(more.rows) >= BatchSize THEN processCurrentBatch(c, more, FALSE) ELSE Quiet(more)
    BY <1>6 DEF insert, IcebergInsert
  <2> HIDE DEF more
  <2>3. Goal(processCurrentBatch(c, more, FALSE))
    <3>1. Passes(Kept(more), processCurrentBatch(c, more, FALSE))
      BY <2>1, CurrentBatchPasses
    <3> QED BY <1>6, <2>1, <3>1 DEF KeepsRows, Retrying
  <2>4. Goal(Quiet(more))
    BY <1>6, <2>1, QuietPasses DEF KeepsRows, Retrying
  <2> HIDE DEF Goal
  <2>5. Goal(insert(r))
    BY <2>2, <2>3, <2>4
  <2> QED BY <2>5 DEF Goal
<1>7. CASE c.w \in {"mysql", "mongodb", "cfd1", "snowflake"}
  <2>1. insert(r) = Add(inst, r)
    BY <1>7 DEF insert, MysqlInsert, MongodbInsert, Cfd1Insert, SnowflakeInsert
  <2> QED BY <1>0, <2>1
<1>8. CASE c.w \in {"bigquery", "stripe", "clerk", "orb", "paddle", "cal"}
  <2>1. insert(r) = Add(inst, r) \/ insert(r) = Fails(inst)
    <3>1. CASE c.w = "bigquery"
      BY <3>1 DEF insert, BigqueryInsert
    <3>2. CASE c.w = "clerk"
      BY <3>2 DEF insert, ClerkInsert
    <3>5. CASE c.w = "stripe"
      <4>1. insert(r) = StripeInsert(c, inst, r)
        BY <3>5 DEF insert
      <4> QED BY <4>1 DEF StripeInsert
    <3>6. CASE c.w = "orb"
      <4>1. insert(r) = OrbInsert(c, inst, r)
        BY <3>6 DEF insert
      <4> QED BY <4>1 DEF OrbInsert
    <3>3. CASE c.w = "paddle"
      BY <3>3 DEF insert, PaddleInsert
    <3>4. CASE c.w = "cal"
      <4>1. insert(r) = CalInsert(c, inst, r)
        BY <3>4 DEF insert
      <4> QED BY <3>4, <4>1 DEF CalInsert
    <3> QED BY <1>8, <3>1, <3>2, <3>3, <3>4, <3>5, <3>6
  <2> HIDE DEF Goal
  <2>2. Goal(insert(r))
    BY <1>0, <1>1, <2>1
  <2> QED BY <2>2 DEF Goal
<1> QED BY <1>3, <1>4, <1>5, <1>6, <1>7, <1>8 DEF Writers

LEMMA EndPasses ==
  ASSUME NEW R, InstanceOf(c, R, inst), KeptOnce(inst), KeepsRows(c.w, inst)
  PROVE  /\ Passes(Kept(inst), end_modify)
         /\ end_modify.err = "ok" =>
              /\ Kept(end_modify.inst) = {}
              /\ end_modify.ask # NoRequest => c.w \in {"s3vectors", "iceberg"}
<1>1. CASE c.w = "s3vectors"
  <2>1. end_modify = S3vectorsFlush(inst)
    BY <1>1 DEF end_modify, S3vectorsEnd
  <2>2. S3vectorsFlush(inst).inst.parts = <<>> /\ S3vectorsFlush(inst).inst.rows = <<>>
    BY <1>1, FlushPasses DEF KeepsRows
  <2> QED BY <1>1, <2>1, <2>2, FlushPasses, NothingAsked DEF Kept
<1>2. CASE c.w = "iceberg"
  <2>1. CASE inst.rows # <<>> \/ DOMAIN inst.parts # {}
    <3>1. end_modify = processCurrentBatch(c, inst, TRUE)
      BY <1>2, <2>1 DEF end_modify, IcebergEnd
    <3> QED BY <1>2, <3>1, CurrentBatchPasses
  <2>2. CASE ~(inst.rows # <<>> \/ DOMAIN inst.parts # {})
    <3>1. end_modify = Quiet(inst) /\ Quiet(inst).inst = inst
      BY <1>2, <2>2 DEF end_modify, IcebergEnd, Quiet, Result
    <3>2. Kept(inst) = {}
      BY <2>2, NothingAsked DEF Kept, Heap
    <3> QED BY <1>2, <3>1, <3>2, QuietPasses
  <2> QED BY <2>1, <2>2
<1>3. CASE c.w \notin {"s3vectors", "iceberg"}
  <2>1. end_modify = Quiet(inst) /\ Quiet(inst).inst = inst /\ Quiet(inst).ask = NoRequest
    BY <1>3 DEF end_modify, Quiet, Result
  <2>2. Kept(inst) = {}
    BY <1>3, NothingAsked DEF KeepsRows, Kept
  <2> QED BY <2>1, <2>2, QuietPasses
<1> QED BY <1>1, <1>2, <1>3

-----------------------------------------------------------------------------
(* An INSERT of rows with ids of their own makes its changes.              *)

Coming(n) == {c.stmt.rows[m] : m \in n..Len(c.stmt.rows)}

\* Of the rows given, those not in the table T and not asked for in q are kept
\* in i or are among those still to come, K.  Only clients that send again may
\* ask for what is in the table, and they ask for one row.
Flows(i, q, K, T) ==
  /\ KeptOnce(i) /\ Distinct(q.rows)
  /\ Kept(i) \cap K = {} /\ Range(q.rows) \cap (Kept(i) \cup K) = {}
  /\ Kept(i) \cup K = Given \ (T \cup Range(q.rows)) /\ Range(q.rows) \subseteq Given
  /\ q.kind \in {"none", "add", "put"}
  /\ c.w \in Retrying => Len(q.rows) <= 1 /\ q.kind # "put"
  /\ c.w \notin Retrying => Range(q.rows) \cap T = {}

FlowInv ==
  /\ c.stmt.explain => contexts = 0
  /\ ~c.stmt.explain /\ phase = "open" => contexts = 1 /\ c.w \in Writers /\ KeepsRows(c.w, inst)
  /\ DOMAIN table \subseteq c.rows \cup Given
  /\ ~c.stmt.explain /\ phase \in {"plan", "begin", "open", "ending"} =>
       Flows(inst, request, Coming(pos), DOMAIN table)
  /\ phase = "ending" => Kept(inst) \cup Coming(pos) = {} /\ c.w \notin Retrying

\* The rows of such an INSERT are different, and new to the table.
LEMMA GivenRows ==
  ASSUME c \in Cases, WritesRows(c)
  PROVE  /\ c.stmt.rows \in Seq(Rows) /\ Given \subseteq Rows /\ Coming(1) = Given
         /\ \A r \in Given : r.id \notin c.rivals /\ \A q \in Given \cup c.rows : r.id = q.id => r = q
         /\ Given \cap c.rows = {}
         /\ \A n \in 1..Len(c.stmt.rows) :
              /\ c.stmt.rows[n] \in Given /\ c.stmt.rows[n] \notin Coming(n + 1)
              /\ Coming(n) = Coming(n + 1) \cup {c.stmt.rows[n]}
<1> DEFINE s == c.stmt.rows
<1>1. s \in Seq(Rows) /\ Given \subseteq Rows
  BY CaseIs
<1>2. DOMAIN s = 1..Len(s) /\ Len(s) \in Nat
  BY <1>1
<1>3. \A i, j \in DOMAIN s : s[i].id = s[j].id => i = j
  BY DEF WritesRows
<1>4. Given = {s[n] : n \in 1..Len(s)}
  BY <1>2 DEF Given, Range
<1>5. \A r \in Given : r.id \notin c.rivals /\ \A q \in c.rows : r.id # q.id
  BY DEF WritesRows, Given
<1>6. \A r, q \in Given : r.id = q.id => r = q
  BY <1>2, <1>3, <1>4
<1>7. ASSUME NEW n \in 1..Len(s)
      PROVE  s[n] \in Given /\ s[n] \notin Coming(n + 1) /\ Coming(n) = Coming(n + 1) \cup {s[n]}
  <2>1. n..Len(s) = ((n + 1)..Len(s)) \cup {n} /\ \A m \in (n + 1)..Len(s) : m \in DOMAIN s /\ m # n
    BY <1>2
  <2>2. \A m \in (n + 1)..Len(s) : s[m] # s[n]
    BY <1>2, <1>3, <2>1
  <2> QED BY <1>4, <2>1, <2>2 DEF Coming
<1>8. Coming(1) = Given
  BY <1>4 DEF Coming
<1>9. Given \cap c.rows = {}
  BY <1>5
<1> QED BY <1>1, <1>5, <1>6, <1>7, <1>8, <1>9

\* Creating rows, as changes of the abstract statement.
Creates(S) == {[old |-> {}, new |-> {r}] : r \in S}

LEMMA CreatesIs ==
  ASSUME NEW S
  PROVE  /\ UNION {ch.old : ch \in Creates(S)} = {} /\ UNION {ch.new : ch \in Creates(S)} = S
         /\ \A r : [old |-> {}, new |-> {r}] \in Creates(S) <=> r \in S
         /\ \A ch \in Creates(S) : \E r \in S : ch = [old |-> {}, new |-> {r}]
<1> DEFINE change(r) == [old |-> {}, new |-> {r}]
<1>1. \A r : change(r).old = {} /\ change(r).new = {r}
  OBVIOUS
<1>2. Creates(S) = {change(r) : r \in S}
  BY DEF Creates
<1>3. \A r, q : change(r) = change(q) => r = q
  <2> SUFFICES ASSUME NEW r, NEW q, change(r) = change(q) PROVE r = q
    OBVIOUS
  <2>1. change(r).new = change(q).new
    OBVIOUS
  <2>2. {r} = {q}
    BY <1>1, <2>1
  <2> QED BY <2>2
<1> HIDE DEF change
<1>4. UNION {ch.old : ch \in Creates(S)} = {} /\ UNION {ch.new : ch \in Creates(S)} = S
  BY <1>1, <1>2
<1>5. \A r : change(r) \in Creates(S) <=> r \in S
  BY <1>2, <1>3
<1>6. \A ch \in Creates(S) : \E r \in S : ch = change(r)
  BY <1>2
<1> QED BY <1>4, <1>5, <1>6 DEF change

LEMMA MadeOfCreates ==
  ASSUME IsTable(table), NEW S
  PROVE  Effected!Made(Creates(S)) =
           [r \in DOMAIN table \cup S |->
              (IF r \in DOMAIN table THEN table[r] ELSE 0) + (IF r \in S THEN 1 ELSE 0)]
<1> DEFINE copies(r) == (IF r \notin DOMAIN table THEN 0
                         ELSE IF r \in {} THEN table[r] - 1 ELSE table[r])
                          + (IF r \in S THEN 1 ELSE 0)
           n(r) == (IF r \in DOMAIN table THEN table[r] ELSE 0) + (IF r \in S THEN 1 ELSE 0)
<1>1. UNION {ch.old : ch \in Creates(S)} = {} /\ UNION {ch.new : ch \in Creates(S)} = S
  BY CreatesIs
<1>2. Effected!Made(Creates(S)) = [r \in {x \in DOMAIN table \cup S : copies(x) > 0} |-> copies(r)]
  BY <1>1, Zenon DEF Effected!Made
<1>3. ASSUME NEW r \in DOMAIN table \cup S PROVE copies(r) = n(r) /\ copies(r) > 0
  <2>1. r \in DOMAIN table => table[r] \in Nat \ {0}
    BY DEF IsTable
  <2> QED BY <2>1
<1> HIDE DEF copies, n
<1>4. {x \in DOMAIN table \cup S : copies(x) > 0} = DOMAIN table \cup S
  BY <1>3
<1>5. [r \in DOMAIN table \cup S |-> copies(r)] = [r \in DOMAIN table \cup S |-> n(r)]
  BY <1>3
<1>6. Effected!Made(Creates(S)) = [r \in DOMAIN table \cup S |-> n(r)]
  BY <1>2, <1>4, <1>5
<1> QED BY <1>6 DEF n

\* What the remote side makes of a request for new rows.
LEMMA EffectMakes ==
  ASSUME IsTable(table), NEW q, q.kind \in {"add", "put"}, q.rows \in Seq(Rows), Distinct(q.rows),
         q.kind = "put" => \A r \in DOMAIN table, x \in Range(q.rows) : r.id # x.id
  PROVE  Effect(q) = Effected!Made(Creates(Range(q.rows)))
<1> DEFINE S == Range(q.rows)
           B == SeqToBag(q.rows)
<1>1. B = [r \in S |-> 1]
  <2>1. ASSUME NEW r \in S PROVE Cardinality({i \in DOMAIN q.rows : q.rows[i] = r}) = 1
    <3>1. PICK j \in DOMAIN q.rows : q.rows[j] = r
      BY DEF Range
    <3>2. {i \in DOMAIN q.rows : q.rows[i] = r} = {j}
      BY <3>1 DEF Distinct
    <3> QED BY <3>2, FS_Singleton
  <2> QED BY <2>1 DEF SeqToBag
<1>2. Effect(q) = table (+) B
  <2>1. CASE q.kind = "add"
    BY <2>1 DEF Effect
  <2>2. CASE q.kind = "put"
    <3>1. {r \in DOMAIN table : r.id \notin {x.id : x \in S}} = DOMAIN table
      BY <2>2
    <3>2. Without({x.id : x \in S}) = [r \in DOMAIN table |-> table[r]]
      BY <3>1 DEF Without
    <3>3. Without({x.id : x \in S}) = table
      BY <3>2 DEF IsTable
    <3> QED BY <2>2, <3>3 DEF Effect
  <2> QED BY <2>1, <2>2
<1> HIDE DEF S, B
<1>3. table (+) B = [r \in DOMAIN table \cup S |->
                       (IF r \in DOMAIN table THEN table[r] ELSE 0) + (IF r \in S THEN B[r] ELSE 0)]
  BY <1>1 DEF (+)
<1>4. [r \in DOMAIN table \cup S |->
         (IF r \in DOMAIN table THEN table[r] ELSE 0) + (IF r \in S THEN B[r] ELSE 0)] =
      [r \in DOMAIN table \cup S |->
         (IF r \in DOMAIN table THEN table[r] ELSE 0) + (IF r \in S THEN 1 ELSE 0)]
  BY <1>1
<1>5. Effect(q) = Effected!Made(Creates(S))
  BY <1>2, <1>3, <1>4, MadeOfCreates
<1> QED BY <1>5 DEF S

\* A request that is on its way writes its rows and nothing else.
LEMMA AsksForNew ==
  ASSUME c \in Cases, WritesRows(c), WriteInv, ~Idle, DOMAIN table \subseteq c.rows \cup Given,
         NEW i, NEW K, Flows(i, request, K, DOMAIN table)
  PROVE  /\ Effect(request) = Effected!Made(Creates(Range(request.rows)))
         /\ DOMAIN Effect(request) = DOMAIN table \cup Range(request.rows)
         /\ Range(request.rows) \subseteq Given
<1>1. request.kind # "none"
  BY DEF WriteInv, IsRequest, Idle
<1>2. IsTable(table) /\ request.rows \in Seq(Rows)
  BY DEF WriteInv, IsRequest
<1>3. /\ Distinct(request.rows) /\ Range(request.rows) \subseteq Given /\ request.kind \in {"add", "put"}
      /\ request.kind = "put" => Range(request.rows) \cap DOMAIN table = {}
  BY <1>1 DEF Flows
<1>4. \A x \in Given : \A r \in Given \cup c.rows : x.id = r.id => x = r
  BY GivenRows
<1>5. request.kind = "put" => \A r \in DOMAIN table, x \in Range(request.rows) : r.id # x.id
  BY <1>3, <1>4
<1>6. Effect(request) = Effected!Made(Creates(Range(request.rows)))
  BY <1>2, <1>3, <1>5, EffectMakes
<1>7. DOMAIN Effect(request) = DOMAIN table \cup Range(request.rows)
  <2> DEFINE S == Range(request.rows)
  <2>1. Effected!Made(Creates(S)) =
          [r \in DOMAIN table \cup S |->
             (IF r \in DOMAIN table THEN table[r] ELSE 0) + (IF r \in S THEN 1 ELSE 0)]
    <3> HIDE DEF S
    <3> QED BY <1>2, MadeOfCreates
  <2>2. Effect(request) = Effected!Made(Creates(S))
    BY <1>6
  <2> HIDE DEF S
  <2>3. DOMAIN Effect(request) = DOMAIN table \cup S
    BY <2>1, <2>2
  <2> QED BY <2>3 DEF S
<1> QED BY <1>3, <1>6, <1>7

LEMMA FlowsOn ==
  ASSUME NEW i, NEW q, NEW K, NEW T, Flows(i, q, K, T)
  PROVE  /\ Flows(i, NoRequest, K, T \cup Range(q.rows))
         /\ c.w \in Retrying => Flows(i, q, K, T \cup Range(q.rows))
<1>1. Range(NoRequest.rows) = {} /\ Distinct(NoRequest.rows) /\ Len(NoRequest.rows) <= 1
      /\ NoRequest.kind = "none"
  <2>1. Len(<<>>) <= 1
    OBVIOUS
  <2> QED BY <2>1, NothingAsked
<1>2. Flows(i, NoRequest, K, T \cup Range(q.rows))
  BY <1>1 DEF Flows
<1>3. c.w \in Retrying => Flows(i, q, K, T \cup Range(q.rows))
  BY DEF Flows
<1> QED BY <1>2, <1>3

LEMMA FlowsThrough ==
  ASSUME NEW i, NEW K, NEW T, Flows(i, NoRequest, K, T), NEW X, NEW L, X \cup L = Kept(i) \cup K,
         X \cap L = {}, NEW res, res.err = "ok", Passes(X, res),
         c.w \in Retrying => Len(res.ask.rows) <= 1 /\ res.ask.kind # "put"
  PROVE  Flows(res.inst, res.ask, L, T)
<1>1. Range(NoRequest.rows) = {}
  BY NothingAsked
<1>2. /\ KeptOnce(res.inst) /\ Distinct(res.ask.rows)
      /\ Kept(res.inst) \cup Range(res.ask.rows) = X
      /\ Kept(res.inst) \cap Range(res.ask.rows) = {}
      /\ res.ask.kind \in {"none", "add", "put"}
  BY DEF Passes
<1>3. X \cup L = Given \ T
  BY <1>1 DEF Flows
<1>4. /\ Kept(res.inst) \cap L = {} /\ Range(res.ask.rows) \cap (Kept(res.inst) \cup L) = {}
      /\ Kept(res.inst) \cup L = Given \ (T \cup Range(res.ask.rows))
      /\ Range(res.ask.rows) \subseteq Given /\ Range(res.ask.rows) \cap T = {}
  BY <1>2, <1>3
<1> QED BY <1>2, <1>4 DEF Flows

LEMMA FlowInvNext ==
  ASSUME c' = c, c.stmt.explain => contexts' = 0,
         ~c.stmt.explain /\ phase' = "open" =>
           contexts' = 1 /\ c.w \in Writers /\ KeepsRows(c.w, inst'),
         DOMAIN table' \subseteq c.rows \cup Given,
         ~c.stmt.explain /\ phase' \in {"plan", "begin", "open", "ending"} =>
           Flows(inst', request', Coming(pos'), DOMAIN table'),
         phase' = "ending" => Kept(inst') \cup Coming(pos') = {} /\ c.w \notin Retrying
  PROVE  FlowInv'
<1>1. Given' = Given
  BY DEF Given
<1>2. Coming(pos)' = Coming(pos')
  BY DEF Coming
<1>3. Kept(inst)' = Kept(inst') /\ KeepsRows(c.w, inst)' = KeepsRows(c.w, inst')
  BY DEF Kept, KeepsRows, Heap, Range
<1>4. Flows(inst, request, Coming(pos), DOMAIN table)' <=>
        Flows(inst', request', Coming(pos'), DOMAIN table')
  BY <1>1, <1>2 DEF Flows
<1> QED BY <1>1, <1>2, <1>3, <1>4 DEF FlowInv

LEMMA FlowInvInit ==
  ASSUME Init, WritesRows(c)
  PROVE  FlowInv
<1>1. c \in Cases /\ phase = "plan" /\ contexts = 0 /\ pos = 1 /\ request = NoRequest
      /\ inst = FreshInstance
  BY DEF Init
<1>2. DOMAIN table = c.rows
  BY DEF Init, SetToBag
<1>3. Coming(1) = Given /\ Given \cap c.rows = {}
  BY <1>1, GivenRows
<1>4. KeptOnce(inst) /\ Kept(inst) = {}
  <2>1. inst.rows = <<>> /\ inst.parts = <<>>
    BY <1>1 DEF FreshInstance
  <2> QED BY <2>1, NothingAsked DEF KeptOnce, Kept
<1>5. /\ Range(request.rows) = {} /\ Distinct(request.rows) /\ Len(request.rows) <= 1
      /\ request.kind = "none"
  <2>1. Len(<<>>) <= 1
    OBVIOUS
  <2> QED BY <1>1, <2>1, NothingAsked
<1>6. Flows(inst, request, Coming(pos), DOMAIN table)
  BY <1>1, <1>2, <1>3, <1>4, <1>5 DEF Flows
<1> QED BY <1>1, <1>2, <1>6 DEF FlowInv

LEMMA FlowInvStep ==
  ASSUME FlowInv, WriteInv, LifeInv, [Next]_vars, WritesRows(c)
  PROVE  FlowInv'
<1> USE DEF local
<1>0. c \in Cases /\ c.stmt.op = "insert" /\ c.w \in Writers \cup ReadOnlyGuests
  BY DEF WriteInv, WritesRows
<1>1. /\ DOMAIN table \subseteq c.rows \cup Given
      /\ c.stmt.explain => contexts = 0
      /\ ~c.stmt.explain /\ phase = "open" => contexts = 1 /\ c.w \in Writers /\ KeepsRows(c.w, inst)
      /\ ~c.stmt.explain /\ phase \in {"plan", "begin", "open", "ending"} =>
           Flows(inst, request, Coming(pos), DOMAIN table)
      /\ phase = "ending" => Kept(inst) \cup Coming(pos) = {} /\ c.w \notin Retrying
  BY DEF FlowInv
\* A statement that fails, the table as it is.
<1>2. ASSUME phase' = "failed", c' = c, contexts' = 0 \/ contexts' = contexts \/ ~c.stmt.explain,
             DOMAIN table' \subseteq c.rows \cup Given
      PROVE  FlowInv'
  BY <1>1, <1>2, FlowInvNext
<1>3. CASE PlanForeignModify
  <2>1. CASE phase' = "failed"
    BY <1>1, <1>2, <1>3, <2>1 DEF PlanForeignModify
  <2>2. CASE phase' = "begin"
    BY <1>1, <1>3, <2>2, FlowInvNext DEF PlanForeignModify
  <2> QED BY <1>3, <2>1, <2>2 DEF PlanForeignModify
<1>4. CASE BeginForeignModify
  <2>1. phase = "begin" /\ UNCHANGED <<c, pos, inst, request, table>>
    BY <1>4 DEF BeginForeignModify
  <2>2. CASE c.stmt.explain /\ phase' = "open" /\ UNCHANGED <<contexts, unwound>>
    BY <1>1, <2>1, <2>2, FlowInvNext
  <2>3. CASE phase' = "failed"
    BY <1>1, <1>2, <1>4, <2>1, <2>3 DEF BeginForeignModify
  <2>4. CASE ~c.stmt.explain /\ c.w \notin ReadOnlyGuests /\ phase' = "open" /\ contexts' = 1
    <3>1. KeepsRows(c.w, inst)
      BY <2>1 DEF WriteInv, FreshInstance, KeepsRows
    <3> QED BY <1>0, <1>1, <2>1, <2>4, <3>1, FlowInvNext
  <2> QED BY <1>4, <2>2, <2>3, <2>4 DEF BeginForeignModify
<1>5. CASE ExecForeignInsert
  <2> DEFINE r == c.stmt.rows[pos]
             res == insert(r)
             K == Coming(pos + 1)
  <2>1. /\ phase = "open" /\ request = NoRequest /\ contexts = 1 /\ ~c.stmt.explain
        /\ pos \in 1..Len(c.stmt.rows) /\ pos' = pos + 1 /\ Handles(res) /\ UNCHANGED <<c, table>>
    <3>1. pos \in Nat \ {0} /\ c.stmt.rows \in Seq(Rows)
      BY <1>0, CaseIs DEF WriteInv
    <3> QED BY <1>1, <1>5, <3>1 DEF ExecForeignInsert, Idle
  <2>2. /\ r \in Given /\ r \in Rows /\ r \notin K /\ Coming(pos) = K \cup {r}
        /\ c.w = "clickhouse" /\ c.col = "uint8" => r.val \in 0..255 \cup {Null}
        /\ c.w = "cal" => r.val # Null
    <3>1. r \in Given /\ r \notin K /\ Coming(pos) = K \cup {r} /\ Given \subseteq Rows
      BY <1>0, <2>1, GivenRows
    <3>2. \A x \in Given : /\ c.w = "clickhouse" /\ c.col = "uint8" => x.val \in 0..255 \cup {Null}
                           /\ c.w = "cal" => x.val # Null
      BY DEF WritesRows, Given
    <3> HIDE DEF r
    <3> QED BY <3>1, <3>2
  <2>3. Flows(inst, NoRequest, Coming(pos), DOMAIN table)
    BY <1>1, <2>1
  <2>4. KeptOnce(inst) /\ Kept(inst) \cap Coming(pos) = {}
    BY <2>3 DEF Flows
  <2>5. InstanceOf(c, Given, inst) /\ KeepsRows(c.w, inst) /\ c.w \in Writers
    BY <1>1, <2>1 DEF WriteInv
  <2>6. r \notin Kept(inst)
    BY <2>2, <2>4
  <2>7. /\ Passes(Kept(inst) \cup {r}, res)
        /\ res.err = "ok" =>
             /\ KeepsRows(c.w, res.inst)
             /\ c.w \in Retrying => Len(res.ask.rows) <= 1 /\ res.ask.kind # "put"
    <3> HIDE DEF r
    <3> QED BY <2>2, <2>4, <2>5, <2>6, InsertPasses
  <2>8. res.err \in Outcomes
    BY InsertOutcomes
  <2> HIDE DEF r, res, K
  <2>9. CASE res.err = "ok"
    <3>1. inst' = res.inst /\ request' = res.ask /\ phase' = phase /\ contexts' = contexts
      BY <2>1, <2>9 DEF Handles
    <3>2. (Kept(inst) \cup {r}) \cup K = Kept(inst) \cup Coming(pos) /\ (Kept(inst) \cup {r}) \cap K = {}
      BY <2>2, <2>4
    <3>3. Flows(res.inst, res.ask, K, DOMAIN table)
      BY <2>3, <2>7, <2>9, <3>2, FlowsThrough
    <3>4. K = Coming(pos')
      BY <2>1 DEF K
    <3> QED BY <1>1, <2>1, <2>5, <2>7, <2>9, <3>1, <3>3, <3>4, FlowInvNext
  <2>10. CASE res.err = "error"
    <3>1. phase' = "failed" /\ contexts' = 0
      BY <2>1, <2>10 DEF Handles, DropState
    <3> QED BY <1>1, <1>2, <2>1, <3>1
  <2>11. CASE res.err = "unwinds"
    <3>1. phase' = "failed" /\ contexts' = contexts
      BY <2>1, <2>11 DEF Handles, Unwind
    <3> QED BY <1>1, <1>2, <2>1, <3>1
  <2> QED BY <2>8, <2>9, <2>10, <2>11 DEF Outcomes
<1>6. CASE FetchPage
  BY <1>0, <1>6 DEF FetchPage
<1>7. CASE ExecForeignUpdate \/ ExecForeignDelete
  BY <1>0, <1>7 DEF ExecForeignUpdate, ExecForeignDelete
<1>8. CASE RemoteWrites
  <2> DEFINE T == DOMAIN table \cup Range(request.rows)
  <2>1. ~Idle /\ table' = Effect(request) /\ UNCHANGED <<c, pos>> /\ phase \in {"open", "ending"}
        /\ contexts = 1
    BY <1>8 DEF RemoteWrites, LifeInv
  <2>2. ~c.stmt.explain /\ Flows(inst, request, Coming(pos), DOMAIN table)
    BY <1>1, <2>1
  <2>3. DOMAIN table' = T /\ T \subseteq c.rows \cup Given
    BY <1>0, <1>1, <2>1, <2>2, AsksForNew
  <2>4. Flows(inst, NoRequest, Coming(pos), T) /\ (c.w \in Retrying => Flows(inst, request, Coming(pos), T))
    BY <2>2, FlowsOn
  <2> HIDE DEF T
  <2>5. CASE Answered
    <3>1. /\ request' = NoRequest /\ inst' = inst
          /\ phase' = IF phase = "ending" THEN "done" ELSE phase
          /\ contexts' = IF phase = "ending" THEN 0 ELSE contexts
      BY <2>5 DEF Answered
    <3> QED BY <1>1, <2>1, <2>2, <2>3, <2>4, <3>1, FlowInvNext
  <2>6. CASE SendAgain
    <3>1. c.w \in Retrying /\ UNCHANGED <<phase, inst, request, contexts>>
      BY <2>6 DEF SendAgain
    <3> QED BY <1>1, <2>1, <2>2, <2>3, <2>4, <3>1, FlowInvNext
  <2>7. CASE GivesUp
    BY <1>2, <2>1, <2>3, <2>7 DEF GivesUp, DropState
  <2> QED BY <1>8, <2>5, <2>6, <2>7 DEF RemoteWrites
<1>9. CASE RemoteRefuses
  <2>1. UNCHANGED <<c, pos, table>>
    BY <1>9 DEF RemoteRefuses
  <2>2. CASE SendAgain
    <3>1. UNCHANGED <<phase, inst, request, contexts>>
      BY <2>2 DEF SendAgain
    <3> QED BY <1>1, <2>1, <3>1, FlowInvNext
  <2>3. CASE DropState
    BY <1>1, <1>2, <2>1, <2>3 DEF DropState
  <2> QED BY <1>9, <2>2, <2>3 DEF RemoteRefuses
<1>10. CASE EndForeignModify
  <2>1. phase = "open" /\ request = NoRequest /\ UNCHANGED <<c, pos, table>> /\ pos \in Nat
    BY <1>10 DEF EndForeignModify, Idle, WriteInv
  <2>2. CASE contexts = 0
    <3>1. phase' = "done" /\ contexts' = contexts
      BY <1>10, <2>2 DEF EndForeignModify
    <3> QED BY <1>1, <2>1, <3>1, FlowInvNext
  <2>3. CASE contexts # 0
    <3> DEFINE res == end_modify
    <3>1. contexts = 1 /\ ~c.stmt.explain
      BY <1>1, <2>3 DEF LifeInv
    <3>2. Coming(pos) = {}
      <4>1. pos > Len(c.stmt.rows) /\ Len(c.stmt.rows) \in Nat
        BY <1>0, <1>10, <3>1, CaseIs DEF EndForeignModify
      <4>2. pos..Len(c.stmt.rows) = {}
        BY <2>1, <4>1
      <4> QED BY <4>2 DEF Coming
    <3>3. Flows(inst, NoRequest, {}, DOMAIN table) /\ KeptOnce(inst)
      BY <1>1, <2>1, <3>1, <3>2 DEF Flows
    <3>4. InstanceOf(c, Given, inst) /\ KeepsRows(c.w, inst)
      BY <1>1, <2>1, <3>1 DEF WriteInv
    <3>5. /\ Passes(Kept(inst), res)
          /\ res.err = "ok" => /\ Kept(res.inst) = {}
                               /\ res.ask # NoRequest => c.w \in {"s3vectors", "iceberg"}
      BY <3>3, <3>4, EndPasses
    <3>6. IF res.err # "ok" THEN DropState
          ELSE /\ inst' = res.inst /\ request' = res.ask
               /\ phase' = IF res.ask = NoRequest THEN "done" ELSE "ending"
               /\ contexts' = IF res.ask = NoRequest THEN 0 ELSE 1
      BY <1>10, <2>3 DEF EndForeignModify
    <3> HIDE DEF res
    <3>7. CASE res.err # "ok"
      BY <1>1, <1>2, <2>1, <3>6, <3>7 DEF DropState
    <3>8. CASE res.err = "ok" /\ res.ask = NoRequest
      BY <1>1, <2>1, <3>1, <3>6, <3>8, FlowInvNext
    <3>9. CASE res.err = "ok" /\ res.ask # NoRequest
      <4>1. c.w \notin Retrying
        BY <3>5, <3>9 DEF Retrying
      <4>2. Flows(res.inst, res.ask, {}, DOMAIN table)
        BY <3>3, <3>5, <3>9, <4>1, FlowsThrough
      <4> QED BY <1>1, <2>1, <3>1, <3>2, <3>5, <3>6, <3>9, <4>1, <4>2, FlowInvNext
    <3> QED BY <3>7, <3>8, <3>9
  <2> QED BY <2>2, <2>3
<1>11. CASE AbortElsewhere
  BY <1>1, <1>2, <1>11 DEF AbortElsewhere, Unwind
<1>12. CASE RivalDeletes
  <2>1. PICK id \in c.rivals \cap Ids : table' = Without({id})
    BY <1>12 DEF RivalDeletes
  <2>2. UNCHANGED <<c, pos, inst, request, phase, contexts>>
    BY <1>12 DEF RivalDeletes
  <2>3. DOMAIN table' = {r \in DOMAIN table : r.id # id}
    BY <2>1 DEF Without
  <2>4. DOMAIN table' \subseteq DOMAIN table /\ Given \cap DOMAIN table' = Given \cap DOMAIN table
    <3>1. \A r \in Given : r.id \notin c.rivals
      BY <1>0, GivenRows
    <3> QED BY <2>1, <2>3, <3>1
  <2>5. ASSUME NEW i, NEW q, NEW K, Flows(i, q, K, DOMAIN table) PROVE Flows(i, q, K, DOMAIN table')
    <3>1. /\ Given \ (DOMAIN table \cup Range(q.rows)) = Given \ (DOMAIN table' \cup Range(q.rows))
          /\ Range(q.rows) \subseteq Given /\ Range(q.rows) \cap DOMAIN table' \subseteq DOMAIN table
      BY <2>4, <2>5 DEF Flows
    <3> QED BY <2>5, <3>1 DEF Flows
  <2> QED BY <1>1, <2>2, <2>4, <2>5, FlowInvNext
<1>13. CASE Finished \/ UNCHANGED vars
  <2>1. UNCHANGED <<c, phase, pos, inst, request, table, contexts>>
    BY <1>13 DEF Finished, vars
  <2> QED BY <1>1, <2>1, FlowInvNext
<1> QED BY <1>3, <1>4, <1>5, <1>6, <1>7, <1>8, <1>9, <1>10, <1>11, <1>12, <1>13 DEF Next

\* What is still to be done of such a statement when T are the rows of the table.
LEMMA TodoIs ==
  ASSUME c \in Cases, WritesRows(c), NEW T
  PROVE  /\ c.stmt.explain => Changes = {}
         /\ ~c.stmt.explain =>
              /\ Changes = Creates(Given)
              /\ {ch \in Changes : IF ch.old = {} THEN ~(ch.new \subseteq T) ELSE ch.old \subseteq T}
                   = Creates(Given \ T)
<1>1. c.stmt.op = "insert"
  BY DEF WritesRows
<1>2. CASE c.stmt.explain
  BY <1>2 DEF Changes
<1>3. CASE ~c.stmt.explain
  <2> DEFINE todo == {ch \in Changes : IF ch.old = {} THEN ~(ch.new \subseteq T) ELSE ch.old \subseteq T}
  <2>1. Changes = Creates(Given)
    BY <1>1, <1>3 DEF Changes, Creates, Given
  <2>2. \A ch \in Creates(Given) : \E r \in Given : ch = [old |-> {}, new |-> {r}]
    BY CreatesIs
  <2>3. \A r : [old |-> {}, new |-> {r}].old = {} /\ [old |-> {}, new |-> {r}].new = {r}
    OBVIOUS
  <2>4. \A ch \in Creates(Given) : ch.old = {}
    BY <2>2, <2>3
  <2>5. todo = {ch \in Creates(Given) : ~(ch.new \subseteq T)}
    BY <2>1, <2>4
  <2> HIDE DEF todo
  <2>6. ASSUME NEW ch PROVE ch \in todo <=> ch \in Creates(Given \ T)
    <3>1. ASSUME ch \in todo PROVE ch \in Creates(Given \ T)
      <4>1. PICK r \in Given : ch = [old |-> {}, new |-> {r}] /\ ~(ch.new \subseteq T)
        BY <2>2, <2>5, <3>1
      <4>2. r \in Given \ T
        BY <2>3, <4>1
      <4> QED BY <4>1, <4>2 DEF Creates
    <3>2. ASSUME ch \in Creates(Given \ T) PROVE ch \in todo
      <4>1. PICK r \in Given \ T : ch = [old |-> {}, new |-> {r}]
        BY <3>2 DEF Creates
      <4>2. ch \in Creates(Given) /\ ~(ch.new \subseteq T)
        BY <2>3, <4>1 DEF Creates
      <4> QED BY <2>5, <4>2
    <3> QED BY <3>1, <3>2
  <2>7. todo = Creates(Given \ T)
    BY <2>6
  <2> QED BY <1>3, <2>1, <2>7 DEF todo
<1> QED BY <1>2, <1>3

\* Nothing done: no change is made, and the table is as before.
LEMMA NothingMade ==
  ASSUME IsTable(table)
  PROVE  Effected!Made({}) = table
<1>1. Creates({}) = {}
  BY DEF Creates
<1>2. Effected!Made(Creates({})) =
        [r \in DOMAIN table \cup {} |->
           (IF r \in DOMAIN table THEN table[r] ELSE 0) + (IF r \in {} THEN 1 ELSE 0)]
  BY MadeOfCreates
<1>3. \A r \in DOMAIN table : table[r] \in Nat
  BY DEF IsTable
<1>4. [r \in DOMAIN table \cup {} |->
         (IF r \in DOMAIN table THEN table[r] ELSE 0) + (IF r \in {} THEN 1 ELSE 0)]
        = [r \in DOMAIN table |-> table[r]]
  BY <1>3
<1> QED BY <1>1, <1>2, <1>4 DEF IsTable

\* The changes that are made, and those of them that are left.
LEMMA CreatesWithout ==
  ASSUME NEW S, NEW T
  PROVE  Creates(S \ T) = Creates(S) \ Creates(T)
<1> DEFINE change(r) == [old |-> {}, new |-> {r}]
<1>1. /\ \A r : change(r) \in Creates(T) <=> r \in T
      /\ \A r : change(r) \in Creates(S \ T) <=> r \in S \ T
      /\ \A ch \in Creates(S) : \E r \in S : ch = change(r)
      /\ \A ch \in Creates(S \ T) : \E r \in S \ T : ch = change(r)
      /\ \A r : change(r) \in Creates(S) <=> r \in S
  BY CreatesIs
<1> HIDE DEF change
<1>2. \A ch : ch \in Creates(S \ T) <=> ch \in Creates(S) /\ ch \notin Creates(T)
  BY <1>1
<1> QED BY <1>2

\* Each step of an INSERT is a step of the abstract statement, or none.
LEMMA EffectStep ==
  ASSUME FlowInv, WriteInv, LifeInv, [Next]_vars, WritesRows(c)
  PROVE  [Effected!Next]_(Effected!vars)
<1> USE DEF local
<1>0. c \in Cases /\ c.stmt.op = "insert" /\ IsTable(table)
  BY DEF WriteInv, WritesRows
<1>1. /\ DOMAIN table \subseteq c.rows \cup Given
      /\ c.stmt.explain => contexts = 0
      /\ ~c.stmt.explain /\ phase = "open" => contexts = 1 /\ c.w \in Writers /\ KeepsRows(c.w, inst)
      /\ ~c.stmt.explain /\ phase \in {"plan", "begin", "open", "ending"} =>
           Flows(inst, request, Coming(pos), DOMAIN table)
      /\ phase = "ending" => Kept(inst) \cup Coming(pos) = {} /\ c.w \notin Retrying
  BY DEF FlowInv
<1>2. phase \in {"plan", "begin", "open", "ending", "done", "failed"}
  BY DEF LifeInv
<1>3. /\ c.stmt.explain => Changes = {} /\ Outstanding = {}
      /\ ~c.stmt.explain => Changes = Creates(Given) /\ Outstanding = Creates(Given \ DOMAIN table)
  <2>1. c.stmt.explain => Changes = {}
    BY <1>0, TodoIs
  <2>2. ~c.stmt.explain => Changes = Creates(Given)
    BY <1>0, TodoIs
  <2>3. ~c.stmt.explain =>
          {ch \in Changes : IF ch.old = {} THEN ~(ch.new \subseteq DOMAIN table)
                            ELSE ch.old \subseteq DOMAIN table} = Creates(Given \ DOMAIN table)
    BY <1>0, TodoIs
  <2> QED BY <2>1, <2>2, <2>3 DEF Outstanding
<1>4. ASSUME c' = c
      PROVE  /\ Changes' = Changes /\ (c.w \in Retrying)' = (c.w \in Retrying)
             /\ c.stmt.explain => Outstanding' = {}
             /\ ~c.stmt.explain => Outstanding' = Creates(Given \ DOMAIN table')
  <2>1. Changes' = Changes /\ (c.w \in Retrying)' = (c.w \in Retrying)
    BY <1>4 DEF Changes, Target, Chosen
  <2>2. Outstanding' = {ch \in Changes : IF ch.old = {} THEN ~(ch.new \subseteq DOMAIN table')
                                         ELSE ch.old \subseteq DOMAIN table'}
    BY <2>1 DEF Outstanding
  <2>3. ~c.stmt.explain =>
          {ch \in Changes : IF ch.old = {} THEN ~(ch.new \subseteq DOMAIN table')
                            ELSE ch.old \subseteq DOMAIN table'} = Creates(Given \ DOMAIN table')
    BY <1>0, TodoIs
  <2> QED BY <1>3, <2>1, <2>2, <2>3
<1>5. ASSUME UNCHANGED <<c, table, phase>> PROVE UNCHANGED Effected!vars
  <2>1. Outstanding' = Outstanding
    BY <1>3, <1>4, <1>5
  <2> QED BY <1>4, <1>5, <2>1 DEF Effected!vars
\* A step that writes the changes in S without finishing the statement.
<1>6. ASSUME c' = c, phase \notin {"done", "failed"}, phase' # "done",
             NEW S, S \subseteq Outstanding, Outstanding' = Outstanding \ S, table' = Effected!Made(S)
      PROVE  Effected!Write
  BY <1>4, <1>6, Zenon DEF Effected!Write
\* One that fails, or goes on, with the table as it is.
<1>7. ASSUME UNCHANGED <<c, table>>, phase \notin {"done", "failed"}, phase' # "done"
      PROVE  Effected!Write
  <2>1. Outstanding' = Outstanding \ {}
    BY <1>3, <1>4, <1>7
  <2>2. table' = Effected!Made({})
    BY <1>0, <1>7, NothingMade
  <2> QED BY <1>6, <1>7, <2>1, <2>2
\* One that finishes the statement.
<1>8. ASSUME c' = c, phase \notin {"done", "failed"}, phase' = "done",
             Outstanding' = {}, table' = Effected!Made(Outstanding)
      PROVE  Effected!WriteAndFinish
  BY <1>4, <1>8, Zenon DEF Effected!WriteAndFinish
<1>9. CASE PlanForeignModify
  <2>1. phase = "plan" /\ phase' \in {"failed", "begin"} /\ UNCHANGED <<c, table>>
    BY <1>9 DEF PlanForeignModify
  <2> QED BY <1>7, <2>1 DEF Effected!Next
<1>10. CASE BeginForeignModify
  <2>1. phase = "begin" /\ phase' \in {"failed", "open"} /\ UNCHANGED <<c, table>>
    BY <1>10 DEF BeginForeignModify
  <2> QED BY <1>7, <2>1 DEF Effected!Next
<1>11. CASE ExecForeignInsert
  <2>1. phase = "open" /\ UNCHANGED <<c, table>> /\ Handles(insert(c.stmt.rows[pos]))
    BY <1>11 DEF ExecForeignInsert
  <2>2. phase' \in {"open", "failed"}
    <3>1. PICK res : res.err \in Outcomes /\ Handles(res)
      BY <2>1, InsertOutcomes
    <3> QED BY <2>1, <3>1 DEF Handles, DropState, Unwind, Outcomes
  <2> QED BY <1>7, <2>1, <2>2 DEF Effected!Next
<1>12. CASE FetchPage \/ ExecForeignUpdate \/ ExecForeignDelete
  BY <1>0, <1>12 DEF FetchPage, ExecForeignUpdate, ExecForeignDelete
<1>13. CASE RemoteWrites
  <2> DEFINE A == Range(request.rows)
             D == DOMAIN table
  <2>1. ~Idle /\ table' = Effect(request) /\ UNCHANGED <<c, pos>> /\ phase \in {"open", "ending"}
        /\ contexts = 1
    BY <1>13 DEF RemoteWrites, LifeInv
  <2>2. ~c.stmt.explain /\ Flows(inst, request, Coming(pos), D)
    BY <1>1, <2>1
  <2>3. table' = Effected!Made(Creates(A)) /\ DOMAIN table' = D \cup A /\ A \subseteq Given
    BY <1>0, <1>1, <2>1, <2>2, AsksForNew
  <2>4. phase' \in {"open", "ending", "failed"} \/ (phase = "ending" /\ phase' = "done")
    BY <1>13, <2>1 DEF RemoteWrites, Answered, SendAgain, GivesUp, DropState
  <2>5. Outstanding = Creates(Given \ D) /\ Outstanding' = Creates(Given \ (D \cup A))
    BY <1>3, <1>4, <2>1, <2>2, <2>3
  <2>6. CASE A \cap D = {} /\ phase' # "done"
    <3>1. Outstanding' = Outstanding \ Creates(A)
      <4>1. Given \ (D \cup A) = (Given \ D) \ A
        OBVIOUS
      <4> HIDE DEF A, D
      <4> QED BY <2>5, <4>1, CreatesWithout
    <3>2. Creates(A) \subseteq Outstanding
      <4>1. A \subseteq Given \ D
        BY <2>3, <2>6
      <4> HIDE DEF A, D
      <4> QED BY <2>5, <4>1 DEF Creates
    <3> HIDE DEF A, D
    <3> QED BY <1>6, <2>1, <2>3, <2>6, <3>1, <3>2 DEF Effected!Next
  <2>7. CASE A \cap D # {}
    <3>1. c.w \in Retrying /\ Len(request.rows) <= 1
      BY <2>2, <2>7 DEF Flows
    <3>2. PICK r : r \in A \cap D
      BY <2>7
    <3>3. A = {r}
      <4>1. request.rows \in Seq(Rows)
        BY DEF WriteInv, IsRequest
      <4>2. \A i, j \in DOMAIN request.rows : i = j
        BY <3>1, <4>1
      <4> QED BY <3>2, <4>2 DEF Range
    <3>4. r \in Given \cap D
      BY <2>3, <3>2
    <3>5. phase = "open" /\ phase' # "done"
      BY <1>1, <2>1, <2>4, <3>1
    <3> HIDE DEF A, D
    <3> DEFINE ch == [old |-> {}, new |-> {r}]
    <3>6. ch \in Changes \ Outstanding /\ ch.old = {}
      <4>1. ch \in Creates(Given)
        BY <3>4 DEF Creates
      <4>2. ch \notin Creates(Given \ D)
        <5>1. ch \in Creates(Given \ D) <=> r \in Given \ D
          BY CreatesIs
        <5> QED BY <3>4, <5>1
      <4>3. Changes = Creates(Given) /\ Outstanding = Creates(Given \ D)
        BY <1>3, <2>2, <2>5
      <4>4. ch.old = {}
        OBVIOUS
      <4> HIDE DEF ch
      <4> QED BY <4>1, <4>2, <4>3, <4>4
    <3>7. Creates(A) = {ch}
      BY <3>3 DEF Creates
    <3>8. Outstanding' = Outstanding
      <4>1. D \cup A = D
        BY <3>3, <3>4
      <4> QED BY <2>5, <4>1
    <3>9. table' = Effected!Made({ch})
      BY <2>3, <3>7
    <3> HIDE DEF ch
    <3>10. Effected!Repeat
      BY <1>4, <2>1, <3>1, <3>5, <3>6, <3>8, <3>9, Zenon DEF Effected!Repeat
    <3> QED BY <3>10 DEF Effected!Next
  <2>8. CASE A \cap D = {} /\ phase' = "done"
    <3>1. Given \ (D \cup A) = {}
      BY <1>1, <2>2, <2>4, <2>8 DEF Flows
    <3>2. Given \ D = A
      BY <2>3, <2>8, <3>1
    <3>3. Outstanding' = {} /\ Outstanding = Creates(A)
      <4> HIDE DEF A, D
      <4>1. Creates({}) = {}
        BY DEF Creates
      <4> QED BY <2>5, <3>1, <3>2, <4>1
    <3> HIDE DEF A, D
    <3> QED BY <1>8, <2>1, <2>3, <2>8, <3>3 DEF Effected!Next
  <2> QED BY <2>6, <2>7, <2>8
<1>14. CASE RemoteRefuses
  <2>1. phase \in {"open", "ending"} /\ UNCHANGED <<c, table>> /\ phase' \in {"open", "ending", "failed"}
    BY <1>14 DEF RemoteRefuses, SendAgain, DropState, LifeInv
  <2> QED BY <1>7, <2>1 DEF Effected!Next
<1>15. CASE EndForeignModify
  <2>1. phase = "open" /\ request = NoRequest /\ UNCHANGED <<c, table>> /\ pos \in Nat
    BY <1>15 DEF EndForeignModify, Idle, WriteInv
  <2>2. ASSUME phase' = "done" PROVE Outstanding = {}
    <3>1. CASE c.stmt.explain
      BY <1>3, <3>1
    <3>2. CASE ~c.stmt.explain
      <4> DEFINE res == end_modify
      <4>1. contexts = 1 /\ Flows(inst, NoRequest, Coming(pos), DOMAIN table) /\ KeepsRows(c.w, inst)
        BY <1>1, <2>1, <3>2
      <4>2. Coming(pos) = {}
        <5>1. pos > Len(c.stmt.rows) /\ Len(c.stmt.rows) \in Nat
          BY <1>0, <1>15, <4>1, CaseIs DEF EndForeignModify
        <5>2. pos..Len(c.stmt.rows) = {}
          BY <2>1, <5>1
        <5> QED BY <5>2 DEF Coming
      <4>3. res.err = "ok" /\ res.ask = NoRequest
        BY <1>15, <2>2, <4>1 DEF EndForeignModify, DropState
      <4>4. InstanceOf(c, Given, inst) /\ KeptOnce(inst)
        BY <2>1, <4>1 DEF WriteInv, Flows
      <4>5. Kept(res.inst) = {} /\ Passes(Kept(inst), res)
        BY <4>1, <4>3, <4>4, EndPasses
      <4> HIDE DEF res
      <4>6. Kept(inst) = {}
        BY <4>3, <4>5, NothingAsked DEF Passes
      <4>7. Given \ DOMAIN table = {}
        BY <4>1, <4>2, <4>6, NothingAsked DEF Flows
      <4> QED BY <1>3, <3>2, <4>7 DEF Creates
    <3> QED BY <3>1, <3>2
  <2>3. CASE phase' = "done"
    <3>1. Outstanding' = {} /\ table' = Effected!Made(Outstanding)
      <4>1. Outstanding = {} /\ Effected!Made({}) = table
        BY <1>0, <2>2, <2>3, NothingMade
      <4>2. Outstanding' = Outstanding
        BY <1>3, <1>4, <2>1
      <4> QED BY <2>1, <4>1, <4>2
    <3> QED BY <1>8, <2>1, <2>3, <3>1 DEF Effected!Next
  <2>4. CASE phase' # "done"
    BY <1>7, <2>1, <2>4 DEF Effected!Next
  <2> QED BY <2>3, <2>4
<1>16. CASE AbortElsewhere
  <2>1. phase = "open" /\ phase' = "failed" /\ UNCHANGED <<c, table>>
    BY <1>16 DEF AbortElsewhere, Unwind
  <2> QED BY <1>7, <2>1 DEF Effected!Next
<1>17. CASE RivalDeletes
  <2>1. PICK id \in c.rivals \cap Ids : table' = Without({id})
    BY <1>17 DEF RivalDeletes
  <2>2. UNCHANGED <<c, phase>> /\ phase \notin {"done", "failed"}
    BY <1>17 DEF RivalDeletes
  <2>3. PICK r \in DOMAIN table : r.id = id
    BY <2>1 DEF Ids
  <2>4. r \notin Given
    <3>1. \A x \in Given : x.id \notin c.rivals
      BY <1>0, GivenRows
    <3> QED BY <2>1, <2>3, <3>1
  <2>5. {x \in DOMAIN table : x.id \notin {id}} = DOMAIN table \ {r}
    <3>1. \A x \in Given : x.id \notin c.rivals
      BY <1>0, GivenRows
    <3>2. \A x \in c.rows : x.id = r.id => x = r
      BY <1>1, <2>3, <2>4 DEF WritesRows
    <3> QED BY <1>1, <2>1, <2>3, <3>1, <3>2
  <2>6. table' = [x \in DOMAIN table \ {r} |-> table[x]]
    BY <2>1, <2>5 DEF Without
  <2>7. DOMAIN table' = DOMAIN table \ {r}
    BY <2>6
  <2>8. Outstanding' = Outstanding
    <3>1. Given \ DOMAIN table' = Given \ DOMAIN table
      BY <2>4, <2>7
    <3> QED BY <1>3, <1>4, <2>2, <3>1
  <2>9. Outstanding = {ch \in Outstanding : r \notin ch.old}
    <3>1. \A ch \in Creates(Given \ DOMAIN table) : ch.old = {}
      BY DEF Creates
    <3> QED BY <1>3, <3>1
  <2>10. Effected!LosesRow
    BY <1>4, <2>2, <2>3, <2>6, <2>8, <2>9, Zenon DEF Effected!LosesRow
  <2> QED BY <2>10 DEF Effected!Next
<1>18. CASE Finished \/ UNCHANGED vars
  <2>1. UNCHANGED <<c, table, phase>>
    BY <1>18 DEF Finished, vars
  <2> QED BY <1>5, <2>1
<1> QED BY <1>9, <1>10, <1>11, <1>12, <1>13, <1>14, <1>15, <1>16, <1>17, <1>18 DEF Next

\* A behaviour is one statement.
LEMMA SameStatement ==
  ASSUME [Next]_vars
  PROVE  c' = c
<1> USE DEF local
<1>1. CASE PlanForeignModify \/ BeginForeignModify \/ ExecForeignInsert \/ FetchPage
  BY <1>1 DEF PlanForeignModify, BeginForeignModify, ExecForeignInsert, FetchPage
<1>2. CASE ExecForeignUpdate \/ ExecForeignDelete
  BY <1>2 DEF ExecForeignUpdate, ExecForeignDelete, TakesRow
<1>3. CASE RemoteWrites \/ RemoteRefuses
  BY <1>3 DEF RemoteWrites, RemoteRefuses
<1>4. CASE EndForeignModify \/ AbortElsewhere \/ RivalDeletes
  BY <1>4 DEF EndForeignModify, AbortElsewhere, RivalDeletes
<1>5. CASE Finished \/ UNCHANGED vars
  BY <1>5 DEF Finished, vars
<1> QED BY <1>1, <1>2, <1>3, <1>4, <1>5 DEF Next

\* For every INSERT, in whatever batches or buffers its wrapper gathers rows,
\* with requests refused, answers lost and requests sent again, while others
\* delete rows: each of its rows is created, once unless the client sends again,
\* and none but its rows; success is reported only when all are there.
THEOREM InsertsImplement == Spec => (WritesRows(c) => Implements)
<1> DEFINE Inv == FlowInv /\ WriteInv /\ LifeInv /\ WritesRows(c)
<1>1. ASSUME Init, WritesRows(c) PROVE FlowInv /\ Effected!Init
  <2>1. c \in Cases /\ phase = "plan" /\ DOMAIN table = c.rows
    BY <1>1 DEF Init, SetToBag
  <2>2. Outstanding = Changes
    <3>1. c.stmt.explain => Changes = {}
      BY <1>1, <2>1, TodoIs
    <3>2. ~c.stmt.explain => Changes = Creates(Given)
      BY <1>1, <2>1, TodoIs
    <3>3. ~c.stmt.explain =>
          {ch \in Changes : IF ch.old = {} THEN ~(ch.new \subseteq DOMAIN table)
                            ELSE ch.old \subseteq DOMAIN table} = Creates(Given \ DOMAIN table)
      BY <1>1, <2>1, TodoIs
    <3>4. Given \ DOMAIN table = Given
      BY <1>1, <2>1, GivenRows
    <3> QED BY <3>1, <3>2, <3>3, <3>4 DEF Outstanding
  <2> QED BY <1>1, <2>1, <2>2, FlowInvInit DEF Effected!Init
<1>2. Init /\ WritesRows(c) => Inv /\ Effected!Init
  BY <1>1, WriteInvInit, LifeInvInit
<1>3. Inv /\ [Next]_vars => Inv' /\ [Effected!Next]_(Effected!vars)
  <2> SUFFICES ASSUME Inv, [Next]_vars PROVE Inv' /\ [Effected!Next]_(Effected!vars)
    OBVIOUS
  <2>1. WriteInv' /\ LifeInv'
    BY WriteInvStep, LifeInvStep
  <2>2. WritesRows(c)'
    BY SameStatement DEF WritesRows
  <2> QED BY <2>1, <2>2, FlowInvStep, EffectStep
<1> HIDE DEF Inv
<1> QED BY <1>2, <1>3, PTL DEF Spec, Implements, Effected!Spec

-----------------------------------------------------------------------------
(* The pages of a scan.                                                    *)

\* Sorting lists the elements again, each once.
LEMMA SortLists ==
  ASSUME NEW S, NEW s \in Seq(S), NEW less, IsWeakOrder(less, DOMAIN s), Distinct(s)
  PROVE  Distinct(StableSort(s, less)) /\ Range(StableSort(s, less)) = Range(s)
<1> DEFINE D == DOMAIN s
           place(j) == Cardinality(UpTo(D, less, j))
           of(m) == CHOOSE j \in D : place(j) = m
           sorted == StableSort(s, less)
<1>1. D = 1..Len(s) /\ Len(s) \in Nat
  OBVIOUS
<1>2. sorted = [m \in D |-> s[of(m)]]
  BY DEF StableSort, UpTo
<1>3. ASSUME NEW m \in D PROVE of(m) \in D /\ place(of(m)) = m
  <2> HIDE DEF D
  <2>1. IsWeakOrder(less, 1..Len(s)) /\ m \in 1..Len(s) /\ Len(s) \in Nat
    BY <1>1 DEF D
  <2>2. \E j \in 1..Len(s) : Cardinality(UpTo(1..Len(s), less, j)) = m
    BY <2>1, PlacesTaken
  <2>3. \E j \in D : place(j) = m
    BY <2>2, <1>1
  <2> QED BY <2>3, ZenonT(40)
<1>4. IsFiniteSet(D) /\ Cardinality(D) = Len(s)
  BY <1>1, FS_Interval, SMTT(30)
<1> HIDE DEF of, place, D
<1> DEFINE o == [m \in D |-> of(m)]
<1>5. o \in Injection(D, D)
  <2>1. o \in [D -> D]
    BY <1>3
  <2>2. ASSUME NEW m \in D, NEW n \in D, o[m] = o[n] PROVE m = n
    BY <1>3, <2>2
  <2>3. DOMAIN o = D
    OBVIOUS
  <2> HIDE DEF o
  <2>4. IsInjective(o)
    BY <2>2, <2>3, Zenon DEF IsInjective
  <2> QED BY <2>1, <2>4 DEF Injection
<1>6. o \in Surjection(D, D)
  <2> HIDE DEF o
  <2> QED BY <1>4, <1>5, FS_Injection
<1>7. \A j \in D : \E m \in D : of(m) = j
  <2>1. \A j \in D : \E m \in D : o[m] = j
    <3> HIDE DEF o
    <3> QED BY <1>6 DEF Surjection
  <2> QED BY <2>1
<1>8. DOMAIN sorted = D /\ \A m \in D : sorted[m] = s[of(m)]
  BY <1>2
<1> HIDE DEF sorted, o
<1>9. Range(sorted) = Range(s)
  <2>1. Range(s) = {s[j] : j \in D} /\ Range(sorted) = {sorted[m] : m \in D}
    BY <1>8 DEF Range, D
  <2> QED BY <1>3, <1>7, <1>8, <2>1
<1>10. Distinct(sorted)
  <2> SUFFICES ASSUME NEW m \in D, NEW n \in D, sorted[m] = sorted[n] PROVE m = n
    BY <1>8 DEF Distinct
  <2>1. of(m) \in D /\ of(n) \in D /\ s[of(m)] = s[of(n)]
    BY <1>3, <1>8
  <2>2. of(m) = of(n)
    BY <2>1 DEF Distinct, D
  <2> QED BY <1>3, <2>2
<1> QED BY <1>9, <1>10 DEF sorted

\* Of any two elements of s the one later in s is not below the other.
Ascending(s) == \A i, j \in DOMAIN s : i < j => ~Below(s[j].id, s[i].id)

LEMMA SortedTableIs ==
  ASSUME IsTable(table)
  PROVE  /\ SortedTable \in Seq(Rows) /\ Range(SortedTable) = DOMAIN table
         /\ Distinct(SortedTable) /\ Ascending(SortedTable)
<1> DEFINE rows == SetToSeq(BagToSet(table))
           less == {p \in (DOMAIN rows) \X (DOMAIN rows) : Below(rows[p[1]].id, rows[p[2]].id)}
<1>1. IsFiniteSet(DOMAIN table) /\ DOMAIN table \subseteq Rows /\ BagToSet(table) = DOMAIN table
  BY DEF IsTable, BagToSet
<1>2. rows \in Seq(DOMAIN table) /\ Distinct(rows) /\ Range(rows) = DOMAIN table
  BY <1>1, ListsOnce
<1>3. rows \in Seq(Rows)
  <2> HIDE DEF rows
  <2> QED BY <1>1, <1>2
<1>4. SortedTable = StableSort(rows, less)
  BY DEF SortedTable
<1> HIDE DEF rows
<1>5. ASSUME NEW n \in DOMAIN rows PROVE rows[n].id \in Nat \cup {Null}
  <2>1. rows[n] \in Rows
    BY <1>3
  <2> QED BY <2>1 DEF Rows
<1>6. \A i, j \in DOMAIN rows : <<i, j>> \in less <=> Below(rows[i].id, rows[j].id)
  OBVIOUS
<1> HIDE DEF less
<1>7. IsWeakOrder(less, DOMAIN rows)
  <2>1. ASSUME NEW i \in DOMAIN rows, NEW j \in DOMAIN rows PROVE <<i, j>> \in less => <<j, i>> \notin less
    <3> DEFINE a == rows[i].id
               b == rows[j].id
    <3>1. a \in Nat \cup {Null} /\ b \in Nat \cup {Null}
      BY <1>5
    <3> HIDE DEF a, b
    <3>2. Below(a, b) => ~Below(b, a)
      BY <3>1, IdsOrdered
    <3> QED BY <1>6, <3>2 DEF a, b
  <2>2. ASSUME NEW i \in DOMAIN rows, NEW j \in DOMAIN rows, NEW k \in DOMAIN rows
        PROVE  <<i, k>> \in less => <<i, j>> \in less \/ <<j, k>> \in less
    <3> DEFINE a == rows[i].id
               b == rows[j].id
               d == rows[k].id
    <3>1. a \in Nat \cup {Null} /\ b \in Nat \cup {Null} /\ d \in Nat \cup {Null}
      BY <1>5
    <3> HIDE DEF a, b, d
    <3>2. Below(a, d) => Below(a, b) \/ Below(b, d)
      BY <3>1, IdsOrdered
    <3> QED BY <1>6, <3>2 DEF a, b, d
  <2> QED BY <2>1, <2>2 DEF IsWeakOrder
<1>8. /\ SortedTable \in [1..Len(rows) -> Rows] /\ Len(rows) \in Nat
      /\ InOrder(rows, less, SortedTable)
  BY <1>3, <1>4, <1>7, StableSortSorts
<1>9. Distinct(SortedTable) /\ Range(SortedTable) = DOMAIN table
  BY <1>2, <1>3, <1>4, <1>7, SortLists
<1>10. SortedTable \in Seq(Rows) /\ DOMAIN SortedTable = 1..Len(rows)
  BY <1>8
<1>11. ASSUME NEW m \in 1..Len(rows), NEW n \in 1..Len(rows), m < n
       PROVE  ~Below(SortedTable[n].id, SortedTable[m].id)
  <2>1. PICK i, j \in DOMAIN rows : SortedTable[m] = rows[i] /\ SortedTable[n] = rows[j] /\ <<j, i>> \notin less
    BY <1>8, <1>11 DEF InOrder
  <2> QED BY <1>6, <2>1
<1> QED BY <1>9, <1>10, <1>11 DEF Ascending

\* What Only keeps of an ascending sequence ascends.
LEMMA OnlyAscends ==
  ASSUME NEW S, NEW s \in Seq(S), NEW T, Ascending(s)
  PROVE  Ascending(Only(s, T))
<1>1. PICK ch : Only(s, T) = ch[Len(s)] /\ Selects(s, T, ch, Len(s))
  BY OnlyIs
<1>2. Len(s) \in Nat /\ DOMAIN s = 1..Len(s)
  OBVIOUS
<1> DEFINE first(j) == {s[i] : i \in 1..j}
           Has == {j \in Nat : j <= Len(s) =>
                     ch[j] \in Seq(S) /\ Range(ch[j]) \subseteq first(j) /\ Ascending(ch[j])}
<1>3. 0 \in Has
  <2>1. ch[0] = <<>>
    BY <1>1 DEF Selects
  <2>2. <<>> \in Seq(S) /\ DOMAIN <<>> = {}
    OBVIOUS
  <2>3. Range(ch[0]) = {} /\ Ascending(ch[0])
    BY <2>1, <2>2 DEF Range, Ascending
  <2> HIDE DEF first
  <2> QED BY <2>1, <2>2, <2>3
<1>4. ASSUME NEW j \in Nat, j \in Has PROVE j + 1 \in Has
  <2> SUFFICES ASSUME NEW m, m = j + 1, m <= Len(s)
               PROVE  ch[m] \in Seq(S) /\ Range(ch[m]) \subseteq first(m) /\ Ascending(ch[m])
    OBVIOUS
  <2>1. m \in 1..Len(s) /\ m - 1 = j /\ j <= Len(s) /\ 1..m = (1..j) \cup {m} /\ s[m] \in S
    BY <1>2
  <2>2. ch[m] = IF s[m] \in T THEN Append(ch[j], s[m]) ELSE ch[j]
    <3>1. ch[m] = IF s[m] \in T THEN Append(ch[m - 1], s[m]) ELSE ch[m - 1]
      BY <1>1, <2>1, Zenon DEF Selects
    <3> QED BY <2>1, <3>1, Zenon
  <2>3. ch[j] \in Seq(S) /\ Range(ch[j]) \subseteq first(j) /\ Ascending(ch[j])
    BY <1>4, <2>1
  <2>4. first(m) = first(j) \cup {s[m]}
    BY <2>1
  <2>5. ASSUME NEW x \in first(j) PROVE ~Below(s[m].id, x.id)
    <3>1. PICK i \in 1..j : x = s[i]
      OBVIOUS
    <3>2. i \in DOMAIN s /\ m \in DOMAIN s /\ i < m
      BY <1>2, <2>1
    <3> QED BY <3>1, <3>2 DEF Ascending
  <2> HIDE DEF first, Has
  <2>6. CASE s[m] \in T
    <3> DEFINE u == ch[j]
               a == Append(u, s[m])
    <3>1. ch[m] = a /\ a \in Seq(S)
      BY <2>1, <2>2, <2>3, <2>6
    <3>2. Range(a) = Range(u) \cup {s[m]}
      BY <2>1, <2>3, AppendDistinct
    <3>3. /\ Len(u) \in Nat /\ DOMAIN u = 1..Len(u) /\ DOMAIN a = 1..(Len(u) + 1)
          /\ \A i \in 1..Len(u) : a[i] = u[i] /\ u[i] \in Range(u)
          /\ a[Len(u) + 1] = s[m]
      BY <2>3 DEF Range
    <3> HIDE DEF u, a
    <3>4. ASSUME NEW i \in DOMAIN a, NEW k \in DOMAIN a, i < k PROVE ~Below(a[k].id, a[i].id)
      <4>1. i \in 1..Len(u) /\ (k \in 1..Len(u) \/ k = Len(u) + 1)
        BY <3>3, <3>4
      <4>2. CASE k \in 1..Len(u)
        BY <2>3, <3>3, <3>4, <4>1, <4>2 DEF Ascending, u
      <4>3. CASE k = Len(u) + 1
        BY <2>3, <2>5, <3>3, <4>1, <4>3 DEF u
      <4> QED BY <4>1, <4>2, <4>3
    <3>5. Ascending(a)
      BY <3>4 DEF Ascending
    <3>6. Range(u) \subseteq first(j)
      BY <2>3 DEF u
    <3> QED BY <2>4, <3>1, <3>2, <3>5, <3>6
  <2>7. CASE s[m] \notin T
    BY <2>2, <2>3, <2>4, <2>7
  <2> QED BY <2>6, <2>7
<1>5. Nat \subseteq Has
  <2> HIDE DEF Has
  <2> QED BY <1>3, <1>4, Inductive
<1>6. Len(s) \in Has
  BY <1>2, <1>5
<1>7. Ascending(ch[Len(s)])
  <2>1. Len(s) <= Len(s)
    BY <1>2
  <2> QED BY <1>6, <2>1
<1> QED BY <1>1, <1>7

\* A page is a list of rows, whole or its first PageSize rows.
LEMMA PageIs ==
  ASSUME NEW rows \in Seq(Rows)
  PROVE  /\ PageOf(rows) \in Seq(Rows) /\ Range(PageOf(rows)) \subseteq Range(rows)
         /\ \/ PageOf(rows) = rows /\ Len(rows) <= PageSize
            \/ /\ Len(PageOf(rows)) = PageSize /\ PageSize < Len(rows)
               /\ \A i \in 1..PageSize : PageOf(rows)[i] = rows[i]
<1> DEFINE n == Min({PageSize, Len(rows)})
<1>1. PageSize \in Nat /\ Len(rows) \in Nat
  BY ModifyAssumption
<1>2. DOMAIN rows = 1..Len(rows)
  OBVIOUS
<1>3. (n = PageSize \/ n = Len(rows)) /\ n <= Len(rows) /\ n <= PageSize
  <2>1. \E x \in {PageSize, Len(rows)} : \A y \in {PageSize, Len(rows)} : x <= y
    BY <1>1
  <2>2. n \in {PageSize, Len(rows)} /\ \A y \in {PageSize, Len(rows)} : n <= y
    BY <2>1 DEF Min
  <2> QED BY <2>2
<1>4. PageOf(rows) = SubSeq(rows, 1, n)
  BY DEF PageOf
<1> HIDE DEF n
<1>5. n \in Nat
  BY <1>1, <1>3
<1>6. PageOf(rows) \in Seq(Rows)
  BY PageRows
<1>7. Len(PageOf(rows)) = n /\ \A i \in 1..n : PageOf(rows)[i] = rows[i]
  BY <1>1, <1>3, <1>4
<1>8. Range(PageOf(rows)) \subseteq Range(rows)
  <2>1. DOMAIN PageOf(rows) = 1..n
    BY <1>6, <1>7
  <2>2. \A i \in 1..n : i \in DOMAIN rows
    BY <1>1, <1>3, <1>2
  <2> QED BY <1>7, <2>1, <2>2 DEF Range
<1>9. CASE n = PageSize /\ PageSize < Len(rows)
  BY <1>6, <1>7, <1>8, <1>9, <1>5
<1>10. CASE n = Len(rows)
  <2>1. PageOf(rows) = rows
    BY <1>1, <1>4, <1>10
  <2> QED BY <1>3, <1>6, <1>8, <1>10, <2>1
<1>11. n = PageSize /\ n # Len(rows) => PageSize < Len(rows)
  BY <1>1, <1>3
<1> QED BY <1>3, <1>9, <1>10, <1>11

-----------------------------------------------------------------------------
(* An UPDATE or DELETE changes its rows.                                   *)

\* Nothing is read yet.
Unread == scan.cnt = 0 /\ ~scan.end

\* The wrappers that ask for the rows after the last one they got.
Paging == {"mongodb", "dynamodb", "s3vectors", "paddle"}

\* A later page has r, unless others delete it.
Ahead(r) == Unread \/ (c.w \in Paging /\ ~scan.end /\ (scan.at = Null \/ Below(scan.at, r.id)))

\* What an UPDATE makes of rows.
Goals == IF c.stmt.op = "update" /\ c.stmt.column # "rowid" THEN {Target(r) : r \in Chosen} ELSE {}

\* r is there as it was.
Undone(r) == r \in DOMAIN table /\ (c.stmt.op = "update" => Target(r) # r)

\* q asks for the change of r.
AsksToChange(q, r) ==
  /\ q.id = r.id
  /\ IF c.stmt.op = "delete" THEN q.kind = "del"
     ELSE /\ c.stmt.column # "rowid" /\ q.cells = c.stmt.cells
          /\ q.kind = IF c.w = "dynamodb" THEN "upsert" ELSE "set"

\* Each row is there once, and its id too.
OneEach(T) == T = [r \in DOMAIN T |-> 1] /\ \A a, b \in DOMAIN T : a.id = b.id => a = b

\* Of two different row ids one is below the other.
LEMMA IdsTotal ==
  ASSUME NEW a \in Nat \cup {Null}, NEW b \in Nat, a # b, ~Below(b, a)
  PROVE  Below(a, b)
<1>1. Null \notin Int
  BY BatchAssumption
<1> QED BY <1>1 DEF Below

\* A row with at most PageSize rows up to it is on the first page.
LEMMA FirstPage ==
  ASSUME IsTable(table), NEW R, IsFiniteSet(R), DOMAIN table \subseteq R,
         NEW r \in DOMAIN table, r.id \in Nat,
         Cardinality({q \in R : ~Below(r.id, q.id)}) <= PageSize
  PROVE  r \in Range(PageOf(SortedTable))
<1> DEFINE s == SortedTable
           X == {q \in R : ~Below(r.id, q.id)}
<1>1. s \in Seq(Rows) /\ Range(s) = DOMAIN table /\ Distinct(s) /\ Ascending(s)
  BY SortedTableIs
<1>2. PICK i \in DOMAIN s : s[i] = r
  <2> HIDE DEF s
  <2>1. r \in Range(s)
    BY <1>1
  <2> QED BY <2>1 DEF Range
<1> HIDE DEF s
<1>3. i \in 1..Len(s) /\ i \in Nat /\ 1 <= i /\ \A j \in 1..i : j \in DOMAIN s /\ j \in Int /\ j <= i
  BY <1>1, <1>2
<1>4. ASSUME NEW j \in 1..i PROVE s[j] \in X
  <2>1. j \in DOMAIN s /\ s[j] \in R
    <3>1. s[j] \in Range(s)
      BY <1>3 DEF Range
    <3> QED BY <1>1, <1>3, <3>1
  <2>2. CASE j = i
    <3>1. ~(r.id < r.id) /\ r.id # Null
      BY BatchAssumption
    <3> QED BY <1>2, <2>1, <2>2, <3>1 DEF Below
  <2>3. CASE j # i
    <3>1. j < i
      BY <1>3, <2>3
    <3> QED BY <1>1, <1>2, <2>1, <3>1 DEF Ascending
  <2> QED BY <2>2, <2>3
<1> DEFINE f == [j \in 1..i |-> s[j]]
<1>5. f \in Injection(1..i, X)
  <2>1. f \in [1..i -> X]
    <3> HIDE DEF X
    <3> QED BY <1>4
  <2>2. \A j, k \in 1..i : f[j] = f[k] => j = k
    BY <1>1, <1>3 DEF Distinct
  <2>3. DOMAIN f = 1..i
    OBVIOUS
  <2> HIDE DEF f, X
  <2>4. IsInjective(f)
    BY <2>2, <2>3, Zenon DEF IsInjective
  <2> QED BY <2>1, <2>4 DEF Injection
<1>6. IsFiniteSet(X)
  <2>1. X \subseteq R
    OBVIOUS
  <2> HIDE DEF X
  <2> QED BY <2>1, FS_Subset
<1>7. Cardinality(1..i) = i
  BY <1>3, FS_Interval
<1>8. i <= Cardinality(X) /\ Cardinality(X) \in Nat
  <2> HIDE DEF X, f
  <2> QED BY <1>5, <1>6, <1>7, FS_Injection, FS_CardinalityType
<1>9. i <= PageSize
  <2>1. Cardinality(X) <= PageSize /\ PageSize \in Nat
    BY ModifyAssumption
  <2> HIDE DEF X
  <2> QED BY <1>3, <1>8, <2>1
<1>10. CASE PageOf(s) = s
  BY <1>2, <1>10 DEF Range, s
<1>11. CASE Len(PageOf(s)) = PageSize /\ \A j \in 1..PageSize : PageOf(s)[j] = s[j]
  <2>1. i \in 1..PageSize /\ PageSize \in Nat
    BY <1>3, <1>9, ModifyAssumption
  <2>2. PageOf(s) \in Seq(Rows)
    BY <1>1, PageIs
  <2>3. i \in DOMAIN PageOf(s) /\ PageOf(s)[i] = r
    BY <1>2, <1>11, <2>1, <2>2
  <2> QED BY <2>3 DEF Range, s
<1> QED BY <1>1, <1>10, <1>11, PageIs

\* A page of rows in order ends with r, or before it.
LEMMA PageEndsBefore ==
  ASSUME NEW rows \in Seq(Rows), Ascending(rows), NEW r \in Range(rows), r.id \in Nat,
         \A x \in Range(rows) : x.id = r.id => x = r, r \notin Range(PageOf(rows))
  PROVE  /\ Len(PageOf(rows)) = PageSize /\ PageOf(rows) # <<>>
         /\ Below(Last(PageOf(rows)).id, r.id)
<1> DEFINE p == PageOf(rows)
<1>1. p \in Seq(Rows)
  BY PageIs
<1>2. /\ Len(p) = PageSize /\ PageSize < Len(rows)
      /\ \A i \in 1..PageSize : p[i] = rows[i]
  BY PageIs
<1> HIDE DEF p
<1>3. PageSize \in Nat /\ PageSize # 0 /\ Len(rows) \in Nat
  BY ModifyAssumption
<1>4. PICK i \in DOMAIN rows : rows[i] = r
  BY DEF Range
<1>5. DOMAIN rows = 1..Len(rows) /\ DOMAIN p = 1..PageSize
  BY <1>1, <1>2
<1>6. PageSize \in 1..PageSize /\ PageSize \in DOMAIN rows
  BY <1>2, <1>3, <1>5
<1>7. PageSize < i
  <2> SUFFICES ASSUME ~(PageSize < i) PROVE FALSE
    OBVIOUS
  <2>1. i \in 1..PageSize
    BY <1>3, <1>4, <1>5
  <2>2. p[i] = r /\ i \in DOMAIN p
    BY <1>2, <1>4, <1>5, <2>1
  <2> QED BY <2>2 DEF Range, p
<1> DEFINE last == rows[PageSize]
<1>8. Last(p) = last /\ p # <<>>
  <2>1. Last(p) = p[PageSize]
    BY <1>2 DEF Last
  <2>2. p # <<>>
    BY <1>2, <1>3
  <2> QED BY <1>2, <1>6, <2>1, <2>2
<1>9. ~Below(r.id, last.id)
  BY <1>4, <1>6, <1>7 DEF Ascending
<1>10. last \in Range(rows) /\ last \in Rows /\ last \in Range(p)
  BY <1>2, <1>5, <1>6 DEF Range
<1>11. last.id # r.id /\ last.id \in Nat \cup {Null}
  BY <1>10 DEF Rows, p
<1> HIDE DEF last
<1>12. Below(last.id, r.id)
  BY <1>9, <1>11, IdsTotal
<1> QED BY <1>2, <1>8, <1>12 DEF p

\* A row ahead of the scan is on the page that is fetched, or behind it.
LEMMA PageReaches ==
  ASSUME c \in Cases, ChangesRows(c), IsTable(table),
         \A a, b \in DOMAIN table : a.id = b.id => a = b,
         Unread => scan.at = Null /\ DOMAIN table \subseteq c.rows,
         NEW r \in Chosen, r \in DOMAIN table, Ahead(r), r \notin Range(NextPage)
  PROVE  /\ c.w \in Paging /\ Len(NextPage) = PageSize /\ NextPage # <<>>
         /\ Below(Last(NextPage).id, r.id)
<1> DEFINE later == {x \in DOMAIN table : scan.at = Null \/ Below(scan.at, x.id)}
           kept == Only(SortedTable, later)
<1>1. /\ SortedTable \in Seq(Rows) /\ Range(SortedTable) = DOMAIN table /\ Ascending(SortedTable)
  BY SortedTableIs
<1>2. r \in Rows /\ r \in c.rows /\ r.id \in c.stmt.ids \ {Null} /\ r.id \in Nat
  <2>1. r \in c.rows /\ r.id \in c.stmt.ids \ {Null}
    BY DEF Chosen
  <2> QED BY <2>1, CaseIs DEF Rows
<1>3. CASE c.w \in Paging
  <2>1. NextPage = PageOf(kept)
    BY <1>3 DEF NextPage, Paging
  <2>2. r \in later
    BY DEF Ahead
  <2>3. kept \in Seq(Rows) /\ Range(kept) = Range(SortedTable) \cap later /\ Ascending(kept)
    <3> HIDE DEF later
    <3> QED BY <1>1, OnlyDistinct, OnlyAscends
  <2> HIDE DEF kept, later
  <2>4. r \in Range(kept) /\ \A x \in Range(kept) : x.id = r.id => x = r
    BY <1>1, <2>2, <2>3
  <2>5. r \notin Range(PageOf(kept))
    BY <2>1
  <2> QED BY <1>2, <1>3, <2>1, <2>3, <2>4, <2>5, PageEndsBefore
<1>4. CASE c.w \in {"clerk", "orb"}
  <2>1. Unread
    BY <1>4 DEF Ahead, Paging
  <2>2. NextPage = PageOf(SortedTable)
    <3>1. c.w = "clerk" => NextPage = PageOf(SubSeq(SortedTable, scan.cnt + 1, Len(SortedTable)))
      BY DEF NextPage
    <3>2. SubSeq(SortedTable, scan.cnt + 1, Len(SortedTable)) = SortedTable
      <4>1. scan.cnt + 1 = 1
        BY <2>1 DEF Unread
      <4> QED BY <1>1, <4>1
    <3>3. c.w = "orb" => NextPage = PageOf(SortedTable)
      BY DEF NextPage
    <3> QED BY <1>4, <3>1, <3>2, <3>3
  <2>3. Cardinality({q \in c.rows : ~Below(r.id, q.id)}) <= PageSize
    BY <1>2, <1>4 DEF ChangesRows
  <2>4. IsFiniteSet(c.rows) /\ DOMAIN table \subseteq c.rows
    BY <2>1, CaseIs
  <2>5. r \in Range(PageOf(SortedTable))
    BY <1>2, <2>3, <2>4, FirstPage
  <2> QED BY <2>2, <2>5
<1>5. CASE c.w \notin Paging \cup {"clerk", "orb"}
  <2>1. NextPage = SortedTable
    BY <1>5 DEF NextPage, Paging
  <2> QED BY <1>1, <2>1
<1> QED BY <1>3, <1>4, <1>5

\* A list of one value.
LEMMA OneValueIs ==
  ASSUME NEW S, NEW s \in Seq(S), Len(s) = 1
  PROVE  s # <<>> /\ s = <<s[1]>> /\ DOMAIN s = {1} /\ s[1] \in S
<1>1. DOMAIN s = 1..1 /\ s # <<>>
  OBVIOUS
<1>2. 1..1 = {1} /\ 1 \in 1..1
  OBVIOUS
<1>3. s[1] \in S
  OBVIOUS
<1> DEFINE v == s[1]
<1>4. s = [i \in {1} |-> v] /\ <<v>> = [i \in {1} |-> v]
  OBVIOUS
<1> QED BY <1>1, <1>2, <1>3, <1>4

\* One cell that is not NULL stays.
LEMMA OneCell ==
  ASSUME NEW cells \in Seq(Int \cup {Null}), Len(cells) = 1, cells # <<Null>>
  PROVE  WithoutNulls(cells) = cells
<1> DEFINE T == Range(cells) \ {Null}
           v == cells[1]
<1>1. DOMAIN cells = {1} /\ cells = <<v>>
  OBVIOUS
<1>2. v # Null
  BY <1>1
<1>3. v \in T
  BY <1>1, <1>2 DEF Range
<1> HIDE DEF T
<1>4. PICK ch : Only(cells, T) = ch[Len(cells)] /\ Selects(cells, T, ch, Len(cells))
  BY OnlyIs
<1>5. /\ ch[0] = <<>>
      /\ ch[1] = IF cells[1] \in T THEN Append(ch[1 - 1], cells[1]) ELSE ch[1 - 1]
  <2>1. 1 \in 1..Len(cells)
    OBVIOUS
  <2> QED BY <1>4, <2>1, Zenon DEF Selects
<1>6. 1 - 1 = 0
  OBVIOUS
<1>7. ch[1] = Append(<<>>, v)
  BY <1>3, <1>5, <1>6, Zenon
<1> HIDE DEF v
<1>8. Append(<<>>, v) = <<v>>
  OBVIOUS
<1> QED BY <1>1, <1>4, <1>7, <1>8 DEF WithoutNulls, T

\* An UPDATE that goes on asks for the cells of its statement; it does not go
\* on when it assigns the rowid column.
LEMMA UpdateAsks ==
  ASSUME c \in Cases, ChangesRows(c), c.stmt.op = "update", c.w \in Writers,
         NEW id, update(id, new_row).err = "ok"
  PROVE  /\ c.stmt.column # "rowid" /\ update(id, new_row).inst = inst
         /\ update(id, new_row).ask =
              Request(IF c.w = "dynamodb" THEN "upsert" ELSE "set", <<>>, id, c.stmt.cells)
<1> DEFINE cells == c.stmt.cells
           made == [n \in DOMAIN cells |->
                      IF c.col = "text" /\ cells[n] = TextNull THEN Null ELSE cells[n]]
           kind == IF c.w = "dynamodb" THEN "upsert" ELSE "set"
           Right(res) == res.inst = inst /\ res.ask = Request(kind, <<>>, id, cells)
           Fine(res) == res.err = "ok" => c.stmt.column # "rowid" /\ Right(res)
<1>1. /\ cells \in Seq(Int \cup {Null}) /\ Len(cells) = 1
      /\ c.w \in {"stripe", "paddle"} => cells # <<Null>>
      /\ c.w = "cfd1" /\ c.col = "text" => cells # <<TextNull>>
      /\ c.stmt.column = "rowid" => c.w \notin {"mongodb", "dynamodb", "stripe", "paddle"}
      /\ c.w \in Writers \ {"iceberg", "s3vectors"}
  <2>1. c.w \in Writers \ {"iceberg"}
    BY DEF ChangesRows, Writers, ReadOnlyGuests
  <2> QED BY <2>1, CaseIs DEF ChangesRows
<1>2. new_row = IF c.stmt.column = "rowid" THEN <<>> ELSE cells
  BY DEF new_row
<1>3. cells # <<>> /\ cells = <<cells[1]>> /\ DOMAIN cells = {1}
  <2>1. cells \in Seq(Int \cup {Null}) /\ Len(cells) = 1
    BY <1>1
  <2> HIDE DEF cells
  <2> QED BY <2>1, OneValueIs
<1>4. c.w \in {"stripe", "paddle"} => WithoutNulls(cells) = cells
  BY <1>1, OneCell
<1>5. c.w = "cfd1" => made = cells
  <2> SUFFICES ASSUME c.w = "cfd1" PROVE made = cells
    OBVIOUS
  <2>1. \A n \in DOMAIN cells : (IF c.col = "text" /\ cells[n] = TextNull THEN Null ELSE cells[n]) = cells[n]
    BY <1>1, <1>3
  <2> QED BY <1>1, <2>1
<1> HIDE DEF made, cells
<1>6. Fine(Fails(inst)) /\ Fine(Unwinds(inst))
  BY DEF Fails, Unwinds, Result
<1>7. c.stmt.column # "rowid" /\ c.w # "dynamodb" => Fine(Set(inst, id, cells))
  BY DEF Set, Asks, Result
<1>8. c.stmt.column # "rowid" /\ c.w = "dynamodb" => Fine(Asks(inst, Request("upsert", <<>>, id, cells)))
  BY DEF Asks, Result
<1> SUFFICES Fine(update(id, new_row))
  BY DEF cells
<1> HIDE DEF Fine, Right, kind
<1>9. CASE c.w \in {"bigquery", "clickhouse", "mysql", "snowflake"}
  BY <1>2, <1>3, <1>6, <1>7, <1>9
  DEF update, BigqueryUpdate, ClickhouseUpdate, MysqlUpdate, SnowflakeUpdate
<1>10. CASE c.w = "mongodb"
  BY <1>1, <1>2, <1>3, <1>7, <1>10 DEF update, MongodbUpdate
<1>11. CASE c.w = "dynamodb"
  BY <1>1, <1>2, <1>3, <1>6, <1>8, <1>11 DEF update, DynamodbUpdate
<1>12. CASE c.w = "stripe"
  BY <1>1, <1>2, <1>4, <1>6, <1>7, <1>12 DEF update, StripeUpdate
<1>13. CASE c.w = "cfd1"
  <2>1. update(id, new_row) = Cfd1Update(c, inst, id, new_row)
    BY <1>13 DEF update
  <2>2. CASE c.stmt.column = "rowid"
    BY <1>2, <1>6, <2>1, <2>2 DEF Cfd1Update
  <2>3. CASE c.stmt.column # "rowid"
    <3>1. Cfd1Update(c, inst, id, cells) = Set(inst, id, made)
      BY <1>3 DEF Cfd1Update, made
    <3> QED BY <1>2, <1>5, <1>7, <1>13, <2>1, <2>3, <3>1
  <2> QED BY <2>2, <2>3
<1>14. CASE c.w \in {"clerk", "orb"}
  <2>1. update(id, new_row) = (IF c.rowid = "text" /\ HasBody(c, new_row) THEN Set(inst, id, new_row)
                               ELSE Fails(inst))
    BY <1>14 DEF update, ClerkUpdate, OrbUpdate
  <2>2. ~HasBody(c, <<>>)
    BY DEF HasBody
  <2> QED BY <1>2, <1>6, <1>7, <1>14, <2>1, <2>2
<1>15. CASE c.w = "paddle"
  BY <1>1, <1>2, <1>4, <1>6, <1>7, <1>15 DEF update, PaddleUpdate
<1>16. CASE c.w = "cal"
  BY <1>6, <1>16 DEF update, CalUpdate
<1> QED BY <1>1, <1>9, <1>10, <1>11, <1>12, <1>13, <1>14, <1>15, <1>16 DEF Writers

\* A DELETE that goes on asks for the row of its call.
LEMMA DeleteAsks ==
  ASSUME c \in Cases, ChangesRows(c), c.stmt.op = "delete", c.w \in Writers,
         NEW id, delete(id).err = "ok"
  PROVE  delete(id).inst = inst /\ delete(id).ask = Request("del", <<>>, id, <<>>)
<1> DEFINE Fine(res) ==
             res.err = "ok" => res.inst = inst /\ res.ask = Request("del", <<>>, id, <<>>)
<1>1. Fine(Fails(inst)) /\ Fine(Unwinds(inst)) /\ Fine(Del(inst, id))
  BY DEF Fails, Unwinds, Del, Asks, Result
<1>2. c.w \in Writers \ {"iceberg"} /\ (c.w = "cfd1" => c.rowid # "text")
  BY DEF ChangesRows, Writers, ReadOnlyGuests
<1> SUFFICES Fine(delete(id))
  OBVIOUS
<1> HIDE DEF Fine
<1>3. CASE c.w \in {"bigquery", "clickhouse", "mysql", "mongodb", "dynamodb", "stripe"}
  BY <1>1, <1>3 DEF delete, BigqueryDelete, ClickhouseDelete, MysqlDelete, MongodbDelete,
                    DynamodbDelete, StripeDelete
<1>4. CASE c.w \in {"s3vectors", "snowflake", "clerk", "orb", "paddle", "cal"}
  BY <1>1, <1>4 DEF delete, S3vectorsDelete, SnowflakeDelete, ClerkDelete, OrbDelete,
                    PaddleDelete, CalDelete
<1>5. CASE c.w = "cfd1"
  BY <1>1, <1>2, <1>5 DEF delete, Cfd1Delete
<1> QED BY <1>2, <1>3, <1>4, <1>5 DEF Writers

\* Nothing waits for end_modify.
LEMMA EndsQuietly ==
  ASSUME ChangesRows(c), c.w \in Writers, inst = FreshInstance
  PROVE  end_modify = Quiet(inst)
<1>1. c.w # "iceberg"
  BY DEF ChangesRows, Writers, ReadOnlyGuests
<1>2. inst.rows = <<>>
  BY DEF FreshInstance
<1>3. S3vectorsEnd(inst) = Quiet(inst)
  BY <1>2 DEF S3vectorsEnd, S3vectorsFlush
<1> QED BY <1>1, <1>3 DEF end_modify

\* The rows of such a statement and what becomes of them.
LEMMA RowsOfChanges ==
  ASSUME c \in Cases, ChangesRows(c)
  PROVE  /\ c.rows \subseteq Rows /\ Goals \subseteq Rows
         /\ \A x \in Goals : \E r \in Chosen : x = Target(r) /\ x.id = r.id
         /\ \A r \in Chosen : /\ r \in c.rows /\ r.id \in Nat /\ r.id \in c.stmt.ids
                              /\ \A x \in c.rows \cup Goals : x.id = r.id => x = r \/ x = Target(r)
         /\ \A x \in c.rows : x.id \in c.stmt.ids => x.id = Null \/ x \in Chosen
<1>1. c.rows \subseteq Rows /\ c.stmt.cells \in Seq(Int \cup {Null})
  BY CaseIs
<1>2. ASSUME NEW r \in Chosen PROVE r \in c.rows /\ r \in Rows /\ r.id \in Nat /\ r.id \in c.stmt.ids
  BY <1>1 DEF Chosen, Rows
<1>3. ASSUME NEW r \in Chosen, c.stmt.op = "update", c.stmt.column # "rowid"
      PROVE  Target(r) \in Rows /\ Target(r).id = r.id
  <2>1. Target(r) = [r EXCEPT !.val = Last(c.stmt.cells)]
    BY <1>3 DEF Target
  <2>2. Last(c.stmt.cells) \in Int \cup {Null}
    <3>1. Len(c.stmt.cells) = 1
      BY <1>3 DEF ChangesRows
    <3> QED BY <1>1, <3>1 DEF Last
  <2> QED BY <1>2, <2>1, <2>2 DEF Rows
<1>4. \A x \in Goals : \E r \in Chosen : x = Target(r) /\ x.id = r.id /\ x \in Rows
  BY <1>3 DEF Goals
<1>5. \A r, q \in c.rows : r.id = q.id => r = q
  BY DEF ChangesRows
<1>6. ASSUME NEW r \in Chosen, NEW x \in c.rows \cup Goals, x.id = r.id PROVE x = r \/ x = Target(r)
  <2>1. CASE x \in c.rows
    BY <1>2, <1>5, <1>6, <2>1
  <2>2. CASE x \in Goals
    <3>1. PICK q \in Chosen : x = Target(q) /\ x.id = q.id
      BY <1>4, <2>2
    <3>2. q = r
      BY <1>2, <1>5, <1>6, <3>1
    <3> QED BY <3>1, <3>2
  <2> QED BY <2>1, <2>2
<1>7. \A x \in c.rows : x.id \in c.stmt.ids => x.id = Null \/ x \in Chosen
  BY DEF Chosen
<1> QED BY <1>1, <1>2, <1>4, <1>6, <1>7

\* One row replaced by those of N, as a change of the abstract statement.
LEMMA MadeOfOne ==
  ASSUME OneEach(table), NEW r \in DOMAIN table, NEW N, N \cap DOMAIN table = {}
  PROVE  Effected!Made({[old |-> {r}, new |-> N]}) = [x \in (DOMAIN table \ {r}) \cup N |-> 1]
<1> DEFINE S == {[old |-> {r}, new |-> N]}
           D == DOMAIN table
           copies(x) == (IF x \notin D THEN 0
                         ELSE IF x \in {r} THEN table[x] - 1 ELSE table[x])
                          + (IF x \in N THEN 1 ELSE 0)
<1>1. UNION {ch.old : ch \in S} = {r} /\ UNION {ch.new : ch \in S} = N
  OBVIOUS
<1> HIDE DEF S
<1>2. Effected!Made(S) = [x \in {y \in D \cup N : copies(y) > 0} |-> copies(x)]
  BY <1>1, Zenon DEF Effected!Made
<1>3. \A x \in D : table[x] = 1
  BY DEF OneEach
<1>4. ASSUME NEW x \in D \cup N
      PROVE  /\ x \in (D \ {r}) \cup N => copies(x) = 1
             /\ x \notin (D \ {r}) \cup N => copies(x) = 0
  <2>1. CASE x \in N
    BY <2>1
  <2>2. CASE x \notin N /\ x = r
    BY <1>3, <2>2
  <2>3. CASE x \notin N /\ x # r
    BY <1>3, <2>3
  <2> QED BY <2>1, <2>2, <2>3
<1> HIDE DEF copies, D
<1>5. {y \in D \cup N : copies(y) > 0} = (D \ {r}) \cup N
  BY <1>4
<1>6. [x \in (D \ {r}) \cup N |-> copies(x)] = [x \in (D \ {r}) \cup N |-> 1]
  BY <1>4
<1> QED BY <1>2, <1>5, <1>6 DEF D, S

\* An assignment where each row is there once and keeps its id.
LEMMA AssignedOnce ==
  ASSUME OneEach(table), DOMAIN table \subseteq Rows, NEW ask, ask.cells # <<>>
  PROVE  Assigned(ask) =
           [x \in {IF y.id = ask.id THEN [y EXCEPT !.val = Last(ask.cells)] ELSE y : y \in DOMAIN table} |-> 1]
<1> DEFINE new(y) == IF y.id = ask.id /\ ask.cells # <<>> THEN [y EXCEPT !.val = Last(ask.cells)] ELSE y
           copies == UNION {{y} \X (1..table[y]) : y \in DOMAIN table}
           D == DOMAIN table
           E == {new(y) : y \in D}
           made(x) == {p \in copies : new(p[1]) = x}
<1>1. Assigned(ask) = [x \in E |-> Cardinality(made(x))]
  BY DEF Assigned
<1>2. ASSUME NEW x \in D PROVE table[x] = 1 /\ 1..table[x] = {1} /\ x \in Rows
  BY DEF OneEach
<1>3. ASSUME NEW x \in D PROVE new(x).id = x.id
  <2>1. x \in Rows
    BY <1>2
  <2> QED BY <2>1 DEF Rows
<1>4. ASSUME NEW x \in D, NEW y \in D, new(x) = new(y) PROVE x = y
  <2>1. x.id = y.id
    BY <1>3, <1>4
  <2> QED BY <2>1 DEF OneEach
<1>5. E = {IF y.id = ask.id THEN [y EXCEPT !.val = Last(ask.cells)] ELSE y : y \in D}
  OBVIOUS
<1> HIDE DEF new
<1>6. \A p : p \in copies <=> \E y \in D : p = <<y, 1>>
  <2>1. \A y \in D : {y} \X (1..table[y]) = {<<y, 1>>}
    BY <1>2
  <2>2. copies = UNION {{<<y, 1>>} : y \in D}
    BY <2>1
  <2> QED BY <2>2
<1>7. ASSUME NEW y \in D PROVE Cardinality(made(new(y))) = 1
  <2>1. \A p : p \in made(new(y)) <=> p \in copies /\ new(p[1]) = new(y)
    OBVIOUS
  <2> HIDE DEF made, copies
  <2>2. \A p : p \in made(new(y)) <=> p = <<y, 1>>
    BY <1>4, <1>6, <2>1
  <2>3. made(new(y)) = {<<y, 1>>}
    BY <2>2
  <2> QED BY <2>3, FS_Singleton
<1> HIDE DEF made, copies
<1>8. \A x \in E : Cardinality(made(x)) = 1
  BY <1>7
<1> HIDE DEF E
<1>9. Assigned(ask) = [x \in E |-> 1]
  BY <1>1, <1>8
<1> QED BY <1>5, <1>9

\* What becomes of r.
NewRows(r) == IF c.stmt.op = "update" THEN {Target(r)} ELSE {}

\* A request makes the change it asks for, when it is still to be made, and
\* nothing else.
LEMMA EffectIs ==
  ASSUME c \in Cases, ChangesRows(c), OneEach(table), DOMAIN table \subseteq c.rows \cup Goals,
         c.w = "dynamodb" /\ c.stmt.op = "update" => {q.id : q \in c.rows} \subseteq Ids,
         NEW r \in Chosen, AsksToChange(request, r)
  PROVE  /\ ~Undone(r) => Effect(request) = table
         /\ Undone(r) => /\ NewRows(r) \cap DOMAIN table = {}
                         /\ Effect(request) = [x \in (DOMAIN table \ {r}) \cup NewRows(r) |-> 1]
<1> DEFINE D == DOMAIN table
<1>1. /\ D \subseteq Rows /\ r \in c.rows /\ r \in Rows
      /\ \A x \in D : x.id = r.id => x = r \/ x = Target(r)
  BY RowsOfChanges
<1>2. table = [x \in D |-> 1] /\ \A a, b \in D : a.id = b.id => a = b
  BY DEF OneEach
<1>3. request.id = r.id /\ c.stmt.op \in {"update", "delete"}
  BY DEF AsksToChange, ChangesRows
<1>4. CASE c.stmt.op = "delete"
  <2>1. request.kind = "del" /\ Goals = {}
    BY <1>4 DEF AsksToChange, Goals
  <2>2. Effect(request) = Without({r.id})
    BY <1>3, <2>1 DEF Effect
  <2>3. \A x \in D : x.id = r.id => x = r
    BY <1>1, <2>1 DEF ChangesRows
  <2>4. Effect(request) = [x \in {y \in D : y.id \notin {r.id}} |-> table[x]]
    BY <2>2 DEF Without
  <2>5. {y \in D : y.id \notin {r.id}} = D \ {r}
    BY <2>3
  <2>6. Effect(request) = [x \in D \ {r} |-> 1]
    BY <1>2, <2>4, <2>5
  <2>7. Undone(r) <=> r \in D
    BY <1>4 DEF Undone
  <2>8. NewRows(r) = {}
    BY <1>4 DEF NewRows
  <2>9. CASE r \in D
    BY <2>6, <2>7, <2>8, <2>9
  <2>10. CASE r \notin D
    <3>1. D \ {r} = D
      BY <2>10
    <3> QED BY <1>2, <2>6, <2>7, <2>10, <3>1
  <2> QED BY <2>9, <2>10
<1>5. CASE c.stmt.op = "update"
  <2> DEFINE new(y) == IF y.id = request.id THEN [y EXCEPT !.val = Last(request.cells)] ELSE y
             E == {new(y) : y \in D}
  <2>1. /\ c.stmt.column # "rowid" /\ request.cells = c.stmt.cells
        /\ request.kind = IF c.w = "dynamodb" THEN "upsert" ELSE "set"
    BY <1>5 DEF AsksToChange
  <2>2. request.cells # <<>>
    <3>1. Len(c.stmt.cells) = 1 /\ c.stmt.cells \in Seq(Int \cup {Null})
      BY <1>5, CaseIs DEF ChangesRows
    <3>2. c.stmt.cells # <<>>
      BY <3>1, OneValueIs
    <3> QED BY <2>1, <3>2
  <2>3. Assigned(request) = [x \in E |-> 1]
    BY <1>1, <2>2, AssignedOnce
  <2>4. Effect(request) = Assigned(request)
    <3>1. CASE c.w = "dynamodb"
      <4>1. request.id \in Ids /\ request.kind = "upsert"
        BY <1>1, <1>3, <1>5, <2>1, <3>1
      <4> QED BY <4>1 DEF Effect
    <3>2. CASE c.w # "dynamodb"
      BY <2>1, <3>2 DEF Effect
    <3> QED BY <3>1, <3>2
  <2>5. new(r) = Target(r)
    BY <1>3, <2>1 DEF Target
  <2>6. Target(r).id = r.id /\ new(Target(r)) = Target(r)
    BY <1>1, <1>3, <2>5 DEF Rows
  <2>7. ASSUME NEW y \in D, y.id # r.id PROVE new(y) = y
    BY <1>3, <2>7
  <2> HIDE DEF new
  <2>8. CASE ~Undone(r)
    <3>1. ASSUME NEW y \in D PROVE new(y) = y
      <4>1. CASE y.id # r.id
        BY <2>7, <4>1
      <4>2. CASE y.id = r.id
        <5>1. y = Target(r)
          BY <1>1, <1>5, <2>8, <4>2 DEF Undone
        <5> QED BY <2>6, <5>1
      <4> QED BY <4>1, <4>2
    <3>2. E = D
      BY <3>1
    <3> QED BY <1>2, <2>3, <2>4, <2>8, <3>2
  <2>9. CASE Undone(r)
    <3>1. r \in D /\ Target(r) # r
      BY <1>5, <2>9 DEF Undone
    <3>2. Target(r) \notin D
      BY <1>2, <2>6, <3>1
    <3>3. \A y \in D \ {r} : new(y) = y
      BY <1>2, <2>7, <3>1
    <3>4. E = (D \ {r}) \cup {Target(r)}
      BY <2>5, <3>1, <3>3
    <3>5. NewRows(r) = {Target(r)}
      BY <1>5 DEF NewRows
    <3> QED BY <2>3, <2>4, <2>9, <3>2, <3>4, <3>5
  <2> QED BY <2>8, <2>9
<1> QED BY <1>3, <1>4, <1>5

\* The table: rows of the statement's table and what becomes of them.
TableInv ==
  /\ OneEach(table) /\ DOMAIN table \subseteq c.rows \cup Goals
  /\ c.w = "dynamodb" /\ c.stmt.op = "update" => {q.id : q \in c.rows} \subseteq Ids

\* The rows read were there, and the statement is about them.
ScanInv ==
  /\ phase \in {"plan", "begin"} => Unread
  /\ Unread => Idle /\ scan.rows = <<>> /\ scan.at = Null /\ DOMAIN table \subseteq c.rows
  /\ \A q \in Range(scan.rows) : q \in c.rows \cup Goals /\ q.id \in c.stmt.ids

AskInv == ~Idle => \E r \in Chosen : AsksToChange(request, r)

\* A row that is to be changed was read, will be read, or is asked for.
CoverInv ==
  phase \in {"plan", "begin", "open"} =>
    \A r \in Chosen : Undone(r) =>
      r \in Range(scan.rows) \/ Ahead(r) \/ (~Idle /\ request.id = r.id)

ChangeInv ==
  /\ phase # "ending" /\ inst = FreshInstance
  /\ c.stmt.explain => contexts = 0
  /\ ~c.stmt.explain /\ phase = "open" => contexts = 1 /\ c.w \in Writers
  /\ TableInv /\ ScanInv /\ AskInv /\ CoverInv

LEMMA ChangeInvInit ==
  ASSUME Init, ChangesRows(c)
  PROVE  ChangeInv
<1>1. /\ c \in Cases /\ phase = "plan" /\ contexts = 0 /\ Idle /\ inst = FreshInstance
      /\ scan.rows = <<>> /\ scan.at = Null /\ scan.cnt = 0 /\ scan.end = FALSE
      /\ table = [x \in c.rows |-> 1] /\ DOMAIN table = c.rows
  BY DEF Init, Idle, SetToBag
<1>2. Unread
  BY <1>1 DEF Unread
<1>3. TableInv
  BY <1>1 DEF TableInv, OneEach, ChangesRows, Ids
<1>4. ScanInv
  <2>1. Range(<<>>) = {}
    BY DEF Range
  <2> QED BY <1>1, <1>2, <2>1 DEF ScanInv
<1>5. AskInv /\ CoverInv
  BY <1>1, <1>2 DEF AskInv, CoverInv, Ahead
<1> QED BY <1>1, <1>3, <1>4, <1>5 DEF ChangeInv

\* What is said of a statement does not change.
LEMMA StatementStays ==
  ASSUME c' = c
  PROVE  /\ Chosen' = Chosen /\ Goals' = Goals
         /\ \A r : Target(r)' = Target(r) /\ NewRows(r)' = NewRows(r)
         /\ \A q, r : AsksToChange(q, r)' = AsksToChange(q, r)
BY DEF Chosen, Goals, Target, NewRows, AsksToChange

\* A step that leaves the scan and the table alone, and the request unless the
\* statement ends.
LEMMA ChangeInvQuiet ==
  ASSUME ChangeInv, UNCHANGED <<c, scan, table>>, inst' = FreshInstance, phase' # "ending",
         c.stmt.explain => contexts' = 0,
         ~c.stmt.explain /\ phase' = "open" => contexts' = 1 /\ c.w \in Writers,
         request' = request \/ request' = NoRequest,
         phase' \in {"plan", "begin", "open"} => request' = request /\ phase \in {"plan", "begin", "open"},
         phase' \in {"plan", "begin"} => phase \in {"plan", "begin"}
  PROVE  ChangeInv'
<1>1. TableInv'
  BY StatementStays DEF ChangeInv, TableInv, OneEach, Ids
<1>2. Unread' = Unread /\ (Idle => Idle') /\ (request' = request => Idle' = Idle)
  BY DEF Unread, Idle
<1>3. ScanInv'
  BY <1>2, StatementStays DEF ChangeInv, ScanInv, Range
<1>4. AskInv'
  <2>1. CASE request' = NoRequest
    BY <2>1 DEF AskInv, Idle
  <2>2. CASE request' = request
    <3>1. Chosen' = Chosen /\ Idle' = Idle /\ AskInv
      BY <1>2, <2>2, StatementStays DEF ChangeInv
    <3>2. \A r : AsksToChange(request, r)' = AsksToChange(request, r)
      BY <2>2 DEF AsksToChange
    <3> QED BY <3>1, <3>2 DEF AskInv
  <2> QED BY <2>1, <2>2
<1>5. CoverInv'
  <2> SUFFICES ASSUME phase' \in {"plan", "begin", "open"} PROVE CoverInv'
    BY DEF CoverInv
  <2>1. request' = request /\ CoverInv /\ phase \in {"plan", "begin", "open"}
    BY DEF ChangeInv
  <2>2. /\ Chosen' = Chosen /\ Range(scan.rows)' = Range(scan.rows) /\ Idle' = Idle
        /\ \A r : Undone(r)' = Undone(r) /\ Ahead(r)' = Ahead(r)
    BY <1>2, <2>1, StatementStays DEF Range, Undone, Target, Ahead, Unread
  <2> QED BY <2>1, <2>2 DEF CoverInv
<1> QED BY <1>1, <1>3, <1>4, <1>5 DEF ChangeInv

\* A page more.
LEMMA ChangeInvFetch ==
  ASSUME ChangeInv, WriteInv, ChangesRows(c), FetchPage
  PROVE  ChangeInv'
<1>1. /\ UNCHANGED <<c, phase, inst, request, table, contexts>> /\ phase = "open" /\ Idle
      /\ scan.rows = <<>>
      /\ scan' = [rows |-> Only(NextPage, {r \in DOMAIN table : r.id \in c.stmt.ids}),
                  at   |-> IF NextPage = <<>> THEN Null ELSE Last(NextPage).id,
                  cnt  |-> scan.cnt + Len(NextPage),
                  end  |-> Len(NextPage) # PageSize
                             \/ c.w \notin {"mongodb", "dynamodb", "s3vectors", "paddle", "clerk"}]
  BY DEF FetchPage
<1>2. c \in Cases /\ IsTable(table) /\ scan.cnt \in Nat
  BY DEF WriteInv, IsScan
<1>3. TableInv /\ ScanInv /\ CoverInv
  BY DEF ChangeInv
<1>4. NextPage \in Seq(Rows)
  BY <1>2, NextPageRows
<1> DEFINE about == {r \in DOMAIN table : r.id \in c.stmt.ids}
           page == NextPage
<1>5. Only(page, about) \in Seq(Rows) /\ Range(Only(page, about)) = Range(page) \cap about
  <2> HIDE DEF page, about
  <2> QED BY <1>4, OnlyDistinct DEF page
<1>6. /\ scan'.rows = Only(page, about) /\ scan'.at = (IF page = <<>> THEN Null ELSE Last(page).id)
      /\ scan'.cnt = scan.cnt + Len(page)
      /\ scan'.end = (Len(page) # PageSize
                       \/ c.w \notin {"mongodb", "dynamodb", "s3vectors", "paddle", "clerk"})
  BY <1>1
<1>7. \A q \in about : q \in c.rows \cup Goals /\ q.id \in c.stmt.ids
  BY <1>3 DEF TableInv
<1>8. \A r \in Chosen : Undone(r) => Ahead(r) /\ r \in about
  <2>1. Range(scan.rows) = {}
    BY <1>1 DEF Range
  <2>2. \A r \in Chosen : Undone(r) => Ahead(r)
    BY <1>1, <1>3, <2>1 DEF CoverInv
  <2> QED BY <2>2 DEF Undone, Chosen
<1>9. ASSUME NEW r \in Chosen, Undone(r), r \notin Range(page)
      PROVE  /\ c.w \in Paging /\ Len(page) = PageSize /\ page # <<>>
             /\ Below(Last(page).id, r.id)
  <2>1. r \in DOMAIN table /\ Ahead(r)
    BY <1>8, <1>9 DEF Undone
  <2>2. /\ \A a, b \in DOMAIN table : a.id = b.id => a = b
        /\ Unread => scan.at = Null /\ DOMAIN table \subseteq c.rows
    BY <1>3 DEF TableInv, ScanInv, OneEach
  <2> QED BY <1>2, <1>9, <2>1, <2>2, PageReaches
<1> HIDE DEF page, about
<1>10. ~Unread'
  <2> SUFFICES ASSUME scan'.cnt = 0, scan'.end = FALSE PROVE FALSE
    BY <1>6 DEF Unread
  <2>1. Len(page) \in Nat /\ PageSize \in Nat \ {0}
    BY <1>4, ModifyAssumption DEF page
  <2>2. Len(page) = 0
    BY <1>2, <1>6, <2>1
  <2> QED BY <1>6, <2>1, <2>2
<1>11. TableInv'
  BY <1>1, <1>3, StatementStays DEF TableInv, OneEach, Ids
<1>12. ScanInv'
  <2>1. Range(scan.rows)' = Range(page) \cap about
    <3>1. Range(scan.rows)' = Range(scan'.rows)
      BY DEF Range
    <3> QED BY <1>5, <1>6, <3>1
  <2> QED BY <1>1, <1>7, <1>10, <2>1, StatementStays DEF ScanInv
<1>13. AskInv'
  BY <1>1 DEF AskInv, Idle
<1>14. CoverInv'
  <2> SUFFICES ASSUME NEW r \in Chosen, Undone(r) PROVE r \in Range(scan.rows)' \/ Ahead(r)'
    <3>1. Chosen' = Chosen /\ \A r : Undone(r)' = Undone(r)
      BY <1>1, StatementStays DEF Undone
    <3> QED BY <3>1 DEF CoverInv
  <2>1. CASE r \in Range(page)
    <3>1. Range(scan.rows)' = Range(scan'.rows)
      BY DEF Range
    <3> QED BY <1>5, <1>6, <1>8, <2>1, <3>1
  <2>2. CASE r \notin Range(page)
    <3>1. c.w \in Paging /\ scan'.end = FALSE /\ Below(scan'.at, r.id)
      BY <1>6, <1>9, <2>2 DEF Paging
    <3> QED BY <1>1, <3>1 DEF Ahead
  <2> QED BY <2>1, <2>2
<1> QED BY <1>1, <1>11, <1>12, <1>13, <1>14 DEF ChangeInv

LEMMA HeadAndTail ==
  ASSUME NEW S, NEW s \in Seq(S), s # <<>>
  PROVE  Range(s) = {Head(s)} \cup Range(Tail(s)) /\ Head(s) \in Range(s)
<1>1. DOMAIN s = 1..Len(s) /\ Len(s) \in Nat /\ Len(s) # 0 /\ 1 \in DOMAIN s /\ Head(s) = s[1]
  OBVIOUS
<1>2. DOMAIN Tail(s) = 1..(Len(s) - 1) /\ \A i \in 1..(Len(s) - 1) : Tail(s)[i] = s[i + 1]
  OBVIOUS
<1>3. \A i \in DOMAIN s : i = 1 \/ (i - 1 \in DOMAIN Tail(s) /\ Tail(s)[i - 1] = s[i])
  <2> SUFFICES ASSUME NEW i \in DOMAIN s, NEW j, j = i - 1, i # 1
               PROVE  j \in DOMAIN Tail(s) /\ Tail(s)[j] = s[i]
    OBVIOUS
  <2>1. j \in 1..(Len(s) - 1) /\ j + 1 = i
    BY <1>1
  <2> QED BY <1>2, <2>1
<1>4. \A i \in DOMAIN Tail(s) : i + 1 \in DOMAIN s /\ Tail(s)[i] = s[i + 1]
  BY <1>1, <1>2
<1> DEFINE t == Tail(s)
           h == Head(s)
<1>5. \A y : y \in Range(s) <=> \E i \in DOMAIN s : y = s[i]
  BY DEF Range
<1>6. \A y : y \in Range(t) <=> \E i \in DOMAIN t : y = t[i]
  BY DEF Range
<1>7. 1 \in DOMAIN s /\ h = s[1]
  BY <1>1
<1>8. \A i \in DOMAIN s : s[i] = h \/ \E j \in DOMAIN t : s[i] = t[j]
  BY <1>3, <1>7
<1>9. \A j \in DOMAIN t : \E i \in DOMAIN s : t[j] = s[i]
  BY <1>4
<1> HIDE DEF t, h
<1>10. ASSUME NEW y \in Range(s) PROVE y = h \/ y \in Range(t)
  BY <1>5, <1>6, <1>8, Zenon
<1>11. h \in Range(s) /\ \A y \in Range(t) : y \in Range(s)
  BY <1>5, <1>6, <1>7, <1>9, Zenon
<1>12. Range(s) = {h} \cup Range(t)
  BY <1>10, <1>11
<1> QED BY <1>11, <1>12 DEF t, h

\* A row taken from the scan: it cannot be changed, an error ends the statement,
\* or its change is asked for.
LEMMA ChangeInvTakes ==
  ASSUME ChangeInv, WriteInv, ChangesRows(c), NEW x, TakesRow(x), inst' = FreshInstance,
         phase' = "open" => contexts' = 1,
         \/ phase' = "failed" /\ (request' = request \/ request' = NoRequest)
         \/ phase' = "open" /\ request' = request /\ x.id = Null
         \/ /\ phase' = "open" /\ request'.kind # "none" /\ x.id # Null
            /\ \A r : r.id = x.id => AsksToChange(request', r)
  PROVE  ChangeInv'
<1>1. /\ phase = "open" /\ Idle /\ contexts = 1 /\ UNCHANGED <<c, table>>
      /\ scan.rows # <<>> /\ x = Head(scan.rows)
      /\ scan' = [scan EXCEPT !.rows = Tail(@)]
  BY DEF TakesRow
<1>2. c \in Cases /\ scan.rows \in Seq(Rows)
      /\ scan = [rows |-> scan.rows, at |-> scan.at, cnt |-> scan.cnt, end |-> scan.end]
  BY DEF WriteInv, IsScan
<1>3. TableInv /\ ScanInv /\ CoverInv
  BY DEF ChangeInv
<1>4. /\ scan'.rows = Tail(scan.rows)
      /\ scan'.at = scan.at /\ scan'.cnt = scan.cnt /\ scan'.end = scan.end
  BY <1>1, <1>2
<1>5. Range(scan.rows) = {x} \cup Range(scan'.rows)
  BY <1>1, <1>2, <1>4, HeadAndTail
<1>6. x \in c.rows \cup Goals /\ x.id \in c.stmt.ids
  BY <1>3, <1>5 DEF ScanInv
<1>7. ~Unread /\ Unread' = Unread /\ \A r : Ahead(r)' = Ahead(r)
  <2>1. Unread' = Unread
    BY <1>4 DEF Unread
  <2> QED BY <1>1, <1>3, <1>4, <2>1 DEF ScanInv, Ahead
<1>8. Range(scan.rows)' = Range(scan'.rows)
  BY DEF Range
<1>9. TableInv'
  BY <1>1, <1>3, StatementStays DEF TableInv, OneEach, Ids
<1>10. ScanInv'
  <2>1. phase' \notin {"plan", "begin"}
    OBVIOUS
  <2>2. Goals' = Goals /\ c' = c
    BY <1>1, StatementStays
  <2> QED BY <1>3, <1>5, <1>7, <1>8, <2>1, <2>2 DEF ScanInv
<1>11. Chosen' = Chosen /\ \A r : Undone(r)' = Undone(r)
  BY <1>1, StatementStays DEF Undone
<1>12. \A q, r : AsksToChange(q, r)' = AsksToChange(q, r)
  BY <1>1, StatementStays
<1>13. CASE phase' = "failed"
  <2>1. AskInv'
    <3>1. request' = NoRequest
      BY <1>1, <1>13 DEF Idle
    <3> QED BY <3>1 DEF AskInv, Idle
  <2>2. CoverInv'
    BY <1>13 DEF CoverInv
  <2> QED BY <1>1, <1>9, <1>10, <1>13, <2>1, <2>2 DEF ChangeInv
<1>14. CASE phase' = "open" /\ request' = request /\ x.id = Null
  <2>1. AskInv'
    BY <1>1, <1>14 DEF AskInv, Idle
  <2>2. ASSUME NEW r \in Chosen, Undone(r) PROVE r \in Range(scan'.rows) \/ Ahead(r)
    <3>1. r \in Range(scan.rows) \/ Ahead(r)
      BY <1>1, <1>3, <2>2 DEF CoverInv
    <3>2. r # x
      BY <1>14 DEF Chosen
    <3> QED BY <1>5, <3>1, <3>2
  <2>3. CoverInv'
    BY <1>7, <1>8, <1>11, <2>2 DEF CoverInv
  <2> QED BY <1>1, <1>9, <1>10, <1>14, <2>1, <2>3 DEF ChangeInv
<1>15. CASE /\ phase' = "open" /\ request'.kind # "none" /\ x.id # Null
            /\ \A r : r.id = x.id => AsksToChange(request', r)
  <2>1. ~Idle'
    <3>1. NoRequest.kind = "none"
      BY DEF NoRequest, Request
    <3> QED BY <1>15, <3>1 DEF Idle
  <2>2. \E r \in Chosen : r.id = x.id
    <3>1. CASE x \in c.rows
      BY <1>2, <1>6, <1>15, <3>1, RowsOfChanges
    <3>2. CASE x \in Goals
      BY <1>2, <3>2, RowsOfChanges
    <3> QED BY <1>6, <3>1, <3>2
  <2>3. ASSUME NEW r \in Chosen, Undone(r)
        PROVE  r \in Range(scan'.rows) \/ Ahead(r) \/ request'.id = r.id
    <3>1. r \in Range(scan.rows) \/ Ahead(r)
      BY <1>1, <1>3, <2>3 DEF CoverInv
    <3>2. r = x => request'.id = r.id
      BY <1>15 DEF AsksToChange
    <3> QED BY <1>5, <3>1, <3>2
  <2>4. CoverInv'
    BY <1>7, <1>8, <1>11, <2>1, <2>3 DEF CoverInv
  <2>5. AskInv'
    <3>1. PICK r \in Chosen : r.id = x.id
      BY <2>2
    <3>2. AsksToChange(request', r)
      BY <1>15, <3>1
    <3>3. AsksToChange(request, r)'
      BY <1>1, <3>2 DEF AsksToChange
    <3> QED BY <1>11, <3>1, <3>3 DEF AskInv
  <2> QED BY <1>1, <1>9, <1>10, <1>15, <2>4, <2>5 DEF ChangeInv
<1> QED BY <1>13, <1>14, <1>15

\* The framework's way on after a method, for a row of the scan.
LEMMA HandlesChange ==
  ASSUME ChangeInv, WriteInv, LifeInv, ChangesRows(c), NEW x, TakesRow(x), x.id # Null,
         NEW res, res.err \in Outcomes, Handles(res),
         res.err = "ok" => /\ res.inst = inst /\ res.ask.kind # "none"
                           /\ \A r : r.id = x.id => AsksToChange(res.ask, r)
  PROVE  ChangeInv'
<1>1. phase = "open" /\ contexts = 1 /\ inst = FreshInstance
  BY DEF TakesRow, ChangeInv
<1>2. CASE res.err = "ok"
  <2>1. inst' = inst /\ request' = res.ask /\ phase' = phase /\ contexts' = contexts
    BY <1>2 DEF Handles
  <2> QED BY <1>1, <1>2, <2>1, ChangeInvTakes
<1>3. CASE res.err = "error"
  <2>1. phase' = "failed" /\ inst' = FreshInstance /\ request' = NoRequest
    BY <1>3 DEF Handles, DropState
  <2> QED BY <2>1, ChangeInvTakes
<1>4. CASE res.err = "unwinds"
  <2>1. phase' = "failed" /\ inst' = FreshInstance /\ request' = request
    BY <1>4 DEF Handles, Unwind
  <2> QED BY <2>1, ChangeInvTakes
<1> QED BY <1>2, <1>3, <1>4 DEF Outcomes

LEMMA ChangeInvExec ==
  ASSUME ChangeInv, WriteInv, LifeInv, ChangesRows(c), ExecForeignUpdate \/ ExecForeignDelete
  PROVE  ChangeInv'
<1>0. c \in Cases /\ c.rowid # "varchar"
  BY DEF WriteInv, ChangesRows
<1>1. PICK x : /\ TakesRow(x)
               /\ IF get_rowid_cell(x) = Null THEN SkipsRow
                  ELSE \/ c.stmt.op = "update" /\ Handles(update(get_rowid_cell(x), new_row))
                       \/ c.stmt.op = "delete" /\ Handles(delete(get_rowid_cell(x)))
  BY DEF ExecForeignUpdate, ExecForeignDelete
<1>2. get_rowid_cell(x) = x.id
  BY <1>0 DEF get_rowid_cell
<1>3. phase = "open" /\ contexts = 1 /\ inst = FreshInstance /\ c.w \in Writers
  BY <1>1 DEF TakesRow, ChangeInv
<1>4. CASE x.id = Null
  <2>1. UNCHANGED <<phase, inst, request, contexts>>
    BY <1>1, <1>2, <1>4 DEF SkipsRow
  <2> QED BY <1>1, <1>3, <1>4, <2>1, ChangeInvTakes
<1>5. CASE x.id # Null /\ c.stmt.op = "update" /\ Handles(update(x.id, new_row))
  <2> DEFINE res == update(x.id, new_row)
             kind == IF c.w = "dynamodb" THEN "upsert" ELSE "set"
  <2>1. res.err \in Outcomes
    BY UpdateOutcomes
  <2>2. res.err = "ok" => /\ c.stmt.column # "rowid" /\ res.inst = inst
                          /\ res.ask = Request(kind, <<>>, x.id, c.stmt.cells)
    BY <1>0, <1>3, <1>5, UpdateAsks
  <2>3. Handles(res)
    BY <1>5
  <2> HIDE DEF res
  <2>4. ASSUME res.err = "ok"
        PROVE  res.ask.kind # "none" /\ \A r : r.id = x.id => AsksToChange(res.ask, r)
    <3>1. res.ask.kind = kind /\ res.ask.id = x.id /\ res.ask.cells = c.stmt.cells
      BY <2>2, <2>4 DEF Request
    <3> QED BY <1>5, <2>2, <2>4, <3>1 DEF AsksToChange
  <2> QED BY <1>1, <1>5, <2>1, <2>2, <2>3, <2>4, HandlesChange
<1>6. CASE x.id # Null /\ c.stmt.op = "delete" /\ Handles(delete(x.id))
  <2> DEFINE res == delete(x.id)
  <2>1. res.err \in Outcomes
    BY DeleteOutcomes
  <2>2. res.err = "ok" => res.inst = inst /\ res.ask = Request("del", <<>>, x.id, <<>>)
    BY <1>0, <1>3, <1>6, DeleteAsks
  <2>3. Handles(res)
    BY <1>6
  <2> HIDE DEF res
  <2>4. ASSUME res.err = "ok"
        PROVE  res.ask.kind # "none" /\ \A r : r.id = x.id => AsksToChange(res.ask, r)
    <3>1. res.ask.kind = "del" /\ res.ask.id = x.id
      BY <2>2, <2>4 DEF Request
    <3> QED BY <1>6, <3>1 DEF AsksToChange
  <2> QED BY <1>1, <1>6, <2>1, <2>2, <2>3, <2>4, HandlesChange
<1> QED BY <1>1, <1>2, <1>4, <1>5, <1>6

\* The remote side makes a change, answered or not: of the rows that are to be
\* changed it takes one out, if that was not done.
LEMMA WritesOne ==
  ASSUME ChangeInv, WriteInv, ChangesRows(c), ~Idle, c' = c, table' = Effect(request)
  PROVE  /\ TableInv'
         /\ \E r \in Chosen :
              /\ AsksToChange(request, r)
              /\ \A q \in Chosen : Undone(q)' <=> Undone(q) /\ q # r
              /\ ~Undone(r) => table' = table
              /\ Undone(r) => table' = Effected!Made({[old |-> {r}, new |-> NewRows(r)]})
<1>1. c \in Cases /\ TableInv
  BY DEF WriteInv, ChangeInv
<1>2. PICK r \in Chosen : AsksToChange(request, r)
  BY DEF ChangeInv, AskInv
<1>3. /\ OneEach(table) /\ DOMAIN table \subseteq c.rows \cup Goals
      /\ c.w = "dynamodb" /\ c.stmt.op = "update" => {q.id : q \in c.rows} \subseteq Ids
  BY <1>1 DEF TableInv
<1>4. /\ ~Undone(r) => table' = table
      /\ Undone(r) => /\ NewRows(r) \cap DOMAIN table = {}
                      /\ table' = [x \in (DOMAIN table \ {r}) \cup NewRows(r) |-> 1]
  BY <1>1, <1>2, <1>3, EffectIs
<1>5. Goals' = Goals /\ Chosen' = Chosen /\ \A q : Target(q)' = Target(q)
  BY StatementStays
<1>6. /\ r \in c.rows /\ \A x \in c.rows \cup Goals : x.id = r.id => x = r \/ x = Target(r)
      /\ \A q \in Chosen : q \in c.rows
      /\ \A a, b \in c.rows : a.id = b.id => a = b
  BY <1>1, RowsOfChanges DEF ChangesRows
<1>7. CASE ~Undone(r)
  <2>1. table' = table
    BY <1>4, <1>7
  <2>2. TableInv'
    BY <1>3, <1>5, <2>1 DEF TableInv, OneEach, Ids
  <2>3. \A q \in Chosen : Undone(q)' <=> Undone(q) /\ q # r
    BY <1>5, <1>7, <2>1 DEF Undone
  <2> QED BY <1>2, <1>7, <2>1, <2>2, <2>3
<1>8. CASE Undone(r)
  <2> DEFINE N == NewRows(r)
             E == (DOMAIN table \ {r}) \cup N
  <2>1. N \cap DOMAIN table = {} /\ table' = [x \in E |-> 1] /\ r \in DOMAIN table
    BY <1>4, <1>8 DEF Undone
  <2>2. ASSUME NEW x \in N
        PROVE  x = Target(r) /\ x # r /\ x \in Goals /\ x.id = r.id
    <3>1. c.stmt.op = "update" /\ x = Target(r)
      BY DEF NewRows
    <3>2. c.stmt.column # "rowid"
      BY <1>2, <3>1 DEF AsksToChange
    <3>3. x \in Goals /\ x # r
      BY <1>8, <3>1, <3>2 DEF Goals, Undone
    <3>4. x.id = r.id
      <4>1. r \in Rows
        BY <1>1, <1>6, CaseIs
      <4>2. Target(r) = [r EXCEPT !.val = Last(c.stmt.cells)]
        BY <3>2 DEF Target
      <4> QED BY <3>1, <4>1, <4>2 DEF Rows
    <3> QED BY <3>1, <3>3, <3>4
  <2>3. N = {} \/ N = {Target(r)}
    BY DEF NewRows
  <2>4. DOMAIN table' = E
    BY <2>1
  <2> HIDE DEF N, E
  <2>5. OneEach(table)'
    <3>1. table' = [x \in DOMAIN table' |-> 1]
      BY <2>1, <2>4
    <3>2. ASSUME NEW a \in E, NEW b \in E, a.id = b.id PROVE a = b
      <4>1. CASE a \in N /\ b \in N
        BY <2>2, <4>1
      <4>2. CASE a \notin N /\ b \notin N
        BY <1>3, <3>2, <4>2 DEF OneEach, E
      <4>3. CASE a \in N /\ b \notin N
        <5>1. b \in DOMAIN table /\ b # r /\ b.id = r.id
          BY <2>2, <3>2, <4>3 DEF E
        <5> QED BY <1>3, <2>1, <5>1 DEF OneEach
      <4>4. CASE a \notin N /\ b \in N
        <5>1. a \in DOMAIN table /\ a # r /\ a.id = r.id
          BY <2>2, <3>2, <4>4 DEF E
        <5> QED BY <1>3, <2>1, <5>1 DEF OneEach
      <4> QED BY <4>1, <4>2, <4>3, <4>4
    <3> QED BY <2>4, <3>1, <3>2 DEF OneEach
  <2>6. E \subseteq c.rows \cup Goals
    BY <1>3, <2>2 DEF E
  <2>7. ASSUME c.w = "dynamodb", c.stmt.op = "update", NEW q \in c.rows PROVE q.id \in Ids'
    <3>1. Ids' = {x.id : x \in E}
      BY <2>4 DEF Ids
    <3>2. PICK x \in DOMAIN table : x.id = q.id
      BY <1>3, <2>7 DEF Ids
    <3>3. CASE x # r
      BY <3>1, <3>2, <3>3 DEF E
    <3>4. CASE x = r
      <4>1. Target(r) \in N
        BY <2>7 DEF N, NewRows
      <4> QED BY <2>2, <3>1, <3>2, <3>4, <4>1 DEF E
    <3> QED BY <3>3, <3>4
  <2>8. TableInv'
    BY <1>5, <2>4, <2>5, <2>6, <2>7 DEF TableInv
  <2>9. ASSUME NEW q \in Chosen PROVE Undone(q)' <=> Undone(q) /\ q # r
    <3>1. Undone(q)' <=> q \in E /\ (c.stmt.op = "update" => Target(q) # q)
      BY <1>5, <2>4 DEF Undone
    <3>2. q \notin N
      <4> SUFFICES ASSUME q \in N PROVE FALSE
        OBVIOUS
      <4>1. q.id = r.id /\ q # r
        BY <2>2
      <4> QED BY <1>6, <4>1
    <3> QED BY <3>1, <3>2 DEF E, Undone
  <2>10. table' = Effected!Made({[old |-> {r}, new |-> N]})
    BY <1>3, <2>1, MadeOfOne DEF E
  <2> QED BY <1>2, <1>8, <2>8, <2>9, <2>10 DEF N
<1> QED BY <1>7, <1>8

\* The remote side has made a change.
LEMMA ChangeInvWrites ==
  ASSUME ChangeInv, WriteInv, LifeInv, ChangesRows(c), RemoteWrites
  PROVE  ChangeInv'
<1> USE DEF local
<1>1. /\ ~Idle /\ table' = Effect(request) /\ UNCHANGED <<c, scan>>
      /\ phase = "open" /\ contexts = 1 /\ inst = FreshInstance /\ c \in Cases
  BY DEF RemoteWrites, LifeInv, ChangeInv, WriteInv
<1>2. \/ UNCHANGED <<inst, phase, contexts>> /\ request' \in {request, NoRequest}
      \/ phase' = "failed" /\ contexts' = 0 /\ inst' = FreshInstance /\ request' = NoRequest
  BY <1>1 DEF RemoteWrites, Answered, SendAgain, GivesUp, DropState
<1>3. /\ ScanInv /\ AskInv /\ CoverInv /\ ~c.stmt.explain
      /\ ~c.stmt.explain /\ phase = "open" => contexts = 1 /\ c.w \in Writers
  BY <1>1 DEF ChangeInv
<1>4. TableInv'
  BY <1>1, WritesOne
<1>5. PICK r \in Chosen : /\ AsksToChange(request, r)
                          /\ \A q \in Chosen : Undone(q)' <=> Undone(q) /\ q # r
  BY <1>1, WritesOne
<1>6. ~Unread /\ Unread' = Unread /\ \A q : Ahead(q)' = Ahead(q)
  BY <1>1, <1>3 DEF ScanInv, Unread, Ahead
<1>7. Range(scan.rows)' = Range(scan.rows) /\ Chosen' = Chosen /\ Goals' = Goals
  BY <1>1, StatementStays DEF Range
<1>8. ScanInv'
  BY <1>1, <1>2, <1>3, <1>6, <1>7 DEF ScanInv
<1>9. AskInv'
  <2>1. CASE request' = NoRequest
    BY <2>1 DEF AskInv, Idle
  <2>2. CASE request' = request
    <3>1. AsksToChange(request, r)'
      BY <1>1, <1>5, <2>2 DEF AsksToChange
    <3> QED BY <1>5, <1>7, <3>1 DEF AskInv
  <2> QED BY <1>2, <2>1, <2>2
<1>10. CoverInv'
  <2> SUFFICES ASSUME NEW q \in Chosen, Undone(q), q # r
               PROVE  q \in Range(scan.rows) \/ Ahead(q)
    BY <1>5, <1>6, <1>7 DEF CoverInv
  <2>1. q \in Range(scan.rows) \/ Ahead(q) \/ request.id = q.id
    BY <1>1, <1>3 DEF CoverInv
  <2>2. request.id # q.id
    <3>1. request.id = r.id
      BY <1>5 DEF AsksToChange
    <3>2. \A a, b \in c.rows : a.id = b.id => a = b
      BY DEF ChangesRows
    <3>3. q \in c.rows /\ r \in c.rows
      BY DEF Chosen
    <3> QED BY <3>1, <3>2, <3>3
  <2> QED BY <2>1, <2>2
<1> QED BY <1>1, <1>2, <1>3, <1>4, <1>8, <1>9, <1>10 DEF ChangeInv

\* Another client deletes a row.
LEMMA ChangeInvRival ==
  ASSUME ChangeInv, WriteInv, ChangesRows(c), RivalDeletes
  PROVE  ChangeInv'
<1> USE DEF local
<1>1. UNCHANGED <<c, scan, inst, phase, request, contexts>>
  BY DEF RivalDeletes
<1>2. PICK id \in c.rivals \cap Ids : table' = Without({id})
  BY DEF RivalDeletes
<1>3. table' = [x \in {y \in DOMAIN table : y.id \notin {id}} |-> table[x]]
  BY <1>2 DEF Without
<1>4. DOMAIN table' = {y \in DOMAIN table : y.id \notin {id}}
  BY <1>3
<1>5. TableInv /\ ScanInv /\ AskInv /\ CoverInv
  BY DEF ChangeInv
<1>6. Unread' = Unread /\ Idle' = Idle /\ \A q : Ahead(q)' = Ahead(q)
  BY <1>1 DEF Unread, Idle, Ahead
<1>7. /\ Range(scan.rows)' = Range(scan.rows) /\ Chosen' = Chosen /\ Goals' = Goals
      /\ \A q : Target(q)' = Target(q)
  BY <1>1, StatementStays DEF Range
<1>8. TableInv'
  <2>1. OneEach(table)'
    BY <1>3, <1>4, <1>5 DEF TableInv, OneEach
  <2>2. c.w = "dynamodb" /\ c.stmt.op = "update" => FALSE
    BY <1>2 DEF ChangesRows
  <2> QED BY <1>1, <1>4, <1>5, <1>7, <2>1, <2>2 DEF TableInv
<1>9. ScanInv'
  BY <1>1, <1>4, <1>5, <1>6, <1>7 DEF ScanInv
<1>10. AskInv'
  <2>1. \A r : AsksToChange(request, r)' = AsksToChange(request, r)
    BY <1>1 DEF AsksToChange
  <2> QED BY <1>5, <1>6, <1>7, <2>1 DEF AskInv
<1>11. CoverInv'
  <2>1. \A r \in Chosen : Undone(r)' => Undone(r)
    BY <1>1, <1>4, <1>7 DEF Undone
  <2> QED BY <1>1, <1>5, <1>6, <1>7, <2>1 DEF CoverInv
<1> QED BY <1>1, <1>8, <1>9, <1>10, <1>11 DEF ChangeInv

LEMMA ChangeInvStep ==
  ASSUME ChangeInv, WriteInv, LifeInv, [Next]_vars, ChangesRows(c)
  PROVE  ChangeInv'
<1> USE DEF local
<1>1. /\ phase # "ending" /\ inst = FreshInstance
      /\ c.stmt.explain => contexts = 0
      /\ ~c.stmt.explain /\ phase = "open" => contexts = 1 /\ c.w \in Writers
      /\ c.stmt.op \in {"update", "delete"} /\ c.w \in Writers \cup ReadOnlyGuests
  BY DEF ChangeInv, ChangesRows
<1>2. CASE PlanForeignModify
  <2>1. phase = "plan" /\ phase' \in {"failed", "begin"}
        /\ UNCHANGED <<c, scan, table, inst, contexts, request>>
    BY <1>2 DEF PlanForeignModify
  <2> QED BY <1>1, <2>1, ChangeInvQuiet
<1>3. CASE BeginForeignModify
  <2>1. phase = "begin" /\ UNCHANGED <<c, scan, table, inst, request>>
        /\ phase' \in {"open", "failed"}
    BY <1>3 DEF BeginForeignModify
  <2>2. c.stmt.explain => contexts' = 0
    BY <1>1, <1>3 DEF BeginForeignModify
  <2>3. ~c.stmt.explain /\ phase' = "open" => contexts' = 1 /\ c.w \in Writers
    BY <1>1, <1>3 DEF BeginForeignModify
  <2> QED BY <1>1, <2>1, <2>2, <2>3, ChangeInvQuiet
<1>4. CASE ExecForeignInsert
  BY <1>1, <1>4 DEF ExecForeignInsert
<1>5. CASE FetchPage
  BY <1>5, ChangeInvFetch
<1>6. CASE ExecForeignUpdate \/ ExecForeignDelete
  BY <1>6, ChangeInvExec
<1>7. CASE RemoteWrites
  BY <1>7, ChangeInvWrites
<1>8. CASE RemoteRefuses
  <2>1. /\ UNCHANGED <<c, scan, table>> /\ phase = "open" /\ inst' = FreshInstance
        /\ \/ UNCHANGED <<request, contexts, phase>>
           \/ phase' = "failed" /\ request' = NoRequest /\ contexts' = 0
    BY <1>1, <1>8 DEF RemoteRefuses, SendAgain, DropState, LifeInv
  <2> QED BY <1>1, <2>1, ChangeInvQuiet
<1>9. CASE EndForeignModify
  <2>1. phase = "open" /\ Idle /\ UNCHANGED <<c, scan, table>>
    BY <1>9 DEF EndForeignModify
  <2>2. CASE contexts = 0
    <3>1. phase' = "done" /\ UNCHANGED <<inst, request, contexts>>
      BY <1>9, <2>2 DEF EndForeignModify
    <3> QED BY <1>1, <2>1, <2>2, <3>1, ChangeInvQuiet
  <2>3. CASE contexts # 0
    <3>1. end_modify = Quiet(inst)
      BY <1>1, <2>1, <2>3, EndsQuietly
    <3>2. /\ end_modify.err = "ok" /\ end_modify.inst = inst /\ end_modify.ask = NoRequest
      BY <3>1 DEF Quiet, Result
    <3>3. phase' = "done" /\ inst' = inst /\ request' = NoRequest /\ contexts' = 0
      BY <1>9, <2>3, <3>2 DEF EndForeignModify
    <3> QED BY <1>1, <2>1, <3>3, ChangeInvQuiet
  <2> QED BY <2>2, <2>3
<1>10. CASE AbortElsewhere
  <2>1. phase = "open" /\ phase' = "failed" /\ UNCHANGED <<c, scan, table, request, contexts>>
        /\ inst' = FreshInstance
    BY <1>10 DEF AbortElsewhere, Unwind
  <2> QED BY <1>1, <2>1, ChangeInvQuiet
<1>11. CASE RivalDeletes
  BY <1>11, ChangeInvRival
<1>12. CASE Finished \/ UNCHANGED vars
  <2>1. UNCHANGED <<c, phase, scan, inst, request, table, contexts>>
    BY <1>12 DEF Finished, vars
  <2> QED BY <1>1, <2>1, ChangeInvQuiet
<1> QED BY <1>2, <1>3, <1>4, <1>5, <1>6, <1>7, <1>8, <1>9, <1>10, <1>11, <1>12 DEF Next

\* The changes of the rows in S, and the rows that change at all.
Swap(r) == [old |-> {r}, new |-> NewRows(r)]
Swaps(S) == {Swap(r) : r \in S}
Movable == {r \in Chosen : c.stmt.op = "update" => Target(r) # r}

LEMMA SwapIs ==
  /\ \A r : Swap(r).old = {r} /\ Swap(r).new = NewRows(r)
  /\ \A r, q : Swap(r) = Swap(q) => r = q
<1>1. ASSUME NEW r PROVE Swap(r).old = {r} /\ Swap(r).new = NewRows(r)
  BY DEF Swap
<1>2. ASSUME NEW r, NEW q, Swap(r) = Swap(q) PROVE r = q
  <2>1. {r} = {q}
    BY <1>1, <1>2
  <2> QED BY <2>1
<1> QED BY <1>1, <1>2

LEMMA SwapsAre ==
  ASSUME NEW S, NEW r
  PROVE  Swap(r) \in Swaps(S) <=> r \in S
BY SwapIs DEF Swaps

LEMMA SwapsWithout ==
  ASSUME NEW S, NEW T
  PROVE  Swaps(S \ T) = Swaps(S) \ Swaps(T)
<1>1. ASSUME NEW ch \in Swaps(S \ T) PROVE ch \in Swaps(S) \ Swaps(T)
  <2>1. PICK r \in S \ T : ch = Swap(r)
    BY DEF Swaps
  <2> QED BY <2>1, SwapsAre
<1>2. ASSUME NEW ch \in Swaps(S) \ Swaps(T) PROVE ch \in Swaps(S \ T)
  <2>1. PICK r \in S : ch = Swap(r)
    BY DEF Swaps
  <2> QED BY <2>1, SwapsAre
<1> QED BY <1>1, <1>2

\* What is still to be done of such a statement when T are the rows of the table.
LEMMA ChangesAre ==
  ASSUME ChangesRows(c), NEW T
  PROVE  /\ c.stmt.explain => Changes = {}
         /\ ~c.stmt.explain =>
              /\ Changes = Swaps(Movable)
              /\ {ch \in Changes : IF ch.old = {} THEN ~(ch.new \subseteq T) ELSE ch.old \subseteq T}
                   = Swaps(Movable \cap T)
<1>1. CASE c.stmt.explain
  BY <1>1 DEF Changes
<1>2. CASE ~c.stmt.explain
  <2> DEFINE todo == {ch \in Changes : IF ch.old = {} THEN ~(ch.new \subseteq T) ELSE ch.old \subseteq T}
  <2>1. Changes = Swaps(Movable)
    <3>1. CASE c.stmt.op = "update"
      BY <1>2, <3>1 DEF Changes, Swaps, Swap, Movable, NewRows
    <3>2. CASE c.stmt.op = "delete"
      BY <1>2, <3>2 DEF Changes, Swaps, Swap, Movable, NewRows
    <3> QED BY <3>1, <3>2 DEF ChangesRows
  <2>2. ASSUME NEW ch \in todo PROVE ch \in Swaps(Movable \cap T)
    <3>1. PICK r \in Movable : ch = Swap(r)
      BY <2>1 DEF Swaps
    <3>2. r \in T
      BY <3>1, SwapIs
    <3> QED BY <3>1, <3>2, SwapsAre
  <2>3. ASSUME NEW ch \in Swaps(Movable \cap T) PROVE ch \in todo
    <3>1. PICK r \in Movable \cap T : ch = Swap(r)
      BY DEF Swaps
    <3>2. ch \in Changes
      BY <2>1, <3>1, SwapsAre
    <3>3. ch.old = {r} /\ {r} \subseteq T /\ {r} # {}
      BY <3>1, SwapIs
    <3> QED BY <3>2, <3>3
  <2> HIDE DEF todo
  <2>4. todo = Swaps(Movable \cap T)
    BY <2>2, <2>3
  <2> QED BY <1>2, <2>1, <2>4 DEF todo
<1> QED BY <1>1, <1>2

\* Each step of an UPDATE or DELETE is a step of the abstract statement, or none.
LEMMA ChangeStep ==
  ASSUME ChangeInv, WriteInv, LifeInv, [Next]_vars, ChangesRows(c)
  PROVE  [Effected!Next]_(Effected!vars)
<1> USE DEF local
<1>0. c \in Cases /\ c.stmt.op \in {"update", "delete"} /\ IsTable(table)
  BY DEF WriteInv, ChangesRows
<1>1. /\ TableInv /\ phase # "ending" /\ inst = FreshInstance
      /\ c.stmt.explain => contexts = 0
      /\ ~c.stmt.explain /\ phase = "open" => contexts = 1 /\ c.w \in Writers
  BY DEF ChangeInv
<1>2. phase \in {"plan", "begin", "open", "done", "failed"}
  BY <1>1 DEF LifeInv
<1>3. /\ c.stmt.explain => Changes = {} /\ Outstanding = {}
      /\ ~c.stmt.explain => Changes = Swaps(Movable) /\ Outstanding = Swaps(Movable \cap DOMAIN table)
  BY ChangesAre DEF Outstanding
<1>4. ASSUME c' = c
      PROVE  /\ Changes' = Changes /\ (c.w \in Retrying)' = (c.w \in Retrying)
             /\ c.stmt.explain => Outstanding' = {}
             /\ ~c.stmt.explain => Outstanding' = Swaps(Movable \cap DOMAIN table')
  <2>1. Changes' = Changes /\ (c.w \in Retrying)' = (c.w \in Retrying)
    BY <1>4 DEF Changes, Target, Chosen
  <2>2. Outstanding' = {ch \in Changes : IF ch.old = {} THEN ~(ch.new \subseteq DOMAIN table')
                                         ELSE ch.old \subseteq DOMAIN table'}
    BY <2>1 DEF Outstanding
  <2>3. ~c.stmt.explain =>
          {ch \in Changes : IF ch.old = {} THEN ~(ch.new \subseteq DOMAIN table')
                            ELSE ch.old \subseteq DOMAIN table'} = Swaps(Movable \cap DOMAIN table')
    BY ChangesAre
  <2> QED BY <1>3, <2>1, <2>2, <2>3
<1>5. ASSUME UNCHANGED <<c, table, phase>> PROVE UNCHANGED Effected!vars
  <2>1. Outstanding' = Outstanding
    BY <1>3, <1>4, <1>5
  <2> QED BY <1>4, <1>5, <2>1 DEF Effected!vars
\* A step that makes the changes in S without finishing the statement.
<1>6. ASSUME c' = c, phase \notin {"done", "failed"}, phase' # "done",
             NEW S, S \subseteq Outstanding, Outstanding' = Outstanding \ S, table' = Effected!Made(S)
      PROVE  Effected!Write
  BY <1>4, <1>6, Zenon DEF Effected!Write
\* One that fails, or goes on, with the table as it is.
<1>7. ASSUME UNCHANGED <<c, table>>, phase \notin {"done", "failed"}, phase' # "done"
      PROVE  Effected!Write
  <2>1. Outstanding' = Outstanding \ {}
    BY <1>3, <1>4, <1>7
  <2>2. table' = Effected!Made({})
    BY <1>0, <1>7, NothingMade
  <2> QED BY <1>6, <1>7, <2>1, <2>2
\* One that finishes the statement.
<1>8. ASSUME UNCHANGED <<c, table>>, phase \notin {"done", "failed"}, phase' = "done", Outstanding = {}
      PROVE  Effected!WriteAndFinish
  <2>1. Outstanding' = {}
    BY <1>3, <1>4, <1>8
  <2>2. table' = Effected!Made(Outstanding)
    BY <1>0, <1>8, NothingMade
  <2> QED BY <1>4, <1>8, <2>1, <2>2, Zenon DEF Effected!WriteAndFinish
<1>9. CASE PlanForeignModify
  <2>1. phase = "plan" /\ phase' \in {"failed", "begin"} /\ UNCHANGED <<c, table>>
    BY <1>9 DEF PlanForeignModify
  <2> QED BY <1>7, <2>1 DEF Effected!Next
<1>10. CASE BeginForeignModify
  <2>1. phase = "begin" /\ phase' \in {"failed", "open"} /\ UNCHANGED <<c, table>>
    BY <1>10 DEF BeginForeignModify
  <2> QED BY <1>7, <2>1 DEF Effected!Next
<1>11. CASE ExecForeignInsert
  BY <1>0, <1>11 DEF ExecForeignInsert
<1>12. CASE FetchPage
  <2>1. phase = "open" /\ phase' = "open" /\ UNCHANGED <<c, table>>
    BY <1>12 DEF FetchPage
  <2> QED BY <1>7, <2>1 DEF Effected!Next
<1>13. CASE ExecForeignUpdate \/ ExecForeignDelete
  <2>1. PICK x : /\ TakesRow(x)
                 /\ \/ SkipsRow
                    \/ Handles(update(get_rowid_cell(x), new_row))
                    \/ Handles(delete(get_rowid_cell(x)))
    BY <1>13 DEF ExecForeignUpdate, ExecForeignDelete
  <2>2. phase = "open" /\ UNCHANGED <<c, table>>
    BY <2>1 DEF TakesRow
  <2>3. SkipsRow \/ \E res : res.err \in Outcomes /\ Handles(res)
    BY <2>1, UpdateOutcomes, DeleteOutcomes
  <2>4. phase' \in {"open", "failed"}
    BY <2>2, <2>3 DEF SkipsRow, Handles, DropState, Unwind, Outcomes
  <2> QED BY <1>7, <2>2, <2>4 DEF Effected!Next
<1>14. CASE RemoteWrites
  <2>1. ~Idle /\ table' = Effect(request) /\ UNCHANGED c /\ phase = "open" /\ contexts = 1
    BY <1>1, <1>14 DEF RemoteWrites, LifeInv
  <2>2. phase' \in {"open", "failed"}
    BY <1>14, <2>1 DEF RemoteWrites, Answered, SendAgain, GivesUp, DropState
  <2>3. PICK r \in Chosen :
          /\ \A q \in Chosen : Undone(q)' <=> Undone(q) /\ q # r
          /\ ~Undone(r) => table' = table
          /\ Undone(r) => table' = Effected!Made({[old |-> {r}, new |-> NewRows(r)]})
    BY <2>1, WritesOne
  <2>4. CASE ~Undone(r)
    BY <1>7, <2>1, <2>2, <2>3, <2>4 DEF Effected!Next
  <2>5. CASE Undone(r)
    <3>1. \A q \in Chosen : Undone(q) <=> q \in Movable \cap DOMAIN table
      BY DEF Undone, Movable
    <3>2. \A q \in Chosen : Undone(q)' <=> q \in Movable \cap DOMAIN table'
      <4>1. \A q : Target(q)' = Target(q)
        BY <2>1, StatementStays
      <4> QED BY <2>1, <4>1 DEF Undone, Movable
    <3>3. Movable \cap DOMAIN table' = (Movable \cap DOMAIN table) \ {r}
      <4>1. Movable \subseteq Chosen
        BY DEF Movable
      <4> QED BY <2>3, <3>1, <3>2, <4>1
    <3>4. /\ Outstanding = Swaps(Movable \cap DOMAIN table)
          /\ Outstanding' = Swaps((Movable \cap DOMAIN table) \ {r})
      <4>1. ~c.stmt.explain
        BY <1>1, <2>1
      <4> QED BY <1>3, <1>4, <2>1, <3>3, <4>1
    <3>5. Outstanding' = Outstanding \ Swaps({r})
      BY <3>4, SwapsWithout
    <3>6. Swaps({r}) = {Swap(r)} /\ Swap(r) \in Outstanding
      BY <2>5, <3>1, <3>4, SwapsAre DEF Swaps
    <3>7. table' = Effected!Made({Swap(r)})
      BY <2>3, <2>5 DEF Swap
    <3> QED BY <1>6, <2>1, <2>2, <3>5, <3>6, <3>7 DEF Effected!Next
  <2> QED BY <2>4, <2>5
<1>15. CASE RemoteRefuses
  <2>1. phase = "open" /\ UNCHANGED <<c, table>> /\ phase' \in {"open", "failed"}
    BY <1>1, <1>15 DEF RemoteRefuses, SendAgain, DropState, LifeInv
  <2> QED BY <1>7, <2>1 DEF Effected!Next
<1>16. CASE EndForeignModify
  <2>1. phase = "open" /\ Idle /\ UNCHANGED <<c, table>>
    BY <1>16 DEF EndForeignModify
  <2>2. CASE phase' = "done"
    <3>1. CASE c.stmt.explain
      BY <1>3, <1>8, <2>1, <2>2, <3>1 DEF Effected!Next
    <3>2. CASE ~c.stmt.explain
      <4>1. scan.end /\ scan.rows = <<>>
        BY <1>0, <1>1, <1>16, <2>1, <3>2 DEF EndForeignModify
      <4>2. \A r \in Chosen : ~Undone(r)
        <5>1. Range(scan.rows) = {}
          BY <4>1 DEF Range
        <5>2. \A r : ~Ahead(r)
          BY <4>1 DEF Ahead, Unread
        <5> QED BY <2>1, <5>1, <5>2 DEF ChangeInv, CoverInv
      <4>3. Movable \cap DOMAIN table = {}
        BY <4>2 DEF Movable, Undone
      <4>4. Outstanding = {}
        BY <1>3, <3>2, <4>3 DEF Swaps
      <4> QED BY <1>8, <2>1, <2>2, <4>4 DEF Effected!Next
    <3> QED BY <3>1, <3>2
  <2>3. CASE phase' # "done"
    BY <1>7, <2>1, <2>3 DEF Effected!Next
  <2> QED BY <2>2, <2>3
<1>17. CASE AbortElsewhere
  <2>1. phase = "open" /\ phase' = "failed" /\ UNCHANGED <<c, table>>
    BY <1>17 DEF AbortElsewhere, Unwind
  <2> QED BY <1>7, <2>1 DEF Effected!Next
<1>18. CASE RivalDeletes
  <2>1. PICK id \in c.rivals \cap Ids : table' = Without({id})
    BY <1>18 DEF RivalDeletes
  <2>2. UNCHANGED <<c, phase>> /\ phase \notin {"done", "failed"}
    BY <1>18 DEF RivalDeletes
  <2>3. PICK r \in DOMAIN table : r.id = id
    BY <2>1 DEF Ids
  <2>4. {x \in DOMAIN table : x.id \notin {id}} = DOMAIN table \ {r}
    BY <1>1, <2>3 DEF TableInv, OneEach
  <2>5. table' = [x \in DOMAIN table \ {r} |-> table[x]]
    BY <2>1, <2>4 DEF Without
  <2>6. DOMAIN table' = DOMAIN table \ {r}
    BY <2>5
  <2>7. Outstanding' = {ch \in Outstanding : r \notin ch.old}
    <3>1. CASE c.stmt.explain
      BY <1>3, <1>4, <2>2, <3>1
    <3>2. CASE ~c.stmt.explain
      <4> DEFINE now == Movable \cap DOMAIN table
      <4>1. Outstanding' = Swaps(now \ {r}) /\ Outstanding = Swaps(now)
        <5>1. Movable \cap DOMAIN table' = now \ {r}
          BY <2>6
        <5> QED BY <1>3, <1>4, <2>2, <3>2, <5>1
      <4> HIDE DEF now
      <4>2. ASSUME NEW ch \in Swaps(now) PROVE ch \in Swaps(now \ {r}) <=> r \notin ch.old
        <5>1. PICK q \in now : ch = Swap(q)
          BY DEF Swaps
        <5>2. ch.old = {q} /\ (ch \in Swaps(now \ {r}) <=> q \in now \ {r})
          BY <5>1, SwapIs, SwapsAre
        <5> QED BY <5>2
      <4>3. Swaps(now \ {r}) \subseteq Swaps(now)
        BY DEF Swaps
      <4> QED BY <4>1, <4>2, <4>3
    <3> QED BY <3>1, <3>2
  <2>8. Effected!LosesRow
    BY <1>4, <2>2, <2>3, <2>5, <2>7, Zenon DEF Effected!LosesRow
  <2> QED BY <2>8 DEF Effected!Next
<1>19. CASE Finished \/ UNCHANGED vars
  <2>1. UNCHANGED <<c, table, phase>>
    BY <1>19 DEF Finished, vars
  <2> QED BY <1>5, <2>1
<1> QED BY <1>9, <1>10, <1>11, <1>12, <1>13, <1>14, <1>15, <1>16, <1>17, <1>18, <1>19 DEF Next

\* For every UPDATE and DELETE with a row id to find its rows by, whatever the
\* wrapper reads in pages while its own changes move the rows under the scan,
\* with requests refused, answers lost and requests sent again, while others
\* delete rows: every row of the statement is changed once and no other row is;
\* success is reported only when none is left as it was.
THEOREM ChangesImplement == Spec => (ChangesRows(c) => Implements)
<1> DEFINE Inv == ChangeInv /\ WriteInv /\ LifeInv /\ ChangesRows(c)
<1>1. ASSUME Init, ChangesRows(c) PROVE ChangeInv /\ Effected!Init
  <2>1. phase = "plan" /\ DOMAIN table = c.rows
    BY <1>1 DEF Init, SetToBag
  <2>2. Outstanding = Changes
    <3>1. Movable \cap DOMAIN table = Movable
      BY <2>1 DEF Movable, Chosen
    <3> QED BY <1>1, <3>1, ChangesAre DEF Outstanding
  <2> QED BY <1>1, <2>1, <2>2, ChangeInvInit DEF Effected!Init
<1>2. Init /\ ChangesRows(c) => Inv /\ Effected!Init
  BY <1>1, WriteInvInit, LifeInvInit
<1>3. Inv /\ [Next]_vars => Inv' /\ [Effected!Next]_(Effected!vars)
  <2> SUFFICES ASSUME Inv, [Next]_vars PROVE Inv' /\ [Effected!Next]_(Effected!vars)
    OBVIOUS
  <2>1. WriteInv' /\ LifeInv'
    BY WriteInvStep, LifeInvStep
  <2>2. ChangesRows(c)'
    BY SameStatement DEF ChangesRows
  <2> QED BY <2>1, <2>2, ChangeInvStep, ChangeStep
<1> HIDE DEF Inv
<1> QED BY <1>2, <1>3, PTL DEF Spec, Implements, Effected!Spec
=============================================================================
