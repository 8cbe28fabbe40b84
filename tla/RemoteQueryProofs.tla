------------------------- MODULE RemoteQueryProofs -------------------------
(***************************************************************************)
(* Proofs about RemoteQuery for every table and every statement a wrapper  *)
(* can answer (Answerable): what is pushed down changes neither the rows   *)
(* nor the aggregates.                                                     *)
(***************************************************************************)
EXTENDS RemoteQuery, FiniteSetTheorems, NaturalsInduction, TLAPS

-----------------------------------------------------------------------------
(* Induction, and the library's operators on sequences.                    *)

\* Every set of naturals has a least member.
LEMMA LeastMember ==
  ASSUME NEW T, T \subseteq Nat, T # {}
  PROVE  \E x \in T : \A y \in T : x <= y
<1>1. PICK x \in T : \A y \in T : ~(<<y, x>> \in OpToRel(<, Nat))
  BY NatLessThanWellFounded, WFMin, Zenon
<1>2. \A y \in T : ~(y < x)
  BY <1>1, Zenon DEF OpToRel
<1> QED BY <1>2

\* A set with 0 and all successors of its members has every natural.
LEMMA Inductive ==
  ASSUME NEW S, 0 \in S, \A n \in Nat : n \in S => n + 1 \in S
  PROVE  Nat \subseteq S
<1> SUFFICES ASSUME Nat \ S # {} PROVE FALSE
  OBVIOUS
<1>1. PICK x \in Nat \ S : \A y \in Nat \ S : x <= y
  BY LeastMember, Nat \ S \subseteq Nat
<1>2. x - 1 \in Nat /\ x - 1 \in S
  BY <1>1
<1> QED BY <1>1, <1>2

LEMMA AppendIs ==
  ASSUME NEW S, NEW s \in Seq(S), NEW x \in S
  PROVE  Append(s, x) \in Seq(S) /\ Append(s, x) # <<>>
<1> DEFINE t == Append(s, x)
<1>1. t \in Seq(S) /\ Len(t) = Len(s) + 1 /\ Len(s) \in Nat
  OBVIOUS
<1>2. Len(t) # 0
  BY <1>1
<1> HIDE DEF t
<1>3. t # <<>>
  BY <1>2
<1> QED BY <1>1, <1>3 DEF t

\* f[i] is the first i sequences of ss one after the other.
Concats(ss, f, n) ==
  \A i \in 1..n : (i = 1 => f[i] = ss[i]) /\ (i # 1 => f[i] = f[i - 1] \o ss[i])

LEMMA ConcatsExist ==
  ASSUME NEW S, NEW ss \in Seq(Seq(S)), NEW n \in 0..Len(ss)
  PROVE  \E f \in [1..n -> Seq(S)] : Concats(ss, f, n)
<1> DEFINE Has == {k \in Nat : k <= Len(ss) => \E f \in [1..k -> Seq(S)] : Concats(ss, f, k)}
<1>1. 0 \in Has
  <2> DEFINE e == [i \in 1..0 |-> <<>>]
  <2>1. e \in [1..0 -> Seq(S)] /\ Concats(ss, e, 0)
    BY DEF Concats
  <2> QED BY <2>1
<1>2. ASSUME NEW k \in Nat, k \in Has PROVE k + 1 \in Has
  <2>1. SUFFICES ASSUME k + 1 <= Len(ss)
                 PROVE  \E f \in [1..(k + 1) -> Seq(S)] : Concats(ss, f, k + 1)
    OBVIOUS
  <2>2. PICK f \in [1..k -> Seq(S)] : Concats(ss, f, k)
    BY <1>2, <2>1
  <2> DEFINE last == IF k = 0 THEN ss[1] ELSE f[k] \o ss[k + 1]
             g == [i \in 1..(k + 1) |-> IF i = k + 1 THEN last ELSE f[i]]
  <2>3. last \in Seq(S)
    <3>1. ss[k + 1] \in Seq(S)
      BY <2>1
    <3>2. CASE k = 0
      BY <3>1, <3>2
    <3>3. CASE k # 0
      BY <3>1, <3>3
    <3> QED BY <3>2, <3>3
  <2>4. g \in [1..(k + 1) -> Seq(S)]
    BY <2>3
  <2>5. ASSUME NEW i \in 1..(k + 1)
        PROVE  (i = 1 => g[i] = ss[i]) /\ (i # 1 => g[i] = g[i - 1] \o ss[i])
    <3>1. CASE i = k + 1
      <4>1. g[i] = last
        BY <3>1
      <4>5. k # 0 => i # 1
        BY <3>1
      <4>2. k = 0 => i = 1 /\ last = ss[i]
        BY <3>1
      <4>3. k # 0 => last = f[k] \o ss[i]
        BY <3>1, Zenon
      <4>4. k # 0 => g[i - 1] = f[k]
        <5> HIDE DEF last
        <5> QED BY <3>1
      <4> QED BY <4>1, <4>2, <4>3, <4>4, <4>5
    <3>2. CASE i # k + 1
      <4>1. g[i] = f[i] /\ i \in 1..k
        BY <3>2
      <4>2. (i = 1 => f[i] = ss[i]) /\ (i # 1 => f[i] = f[i - 1] \o ss[i])
        BY <2>2, <4>1 DEF Concats
      <4>3. i # 1 => g[i - 1] = f[i - 1]
        BY <4>1
      <4> QED BY <4>1, <4>2, <4>3
    <3> QED BY <3>1, <3>2
  <2>6. Concats(ss, g, k + 1)
    BY <2>5, Zenon DEF Concats
  <2> HIDE DEF g
  <2> QED BY <2>4, <2>6
<1>3. Nat \subseteq Has
  <2> HIDE DEF Has
  <2> QED BY <1>1, <1>2, Inductive
<1> QED BY <1>3

\* To show where flattening leads: G[i] is to hold what the first i sequences make.
LEMMA FlattenReaches ==
  ASSUME NEW S, NEW ss \in Seq(Seq(S)), NEW G, <<>> \in G[0],
         Len(ss) # 0 => ss[1] \in G[1],
         \A i \in 2..Len(ss), s \in Seq(S) : s \in G[i - 1] => s \o ss[i] \in G[i]
  PROVE  FlattenSeq(ss) \in Seq(S) /\ FlattenSeq(ss) \in G[Len(ss)]
<1>1. CASE Len(ss) = 0
  <2>1. FlattenSeq(ss) = ss
    BY <1>1 DEF FlattenSeq
  <2>2. ss = <<>> /\ <<>> \in Seq(S)
    BY <1>1
  <2> QED BY <1>1, <2>1, <2>2
<1>2. CASE Len(ss) # 0
  <2> DEFINE E(f) == f = [i \in 1..Len(ss) |-> IF i = 1 THEN ss[i] ELSE f[i - 1] \o ss[i]]
             ch == CHOOSE f : E(f)
  <2>1. FlattenSeq(ss) = ch[Len(ss)]
    BY <1>2 DEF FlattenSeq
  <2>2. \E f : E(f)
    <3>1. PICK f \in [1..Len(ss) -> Seq(S)] : Concats(ss, f, Len(ss))
      BY ConcatsExist
    <3>2. \A i \in 1..Len(ss) : f[i] = IF i = 1 THEN ss[i] ELSE f[i - 1] \o ss[i]
      BY <3>1, Zenon DEF Concats
    <3>3. f = [i \in 1..Len(ss) |-> f[i]]
      BY <3>1
    <3>4. f = [i \in 1..Len(ss) |-> IF i = 1 THEN ss[i] ELSE f[i - 1] \o ss[i]]
      BY <3>2, <3>3, Zenon
    <3> QED BY <3>4, Zenon
  <2>3. ch = [i \in 1..Len(ss) |-> IF i = 1 THEN ss[i] ELSE ch[i - 1] \o ss[i]]
    BY <2>2, Zenon
  <2> HIDE DEF ch
  <2>4. Concats(ss, ch, Len(ss))
    <3>1. \A i \in 1..Len(ss) : ch[i] = IF i = 1 THEN ss[i] ELSE ch[i - 1] \o ss[i]
      BY <2>3, Zenon
    <3> QED BY <3>1, Zenon DEF Concats
  <2> DEFINE Has == {j \in Nat : j \in 1..Len(ss) => ch[j] \in Seq(S) /\ ch[j] \in G[j]}
  <2>5. 0 \in Has
    OBVIOUS
  <2>6. ASSUME NEW j \in Nat, j \in Has PROVE j + 1 \in Has
    <3> SUFFICES ASSUME NEW m, m = j + 1, m \in 1..Len(ss) PROVE ch[m] \in Seq(S) /\ ch[m] \in G[m]
      OBVIOUS
    <3>1. (m = 1 => ch[m] = ss[m]) /\ (m # 1 => ch[m] = ch[m - 1] \o ss[m])
      BY <2>4, Zenon DEF Concats
    <3>2. ss[m] \in Seq(S)
      OBVIOUS
    <3>3. m # 1 => m - 1 = j /\ j \in 1..Len(ss) /\ m \in 2..Len(ss)
      OBVIOUS
    <3>4. m # 1 => ch[m - 1] \in Seq(S) /\ ch[m - 1] \in G[m - 1]
      BY <2>6, <3>3, Zenon
    <3>5. m # 1 => ch[m - 1] \o ss[m] \in Seq(S) /\ ch[m - 1] \o ss[m] \in G[m]
      BY <3>2, <3>3, <3>4
    <3>6. m = 1 => ss[m] \in G[m]
      BY <1>2
    <3> QED BY <3>1, <3>2, <3>5, <3>6, Zenon
  <2>7. Nat \subseteq Has
    <3> HIDE DEF Has
    <3> QED BY <2>5, <2>6, Inductive
  <2>8. ch[Len(ss)] \in Seq(S) /\ ch[Len(ss)] \in G[Len(ss)]
    BY <1>2, <2>7
  <2> QED BY <2>1, <2>8
<1> QED BY <1>1, <1>2

\* Flattening keeps to the elements of the sequences.
LEMMA FlattenKeeps ==
  ASSUME NEW S, NEW ss \in Seq(Seq(S))
  PROVE  FlattenSeq(ss) \in Seq(S)
<1> DEFINE G == [i \in 0..Len(ss) |-> Seq(S)]
<1>1. <<>> \in Seq(S) /\ Len(ss) \in Nat /\ \A i \in 0..Len(ss) : G[i] = Seq(S)
  OBVIOUS
<1>2. <<>> \in G[0] /\ (Len(ss) # 0 => ss[1] \in G[1])
  BY <1>1
<1>3. ASSUME NEW i \in 2..Len(ss), NEW s \in Seq(S) PROVE s \o ss[i] \in G[i]
  <2>1. ss[i] \in Seq(S) /\ i \in 0..Len(ss)
    BY <1>1
  <2> QED BY <1>1, <2>1
<1> HIDE DEF G
<1> QED BY <1>2, <1>3, FlattenReaches

\* f[i] is what is in T of the first i elements of s.
Selects(s, T, f, n) ==
  f[0] = <<>> /\ \A i \in 1..n : f[i] = IF s[i] \in T THEN Append(f[i - 1], s[i]) ELSE f[i - 1]

LEMMA SelectsExist ==
  ASSUME NEW S, NEW s \in Seq(S), NEW T, NEW n \in 0..Len(s)
  PROVE  \E f \in [0..n -> Seq(S)] : Selects(s, T, f, n)
<1> DEFINE Has == {k \in Nat : k <= Len(s) => \E f \in [0..k -> Seq(S)] : Selects(s, T, f, k)}
<1>1. 0 \in Has
  <2> DEFINE e == [i \in 0..0 |-> <<>>]
  <2>1. <<>> \in Seq(S)
    OBVIOUS
  <2>2. e \in [0..0 -> Seq(S)] /\ e[0] = <<>>
    BY <2>1
  <2>3. Selects(s, T, e, 0)
    BY <2>2 DEF Selects
  <2> HIDE DEF e
  <2> QED BY <2>2, <2>3
<1>2. ASSUME NEW k \in Nat, k \in Has PROVE k + 1 \in Has
  <2>1. SUFFICES ASSUME NEW m, m = k + 1, m <= Len(s)
                 PROVE  \E f \in [0..m -> Seq(S)] : Selects(s, T, f, m)
    OBVIOUS
  <2>2. PICK f \in [0..k -> Seq(S)] : Selects(s, T, f, k)
    BY <1>2, <2>1
  <2> DEFINE last == IF s[m] \in T THEN Append(f[k], s[m]) ELSE f[k]
             g == [i \in 0..m |-> IF i = m THEN last ELSE f[i]]
  <2>3. last \in Seq(S)
    <3>1. s[m] \in S /\ f[k] \in Seq(S)
      BY <2>1
    <3> QED BY <3>1
  <2>4. g \in [0..m -> Seq(S)]
    BY <2>1, <2>3
  <2>5. ASSUME NEW i \in 1..m
        PROVE  g[i] = IF s[i] \in T THEN Append(g[i - 1], s[i]) ELSE g[i - 1]
    <3>1. CASE i = m
      <4>1. g[i] = last /\ g[i - 1] = f[k]
        <5> HIDE DEF last
        <5> QED BY <2>1, <3>1
      <4> QED BY <3>1, <4>1, Zenon
    <3>2. CASE i # m
      <4>1. g[i] = f[i] /\ g[i - 1] = f[i - 1] /\ i \in 1..k
        <5> HIDE DEF last
        <5> QED BY <2>1, <3>2
      <4>2. f[i] = IF s[i] \in T THEN Append(f[i - 1], s[i]) ELSE f[i - 1]
        BY <2>2, <4>1, Zenon DEF Selects
      <4> QED BY <4>1, <4>2, Zenon
    <3> QED BY <3>1, <3>2
  <2>6. g[0] = <<>>
    <3>1. f[0] = <<>>
      BY <2>2 DEF Selects
    <3> HIDE DEF last
    <3> QED BY <2>1, <3>1
  <2>7. Selects(s, T, g, m)
    BY <2>5, <2>6, Zenon DEF Selects
  <2> HIDE DEF g
  <2> QED BY <2>4, <2>7
<1>3. Nat \subseteq Has
  <2> HIDE DEF Has
  <2> QED BY <1>1, <1>2, Inductive
<1> QED BY <1>3

LEMMA OnlyIs ==
  ASSUME NEW S, NEW s \in Seq(S), NEW T
  PROVE  \E ch : Only(s, T) = ch[Len(s)] /\ Selects(s, T, ch, Len(s))
<1> DEFINE E(f) == f = [i \in 0..Len(s) |->
                         IF i = 0 THEN <<>>
                         ELSE IF s[i] \in T THEN Append(f[i - 1], s[i]) ELSE f[i - 1]]
           ch == CHOOSE f : E(f)
<1>1. Only(s, T) = ch[Len(s)]
  BY DEF Only
<1>2. \E f : E(f)
  <2>0. Len(s) \in 0..Len(s)
    OBVIOUS
  <2>1. PICK f \in [0..Len(s) -> Seq(S)] : Selects(s, T, f, Len(s))
    <3> HIDE DEF E
    <3> QED BY <2>0, SelectsExist
  <2>2. ASSUME NEW i \in 0..Len(s)
        PROVE  f[i] = IF i = 0 THEN <<>>
                      ELSE IF s[i] \in T THEN Append(f[i - 1], s[i]) ELSE f[i - 1]
    <3>1. i # 0 => i \in 1..Len(s)
      OBVIOUS
    <3> QED BY <2>1, <3>1, Zenon DEF Selects
  <2>3. f = [i \in 0..Len(s) |-> f[i]]
    BY <2>1
  <2>4. E(f)
    BY <2>2, <2>3, Zenon
  <2> QED BY <2>4, Zenon
<1>3. ch = [i \in 0..Len(s) |->
              IF i = 0 THEN <<>>
              ELSE IF s[i] \in T THEN Append(ch[i - 1], s[i]) ELSE ch[i - 1]]
  BY <1>2, Zenon
<1> HIDE DEF ch
<1>4. Len(s) \in Nat
  OBVIOUS
<1>5. Selects(s, T, ch, Len(s))
  <2>1. \A i \in 0..Len(s) : ch[i] = IF i = 0 THEN <<>>
                ELSE IF s[i] \in T THEN Append(ch[i - 1], s[i]) ELSE ch[i - 1]
    BY <1>3, Zenon
  <2>2. 0 \in 0..Len(s) /\ \A i \in 1..Len(s) : i \in 0..Len(s) /\ i # 0
    BY <1>4
  <2> QED BY <2>1, <2>2, Zenon DEF Selects
<1> QED BY <1>1, <1>5

\* The elements of a flattened sequence are those of its parts.
LEMMA FlattenHas ==
  ASSUME NEW S, NEW ss \in Seq(Seq(S))
  PROVE  /\ FlattenSeq(ss) \in Seq(S)
         /\ Range(FlattenSeq(ss)) = UNION {Range(ss[i]) : i \in DOMAIN ss}
<1> DEFINE Parts(n) == UNION {Range(ss[i]) : i \in 1..n}
           G == [n \in 0..Len(ss) |-> {s \in Seq(S) : Range(s) = Parts(n)}]
<1>1. Len(ss) \in Nat /\ DOMAIN ss = 1..Len(ss) /\ \A i \in 1..Len(ss) : ss[i] \in Seq(S)
  OBVIOUS
<1>2. <<>> \in G[0]
  <2>1. <<>> \in Seq(S) /\ Range(<<>>) = {}
    BY DEF Range
  <2>2. Parts(0) = {}
    OBVIOUS
  <2> QED BY <1>1, <2>1, <2>2
<1>3. Len(ss) # 0 => ss[1] \in G[1]
  <2>1. Parts(1) = Range(ss[1])
    BY 1..1 = {1}
  <2>2. Len(ss) # 0 => 1 \in 0..Len(ss) /\ ss[1] \in Seq(S)
    BY <1>1
  <2> HIDE DEF Parts
  <2> QED BY <2>1, <2>2
<1>4. ASSUME NEW i \in 2..Len(ss), NEW s \in Seq(S), s \in G[i - 1] PROVE s \o ss[i] \in G[i]
  <2>1. i \in 0..Len(ss) /\ i - 1 \in 0..Len(ss) /\ ss[i] \in Seq(S)
    BY <1>1
  <2>2. Range(s) = Parts(i - 1)
    BY <1>4, <2>1
  <2>3. s \o ss[i] \in Seq(S) /\ Range(s \o ss[i]) = Range(s) \cup Range(ss[i])
    <3> DEFINE t == ss[i]
               c == s \o t
    <3>1. t \in Seq(S)
      BY <2>1
    <3> HIDE DEF t
    <3>2. /\ c \in Seq(S) /\ Len(c) = Len(s) + Len(t) /\ DOMAIN c = 1..Len(c)
          /\ DOMAIN s = 1..Len(s) /\ DOMAIN t = 1..Len(t) /\ Len(s) \in Nat /\ Len(t) \in Nat
          /\ \A k \in 1..Len(c) : c[k] = IF k <= Len(s) THEN s[k] ELSE t[k - Len(s)]
      BY <3>1
    <3> HIDE DEF c
    <3>3. ASSUME NEW x \in Range(c) PROVE x \in Range(s) \cup Range(t)
      <4>1. PICK k \in DOMAIN c : x = c[k]
        BY DEF Range
      <4>2. k <= Len(s) => k \in DOMAIN s /\ x = s[k]
        BY <3>2, <4>1
      <4>3. ~(k <= Len(s)) => k - Len(s) \in DOMAIN t /\ x = t[k - Len(s)]
        BY <3>2, <4>1
      <4> QED BY <4>2, <4>3 DEF Range
    <3>4. ASSUME NEW x \in Range(s) PROVE x \in Range(c)
      <4>1. PICK k \in DOMAIN s : x = s[k]
        BY DEF Range
      <4>2. k \in 1..Len(c) /\ c[k] = x
        BY <3>2, <4>1
      <4> QED BY <3>2, <4>2 DEF Range
    <3>5. ASSUME NEW x \in Range(t) PROVE x \in Range(c)
      <4>1. PICK k \in DOMAIN t : x = t[k]
        BY DEF Range
      <4>2. /\ k \in 1..Len(t) /\ Len(s) \in Nat /\ Len(t) \in Nat
            /\ Len(c) = Len(s) + Len(t)
        BY <3>2, <4>1
      <4>3. /\ Len(s) + k \in 1..Len(c) /\ ~(Len(s) + k <= Len(s))
            /\ (Len(s) + k) - Len(s) = k
        BY ONLY <4>2
      <4>4. c[Len(s) + k] = t[k]
        BY ONLY <3>2, <4>3
      <4> QED BY <3>2, <4>1, <4>3, <4>4 DEF Range
    <3>6. Range(c) = Range(s) \cup Range(t)
      BY <3>3, <3>4, <3>5
    <3> QED BY <3>2, <3>6 DEF c, t
  <2>4. Parts(i) = Parts(i - 1) \cup Range(ss[i])
    <3>1. 1..i = (1..(i - 1)) \cup {i}
      BY <2>1
    <3> QED BY <3>1
  <2> QED BY <2>1, <2>2, <2>3, <2>4
<1>5. FlattenSeq(ss) \in Seq(S) /\ FlattenSeq(ss) \in G[Len(ss)]
  <2> HIDE DEF G
  <2> QED BY <1>2, <1>3, <1>4, FlattenReaches
<1> QED BY <1>1, <1>5

LEMMA ShortIs ==
  ASSUME NEW S, NEW t \in Seq(S), Len(t) <= 1
  PROVE  Len(t) \in {0, 1} /\ (Len(t) = 1 => t # <<>>)
<1>1. Len(t) \in Nat
  OBVIOUS
<1>2. Len(t) = 1 => t # <<>>
  OBVIOUS
<1>3. \A n \in Nat : n <= 1 => n \in {0, 1}
  OBVIOUS
<1> QED BY <1>1, <1>2, <1>3

\* If no part has more than one element and no place is missing, no part is empty.
LEMMA FlattenFull ==
  ASSUME NEW S, NEW ss \in Seq(Seq(S)), \A i \in DOMAIN ss : Len(ss[i]) <= 1,
         Len(FlattenSeq(ss)) = Len(ss)
  PROVE  \A i \in DOMAIN ss : ss[i] # <<>>
<1> DEFINE Full(n) == \A i \in 1..n : ss[i] # <<>>
           G == [n \in 0..Len(ss) |-> {s \in Seq(S) : Len(s) <= n /\ (Len(s) = n => Full(n))}]
<1>1. /\ Len(ss) \in Nat /\ DOMAIN ss = 1..Len(ss)
      /\ \A i \in 1..Len(ss) : ss[i] \in Seq(S) /\ Len(ss[i]) \in {0, 1} /\ (Len(ss[i]) = 1 => ss[i] # <<>>)
  <2>1. Len(ss) \in Nat /\ DOMAIN ss = 1..Len(ss)
    OBVIOUS
  <2>2. ASSUME NEW i \in 1..Len(ss)
        PROVE  ss[i] \in Seq(S) /\ Len(ss[i]) \in {0, 1} /\ (Len(ss[i]) = 1 => ss[i] # <<>>)
    <3>1. ss[i] \in Seq(S) /\ Len(ss[i]) <= 1
      <4>1. i \in DOMAIN ss
        BY <2>1
      <4>2. Len(ss[i]) <= 1
        BY <4>1, Zenon
      <4> QED BY <4>1, <4>2
    <3> QED BY <3>1, ShortIs
  <2> QED BY <2>1, <2>2
<1>2. <<>> \in G[0]
  <2>1. <<>> \in Seq(S) /\ Len(<<>>) = 0 /\ Full(0)
    OBVIOUS
  <2> QED BY <1>1, <2>1
<1>3. Len(ss) # 0 => ss[1] \in G[1]
  <2>1. Full(1) <=> ss[1] # <<>>
    BY 1..1 = {1}
  <2> HIDE DEF Full
  <2> QED BY <1>1, <2>1
<1>4. ASSUME NEW i \in 2..Len(ss), NEW s \in Seq(S), s \in G[i - 1] PROVE s \o ss[i] \in G[i]
  <2>1. i \in 0..Len(ss) /\ i - 1 \in 0..Len(ss) /\ i \in 1..Len(ss)
    BY <1>1
  <2>2. ss[i] \in Seq(S) /\ Len(ss[i]) \in {0, 1} /\ (Len(ss[i]) = 1 => ss[i] # <<>>)
    BY <1>1, <2>1
  <2>3. Len(s) <= i - 1 /\ (Len(s) = i - 1 => Full(i - 1)) /\ Len(s) \in Nat
    BY <1>4, <2>1
  <2>4. s \o ss[i] \in Seq(S) /\ Len(s \o ss[i]) = Len(s) + Len(ss[i])
    BY <2>2
  <2>5. Full(i - 1) /\ ss[i] # <<>> => Full(i)
    <3>1. 1..i = (1..(i - 1)) \cup {i}
      BY <2>1
    <3> QED BY <3>1
  <2> HIDE DEF Full
  <2>6. Len(s) + Len(ss[i]) <= i /\ (Len(s) + Len(ss[i]) = i => Full(i))
    <3> DEFINE x == Len(s)
               y == Len(ss[i])
    <3>0. i \in Nat /\ x \in Nat /\ x <= i - 1 /\ y \in {0, 1}
      BY <2>1, <2>2, <2>3
    <3> HIDE DEF x, y
    <3>3. x + y <= i /\ (x + y = i => x = i - 1 /\ y = 1)
      BY ONLY <3>0
    <3>1. Len(s) + Len(ss[i]) <= i
      BY <3>3 DEF x, y
    <3>2. Len(s) + Len(ss[i]) = i => Len(s) = i - 1 /\ Len(ss[i]) = 1
      BY <3>3 DEF x, y
    <3> QED BY <2>2, <2>3, <2>5, <3>1, <3>2
  <2> QED BY <2>1, <2>4, <2>6
<1>5. FlattenSeq(ss) \in Seq(S) /\ FlattenSeq(ss) \in G[Len(ss)]
  <2> HIDE DEF G
  <2> QED BY <1>2, <1>3, <1>4, FlattenReaches
<1>6. Full(Len(ss))
  <2> HIDE DEF Full
  <2> QED BY <1>1, <1>5
<1> QED BY <1>1, <1>6

\* Only keeps exactly the elements in T, and everything if all are.
LEMMA OnlyHas ==
  ASSUME NEW S, NEW s \in Seq(S), NEW T
  PROVE  Only(s, T) \in Seq(S) /\ Range(Only(s, T)) = Range(s) \cap T
<1>1. PICK ch : Only(s, T) = ch[Len(s)] /\ Selects(s, T, ch, Len(s))
  BY OnlyIs
<1>2. Len(s) \in Nat /\ DOMAIN s = 1..Len(s)
  OBVIOUS
<1> DEFINE Has == {j \in Nat : j <= Len(s) =>
                     ch[j] \in Seq(S) /\ Range(ch[j]) = {s[i] : i \in 1..j} \cap T}
<1>3. 0 \in Has
  <2>1. ch[0] = <<>> /\ <<>> \in Seq(S) /\ Range(<<>>) = {} /\ {s[i] : i \in 1..0} = {}
    BY <1>1 DEF Selects, Range
  <2> QED BY <2>1
<1>4. ASSUME NEW j \in Nat, j \in Has PROVE j + 1 \in Has
  <2> SUFFICES ASSUME NEW m, m = j + 1, m <= Len(s)
               PROVE  ch[m] \in Seq(S) /\ Range(ch[m]) = {s[i] : i \in 1..m} \cap T
    OBVIOUS
  <2>1. m \in 1..Len(s) /\ m - 1 = j /\ j <= Len(s) /\ 1..m = (1..j) \cup {m} /\ s[m] \in S
    BY <1>2
  <2>2. ch[m] = IF s[m] \in T THEN Append(ch[j], s[m]) ELSE ch[j]
    BY <1>1, <2>1, Zenon DEF Selects
  <2>3. ch[j] \in Seq(S) /\ Range(ch[j]) = {s[i] : i \in 1..j} \cap T
    BY <1>4, <2>1
  <2>4. {s[i] : i \in 1..m} = {s[i] : i \in 1..j} \cup {s[m]}
    BY <2>1
  <2> HIDE DEF Has
  <2>5. Append(ch[j], s[m]) \in Seq(S) /\ Range(Append(ch[j], s[m])) = Range(ch[j]) \cup {s[m]}
    <3> DEFINE e == s[m]
               b == ch[j]
               a == Append(b, e)
    <3>1. b \in Seq(S) /\ e \in S
      BY <2>1, <2>3
    <3> HIDE DEF b, e
    <3>2. /\ a \in Seq(S) /\ Len(a) = Len(b) + 1 /\ DOMAIN a = 1..Len(a) /\ DOMAIN b = 1..Len(b)
          /\ Len(b) \in Nat /\ \A k \in 1..Len(b) : a[k] = b[k]
          /\ a[Len(b) + 1] = e
      BY <3>1
    <3> HIDE DEF a
    <3>3. Range(a) = Range(b) \cup {e}
      BY <3>2 DEF Range
    <3> QED BY <3>2, <3>3 DEF a, b, e
  <2> QED BY <2>2, <2>3, <2>4, <2>5
<1>5. Nat \subseteq Has
  <2> HIDE DEF Has
  <2> QED BY <1>3, <1>4, Inductive
<1>6. ch[Len(s)] \in Seq(S) /\ Range(ch[Len(s)]) = {s[i] : i \in 1..Len(s)} \cap T
  <2>1. Len(s) \in Has
    BY <1>2, <1>5
  <2> QED BY <1>2, <2>1
<1> QED BY <1>1, <1>2, <1>6 DEF Range

LEMMA OnlyAll ==
  ASSUME NEW S, NEW s \in Seq(S), NEW T, \A i \in DOMAIN s : s[i] \in T
  PROVE  Only(s, T) = s
<1>1. PICK ch : Only(s, T) = ch[Len(s)] /\ Selects(s, T, ch, Len(s))
  BY OnlyIs
<1>2. Len(s) \in Nat /\ DOMAIN s = 1..Len(s)
  OBVIOUS
<1> DEFINE Has == {j \in Nat : j <= Len(s) =>
                     ch[j] \in Seq(S) /\ Len(ch[j]) = j /\ \A i \in 1..j : ch[j][i] = s[i]}
<1>3. 0 \in Has
  <2>1. ch[0] = <<>> /\ <<>> \in Seq(S) /\ Len(<<>>) = 0 /\ 1..0 = {}
    BY <1>1 DEF Selects
  <2> QED BY <2>1
<1>4. ASSUME NEW j \in Nat, j \in Has PROVE j + 1 \in Has
  <2> SUFFICES ASSUME NEW m, m = j + 1, m <= Len(s)
               PROVE  ch[m] \in Seq(S) /\ Len(ch[m]) = m /\ \A i \in 1..m : ch[m][i] = s[i]
    OBVIOUS
  <2>1. m \in 1..Len(s) /\ m - 1 = j /\ j <= Len(s) /\ 1..m = (1..j) \cup {m} /\ s[m] \in S
    BY <1>2
  <2>2. ch[m] = Append(ch[j], s[m])
    <3>1. ch[m] = IF s[m] \in T THEN Append(ch[j], s[m]) ELSE ch[j]
      BY <1>1, <2>1, Zenon DEF Selects
    <3>2. s[m] \in T
      BY <1>2, <2>1
    <3> QED BY <3>1, <3>2
  <2>3. ch[j] \in Seq(S) /\ Len(ch[j]) = j /\ \A i \in 1..j : ch[j][i] = s[i]
    BY <1>4, <2>1
  <2> HIDE DEF Has
  <2> DEFINE e == s[m]
             b == ch[j]
             a == Append(b, e)
  <2>4. b \in Seq(S) /\ e \in S /\ Len(b) = j /\ \A i \in 1..j : b[i] = s[i]
    BY <2>1, <2>3
  <2> HIDE DEF b
  <2>5. a \in Seq(S) /\ Len(a) = m /\ (\A i \in 1..j : a[i] = b[i]) /\ a[m] = e
    BY <2>1, <2>4
  <2>6. ch[m] = a
    BY <2>2 DEF b
  <2> HIDE DEF a
  <2> QED BY <2>1, <2>4, <2>5, <2>6
<1>5. Nat \subseteq Has
  <2> HIDE DEF Has
  <2> QED BY <1>3, <1>4, Inductive
<1>6. ch[Len(s)] \in Seq(S) /\ Len(ch[Len(s)]) = Len(s) /\ \A i \in 1..Len(s) : ch[Len(s)][i] = s[i]
  BY <1>2, <1>5
<1> DEFINE o == Only(s, T)
<1>7. o \in Seq(S) /\ Len(o) = Len(s) /\ \A i \in 1..Len(s) : o[i] = s[i]
  BY <1>1, <1>6
<1> HIDE DEF o
<1>8. o = s
  BY <1>2, <1>7
<1> QED BY <1>8 DEF o

\* A set of one element as a sequence.
LEMMA SeqOfOne == \A x : SetToSeq({x}) = <<x>>
<1> TAKE x
<1>1. Cardinality({x}) = 1
  BY FS_Singleton
<1> DEFINE f == [i \in 1..1 |-> x]
<1>2. f \in [1..1 -> {x}] /\ IsInjective(f)
  BY DEF IsInjective
<1>3. SetToSeq({x}) \in [1..1 -> {x}]
  BY <1>1, <1>2, Zenon DEF SetToSeq
<1>4. SetToSeq({x}) = f
  BY <1>3
<1> QED BY <1>4

LEMMA SeqOfNone == SetToSeq({}) = <<>>
<1>1. Cardinality({}) = 0
  BY FS_EmptySet
<1>2. <<>> \in [1..0 -> {}] /\ IsInjective(<<>>)
  BY DEF IsInjective
<1>3. SetToSeq({}) \in [1..0 -> {}]
  BY <1>1, <1>2, Zenon DEF SetToSeq
<1> QED BY <1>3

-----------------------------------------------------------------------------
(* What a qual says of a row.                                              *)

ColumnOf(q) == IF q.field = "j.x" THEN "j" ELSE q.field

IsTest(op) == op \in {"is", "is not"}

Means(q, r) ==
  LET x == r[ColumnOf(q)]
  IN  IF q.arr THEN IF q.useOr THEN \E i \in DOMAIN q.val : Compare(q.op, x, q.val[i]) = TRUE
                    ELSE \A i \in DOMAIN q.val : Compare(q.op, x, q.val[i]) = TRUE
      ELSE IF IsTest(q.op) THEN (IF q.val = Word THEN x = Null ELSE x = q.val) = (q.op = "is")
      ELSE Compare(q.op, x, q.val) = TRUE

IsQual(q) ==
  /\ q.field \in (Columns \ {"j"}) \cup {"j.x"}
  /\ q.arr \in BOOLEAN /\ q.useOr \in BOOLEAN
  /\ q.arr => /\ q.field # "j.x" /\ Applies(q.op, q.field)
              /\ q.val \in Seq(Values(q.field)) /\ Null \notin Range(q.val)
  /\ ~q.arr => /\ q.val # Null
               /\ \/ IsTest(q.op) /\ q.field # "j.x" /\ (q.val = Word \/ q.val \in BOOLEAN)
                  \/ Applies(q.op, ColumnOf(q)) /\ q.val \in Values(ColumnOf(q))

IsRow(r) == r = [c \in Columns |-> r[c]] /\ \A c \in Columns : r[c] = Null \/ r[c] \in Values(c)

\* q is made of c and says as much of the rows.
Says(c, q) ==
  /\ IsQual(q)
  /\ \A r : IsRow(r) => /\ Value(c, r) = TRUE => Means(q, r)
                        /\ Means(q, r) /\ (q.arr => q.useOr) => Value(c, r) = TRUE

\* An operator and the one with its operands exchanged.
LEMMA Commutes ==
  ASSUME NEW op \in DOMAIN Commutators, NEW col, Applies(op, col),
         NEW x, NEW y, x = Null \/ x \in Values(col), y = Null \/ y \in Values(col)
  PROVE  /\ Commutators[op] \in DOMAIN Commutators /\ Applies(Commutators[op], col)
         /\ ~IsTest(Commutators[op])
         /\ Compare(op, y, x) = Compare(Commutators[op], x, y)
<1>1. DOMAIN Commutators = {"=", "<>", "<", "<=", ">", ">="}
  BY DEF Commutators
<1>2. /\ Commutators["="] = "=" /\ Commutators["<>"] = "<>" /\ Commutators["<"] = ">"
      /\ Commutators["<="] = ">=" /\ Commutators[">"] = "<" /\ Commutators[">="] = "<="
  BY DEF Commutators
<1>3. /\ Commutators[op] \in DOMAIN Commutators /\ Applies(Commutators[op], col)
      /\ ~IsTest(Commutators[op])
  BY <1>1, <1>2 DEF Applies, IsTest
<1>4. CASE x = Null \/ y = Null
  BY <1>3, <1>4 DEF Compare
<1>5. CASE x # Null /\ y # Null
  <2>1. CASE op \in {"=", "<>"}
    <3>1. Commutators[op] = op
      BY <1>2, <2>1
    <3> QED BY <1>3, <1>5, <2>1, <3>1 DEF Compare
  <2>2. CASE op \in {"<", "<=", ">", ">="}
    <3>1. col \in {"k", "v", "t"}
      BY <2>2 DEF Applies
    <3>2. x \in Int /\ y \in Int
      BY <1>5, <3>1 DEF Values
    <3>3. CASE op = "<"
      BY <1>2, <1>3, <1>5, <3>2, <3>3 DEF Compare
    <3>4. CASE op = "<="
      BY <1>2, <1>3, <1>5, <3>2, <3>4 DEF Compare
    <3>5. CASE op = ">"
      BY <1>2, <1>3, <1>5, <3>2, <3>5 DEF Compare
    <3>6. CASE op = ">="
      BY <1>2, <1>3, <1>5, <3>2, <3>6 DEF Compare
    <3> QED BY <2>2, <3>3, <3>4, <3>5, <3>6
  <2> QED BY <1>1, <2>1, <2>2
<1> QED BY <1>4, <1>5

LEMMA AppliesNotTest == \A op, col : Applies(op, col) => ~IsTest(op)
BY DEF Applies, IsTest

LEMMA CompareIs ==
  ASSUME NEW op, NEW col, Applies(op, col), NEW x, NEW y,
         x = Null \/ x \in Values(col), y = Null \/ y \in Values(col)
  PROVE  Compare(op, x, y) \in BOOLEAN \cup {Null}
<1>2. CASE x = Null \/ y = Null
  BY <1>2 DEF Compare
<1>3. CASE x # Null /\ y # Null
  <2>1. CASE op \in {"=", "<>"}
    BY <1>3, <2>1 DEF Compare
  <2>2. CASE op \in {"<", "<=", ">", ">="}
    <3>1. col \in {"k", "v", "t"}
      BY <2>2 DEF Applies
    <3>2. x \in Int /\ y \in Int
      BY <1>3, <3>1 DEF Values
    <3> QED BY <1>3, <2>2, <3>2 DEF Compare
  <2>3. CASE op \in {"~~", "!~~", "~", "!~"}
    <3>1. IsPrefix(y, x) \in BOOLEAN /\ Within(y, x) \in BOOLEAN
      BY DEF IsPrefix, Within
    <3> QED BY <1>3, <2>3, <3>1, Zenon DEF Compare
  <2> QED BY <2>1, <2>2, <2>3 DEF Applies
<1> QED BY <1>2, <1>3

LEMMA OpSays ==
  ASSUME NEW c, IsClause(c), c.node \in {"op", "param", "json"}, NEW q \in Extracted(c)
  PROVE  Says(c, q) /\ q.arr = FALSE /\ Extracted(c) = {q}
<1>1. /\ c.arg # Null
      /\ Extracted(c) = {Qual(IF c.node = "json" THEN "j.x" ELSE c.col, c.op, c.arg, FALSE, FALSE, c.node = "param")}
  BY DEF Extracted, FromOpExpr
<1>2. q = Qual(IF c.node = "json" THEN "j.x" ELSE c.col, c.op, c.arg, FALSE, FALSE, c.node = "param")
  BY <1>1
<1>3. /\ q.field = (IF c.node = "json" THEN "j.x" ELSE c.col) /\ q.op = c.op /\ q.val = c.arg
      /\ q.arr = FALSE /\ q.useOr = FALSE
  BY <1>2 DEF Qual
<1>4. c.col \in Columns /\ Applies(c.op, c.col) /\ c.arg \in Values(c.col) /\ (c.node = "json") = (c.col = "j")
  BY <1>1 DEF IsClause
<1>5. ColumnOf(q) = c.col /\ q.field \in (Columns \ {"j"}) \cup {"j.x"}
  BY <1>3, <1>4 DEF ColumnOf, Columns
<1>6. IsQual(q)
  BY <1>1, <1>3, <1>4, <1>5 DEF IsQual
<1>7. ASSUME NEW r PROVE Value(c, r) = TRUE <=> Means(q, r)
  <2>1. Value(c, r) = Compare(c.op, r[c.col], c.arg)
    BY DEF Value
  <2>2. Means(q, r) <=> Compare(c.op, r[c.col], c.arg) = TRUE
    BY <1>3, <1>4, <1>5, AppliesNotTest DEF Means
  <2> QED BY <2>1, <2>2
<1> QED BY <1>1, <1>2, <1>3, <1>6, <1>7 DEF Says

LEMMA RevSays ==
  ASSUME NEW c, IsClause(c), c.node = "rev", NEW q \in Extracted(c)
  PROVE  Says(c, q) /\ q.arr = FALSE /\ Extracted(c) = {q}
<1>1. /\ c.arg # Null /\ c.op \in DOMAIN Commutators
      /\ Extracted(c) = {CellQual(c.col, Commutators[c.op], c.arg)}
  BY DEF Extracted, FromOpExpr
<1>3. /\ q.field = c.col /\ q.op = Commutators[c.op] /\ q.val = c.arg
      /\ q.arr = FALSE /\ q.useOr = FALSE
  BY <1>1 DEF CellQual, Qual
<1>4. c.col \in Columns \ {"j"} /\ Applies(c.op, c.col) /\ c.arg \in Values(c.col)
  BY <1>1 DEF IsClause
<1>5. ColumnOf(q) = c.col /\ q.field \in (Columns \ {"j"}) \cup {"j.x"}
  BY <1>3, <1>4 DEF ColumnOf, Columns
<1>6. Applies(q.op, c.col) /\ ~IsTest(q.op)
  BY <1>1, <1>3, <1>4, Commutes
<1>7. IsQual(q)
  BY <1>1, <1>3, <1>4, <1>5, <1>6 DEF IsQual
<1>8. ASSUME NEW r, IsRow(r) PROVE Value(c, r) = TRUE <=> Means(q, r)
  <2>1. Value(c, r) = Compare(c.op, c.arg, r[c.col])
    BY DEF Value
  <2>2. Means(q, r) <=> Compare(q.op, r[c.col], c.arg) = TRUE
    BY <1>3, <1>5, <1>6 DEF Means
  <2>3. Compare(c.op, c.arg, r[c.col]) = Compare(q.op, r[c.col], c.arg)
    BY <1>1, <1>3, <1>4, <1>8, Commutes DEF IsRow
  <2> QED BY <2>1, <2>2, <2>3
<1> QED BY <1>1, <1>3, <1>7, <1>8 DEF Says

LEMMA NullSays ==
  ASSUME NEW c, IsClause(c), c.node = "null", NEW q \in Extracted(c)
  PROVE  Says(c, q) /\ q.arr = FALSE /\ Extracted(c) = {q}
<1>1. Extracted(c) = {CellQual(c.col, c.op, Word)}
  BY DEF Extracted, FromNullTest
<1>3. q.field = c.col /\ q.op = c.op /\ q.val = Word /\ q.arr = FALSE /\ q.useOr = FALSE
  BY <1>1 DEF CellQual, Qual
<1>4. c.col \in Columns \ {"j"} /\ IsTest(c.op)
  BY DEF IsClause, IsTest
<1>5. ColumnOf(q) = c.col /\ q.field \in (Columns \ {"j"}) \cup {"j.x"} /\ q.field # "j.x"
  BY <1>3, <1>4 DEF ColumnOf, Columns
<1>7. IsQual(q)
  BY <1>3, <1>4, <1>5, CellAssumption DEF IsQual
<1>8. ASSUME NEW r PROVE Value(c, r) = TRUE <=> Means(q, r)
  <2>1. Value(c, r) = ((r[c.col] = Null) = (c.op = "is"))
    BY DEF Value
  <2>2. Means(q, r) <=> ((r[c.col] = Null) = (c.op = "is"))
    BY <1>3, <1>4, <1>5 DEF Means
  <2> QED BY <2>1, <2>2
<1> QED BY <1>1, <1>3, <1>7, <1>8 DEF Says

LEMMA TruthSays ==
  ASSUME NEW c, IsClause(c), c.node \in {"bool", "not", "test"}, NEW q \in Extracted(c)
  PROVE  Says(c, q) /\ q.arr = FALSE /\ Extracted(c) = {q}
<1>1. c.col = "b"
  BY DEF IsClause
<1>2. CASE c.node = "bool"
  <2>1. Extracted(c) = {CellQual("b", "=", TRUE)}
    BY <1>1, <1>2 DEF Extracted, FromVar
  <2>2. q.field = "b" /\ q.op = "=" /\ q.val = TRUE /\ q.arr = FALSE /\ q.useOr = FALSE
    BY <2>1 DEF CellQual, Qual
  <2>3. IsQual(q) /\ ColumnOf(q) = "b"
    BY <2>2, CellAssumption DEF IsQual, Applies, ColumnOf, Columns, Values
  <2>4. ASSUME NEW r, IsRow(r) PROVE Value(c, r) = TRUE <=> Means(q, r)
    <3>1. Value(c, r) = r["b"] /\ (r["b"] = Null \/ r["b"] \in BOOLEAN)
      BY <1>1, <1>2, <2>4 DEF Value, IsRow, Values, Columns
    <3>2. Means(q, r) <=> Compare("=", r["b"], TRUE) = TRUE
      BY <2>2, <2>3 DEF Means, IsTest
    <3>3. Null # TRUE
      BY CellAssumption
    <3>4. Compare("=", r["b"], TRUE) = TRUE <=> r["b"] = TRUE
      BY <3>3 DEF Compare
    <3> QED BY <3>1, <3>2, <3>4
  <2> QED BY <2>1, <2>2, <2>3, <2>4 DEF Says
<1>3. CASE c.node = "not"
  <2>1. Extracted(c) = {CellQual("b", "=", FALSE)}
    BY <1>1, <1>3 DEF Extracted, FromBoolExpr
  <2>2. q.field = "b" /\ q.op = "=" /\ q.val = FALSE /\ q.arr = FALSE /\ q.useOr = FALSE
    BY <2>1 DEF CellQual, Qual
  <2>3. IsQual(q) /\ ColumnOf(q) = "b"
    BY <2>2, CellAssumption DEF IsQual, Applies, ColumnOf, Columns, Values
  <2>4. ASSUME NEW r, IsRow(r) PROVE Value(c, r) = TRUE <=> Means(q, r)
    <3>0. Null # TRUE /\ Null # FALSE
      BY CellAssumption
    <3>1. Value(c, r) = (IF r["b"] = Null THEN Null ELSE ~r["b"]) /\ (r["b"] = Null \/ r["b"] \in BOOLEAN)
      BY <1>1, <1>3, <2>4 DEF Value, IsRow, Values, Columns
    <3>2. Means(q, r) <=> Compare("=", r["b"], FALSE) = TRUE
      BY <2>2, <2>3 DEF Means, IsTest
    <3>3. Compare("=", r["b"], FALSE) = TRUE <=> r["b"] = FALSE
      BY <3>0 DEF Compare
    <3>4. Value(c, r) = TRUE <=> r["b"] = FALSE
      BY <3>0, <3>1
    <3> QED BY <3>2, <3>3, <3>4
  <2> QED BY <2>1, <2>2, <2>3, <2>4 DEF Says
<1>4. CASE c.node = "test"
  <2>1. c.arg \in BOOLEAN /\ IsTest(c.op)
    BY <1>4 DEF IsClause, Extracted, FromBooleanTest, IsTest
  <2>2. Extracted(c) = {CellQual("b", c.op, c.arg)}
    BY <1>1, <1>4, <2>1, CellAssumption DEF Extracted, FromBooleanTest
  <2>3. q.field = "b" /\ q.op = c.op /\ q.val = c.arg /\ q.arr = FALSE /\ q.useOr = FALSE
    BY <2>2 DEF CellQual, Qual
  <2>4. q.val # Null /\ q.val # Word
    BY <2>1, <2>3, CellAssumption
  <2>5. IsQual(q) /\ ColumnOf(q) = "b"
    BY <2>1, <2>3, <2>4 DEF IsQual, ColumnOf, Columns
  <2>6. ASSUME NEW r PROVE Value(c, r) = TRUE <=> Means(q, r)
    <3>1. Value(c, r) = ((r["b"] = c.arg) = (c.op = "is"))
      BY <1>1, <1>4 DEF Value
    <3>2. Means(q, r) <=> ((r["b"] = c.arg) = (c.op = "is"))
      BY <2>1, <2>3, <2>4, <2>5 DEF Means
    <3> QED BY <3>1, <3>2
  <2> QED BY <2>2, <2>3, <2>5, <2>6 DEF Says
<1> QED BY <1>2, <1>3, <1>4

LEMMA ListSays ==
  ASSUME NEW c, IsClause(c), c.node = "list", NEW q \in Extracted(c)
  PROVE  Says(c, q) /\ Extracted(c) = {q}
<1>1. Extracted(c) = {Qual(c.col, c.op, FormArray(c.arg), TRUE, c.useOr, FALSE)}
  BY DEF Extracted, FromScalarArrayOpExpr
<1>2. q.field = c.col /\ q.op = c.op /\ q.val = FormArray(c.arg) /\ q.arr = TRUE /\ q.useOr = c.useOr
  BY <1>1 DEF Qual
<1>3. /\ c.col \in Columns \ {"j"} /\ Applies(c.op, c.col) /\ c.useOr \in BOOLEAN
      /\ c.arg \in Seq(Values(c.col) \cup {Null})
  BY DEF IsClause
<1>4. /\ q.val \in Seq(Values(c.col) \cup {Null})
      /\ Range(q.val) = Range(c.arg) \ {Null}
  BY <1>2, <1>3, OnlyHas DEF FormArray
<1>5. q.val \in Seq(Values(c.col)) /\ Null \notin Range(q.val)
  <2> DEFINE v == q.val
             V == Values(c.col)
  <2>1. v \in Seq(V \cup {Null}) /\ Null \notin Range(v)
    BY <1>4
  <2> HIDE DEF v, V
  <2>2. \A i \in 1..Len(v) : v[i] \in V
    BY <2>1 DEF Range
  <2>3. v \in Seq(V)
    BY <2>1, <2>2
  <2> QED BY <2>1, <2>3 DEF v, V
<1>6. ColumnOf(q) = c.col /\ q.field \in (Columns \ {"j"}) \cup {"j.x"} /\ q.field # "j.x"
  BY <1>2, <1>3 DEF ColumnOf, Columns
<1>7. IsQual(q)
  BY <1>2, <1>3, <1>5, <1>6 DEF IsQual
<1>8. ASSUME NEW r, IsRow(r)
      PROVE  /\ Value(c, r) = TRUE => Means(q, r)
             /\ Means(q, r) /\ q.useOr => Value(c, r) = TRUE
  <2> DEFINE Is(y) == Compare(c.op, r[c.col], y)
             each == {Is(c.arg[i]) : i \in DOMAIN c.arg}
  <2>1. Value(c, r) = IF c.useOr THEN AnyOf(each) ELSE AllOf(each)
    BY DEF Value
  <2>2. Null # TRUE /\ Null # FALSE /\ \A x : Compare(c.op, x, Null) = Null
    BY CellAssumption DEF Compare
  <2>3. c.useOr => (Means(q, r) <=> \E y \in Range(q.val) : Is(y) = TRUE)
    BY <1>2, <1>6 DEF Means, Range
  <2>4. ~c.useOr => (Means(q, r) <=> \A y \in Range(q.val) : Is(y) = TRUE)
    BY <1>2, <1>6 DEF Means, Range
  <2>5. each = {Is(y) : y \in Range(c.arg)}
    BY DEF Range
  <2>6. Is(Null) = Null
    BY <2>2
  <2> HIDE DEF Is
  <2>7. CASE c.useOr
    <3>1. Value(c, r) = TRUE <=> TRUE \in each
      BY <2>1, <2>2, <2>7 DEF AnyOf
    <3>2. TRUE \in each <=> \E y \in Range(q.val) : Is(y) = TRUE
      BY <1>4, <2>2, <2>5, <2>6
    <3> QED BY <2>3, <2>7, <3>1, <3>2
  <2>8. CASE ~c.useOr
    <3>1. Value(c, r) = TRUE => FALSE \notin each /\ Null \notin each
      BY <2>1, <2>2, <2>8 DEF AllOf
    <3>2. ASSUME Value(c, r) = TRUE, NEW y \in Range(q.val) PROVE Is(y) = TRUE
      <4>1. y \in Range(c.arg) /\ Is(y) \in each
        BY <1>4, <2>5
      <4>2. Is(y) # FALSE /\ Is(y) # Null
        BY <3>1, <3>2, <4>1
      <4>3. Is(y) \in BOOLEAN \cup {Null}
        <5>1. y \in Values(c.col)
          BY <1>5, <3>2 DEF Range
        <5>2. r[c.col] = Null \/ r[c.col] \in Values(c.col)
          BY <1>3, <1>8 DEF IsRow
        <5> QED BY <1>3, <5>1, <5>2, CompareIs DEF Is
      <4> QED BY <4>2, <4>3
    <3> QED BY <1>2, <2>4, <2>8, <3>2
  <2> QED BY <2>7, <2>8
<1> QED BY <1>1, <1>2, <1>7, <1>8 DEF Says

\* A clause becomes one qual or none, and the qual says what the clause says.
LEMMA ExtractedSays ==
  ASSUME NEW c, IsClause(c)
  PROVE  Extracted(c) = {} \/ \E q : Extracted(c) = {q} /\ Says(c, q)
<1>1. ASSUME NEW q \in Extracted(c) PROVE Says(c, q) /\ Extracted(c) = {q}
  <2>1. c.node \in {"op", "param", "json", "rev", "null", "bool", "not", "test", "list"}
    BY <1>1 DEF IsClause, Extracted
  <2> QED BY <1>1, <2>1, OpSays, RevSays, NullSays, TruthSays, ListSays
<1> QED BY <1>1

\* The quals of a statement, and the rows that all of them are true of.
AreQuals(qs) == qs \in Seq(Range(qs)) /\ \A i \in DOMAIN qs : IsQual(qs[i])

Met(qs, r) == \A i \in DOMAIN qs : Means(qs[i], r)

AreClauses(where) == where \in Seq(Range(where)) /\ \A i \in DOMAIN where : IsClause(where[i])

Picks(where, r) == \A i \in DOMAIN where : Value(where[i], r) = TRUE

\* A sequence is one over its own elements.
LEMMA OwnSeq ==
  ASSUME NEW S, NEW s \in Seq(S)
  PROVE  s \in Seq(Range(s)) /\ Range(s) \subseteq S
<1>1. DOMAIN s = 1..Len(s) /\ Len(s) \in Nat /\ \A i \in 1..Len(s) : s[i] \in Range(s) /\ s[i] \in S
  BY DEF Range
<1>2. Range(s) \subseteq S
  BY <1>1 DEF Range
<1> DEFINE R == Range(s)
<1>3. Len(s) \in Nat /\ DOMAIN s = 1..Len(s) /\ \A i \in 1..Len(s) : s[i] \in R
  BY <1>1
<1> HIDE DEF R
<1>4. s \in Seq(R)
  BY <1>3
<1> QED BY <1>2, <1>4 DEF R

LEMMA QualsOf ==
  ASSUME NEW where, AreClauses(where)
  PROVE  LET qs == ExtractQuals(where)
         IN  /\ AreQuals(qs)
             /\ \A r : IsRow(r) =>
                  /\ Picks(where, r) => Met(qs, r)
                  /\ /\ Len(qs) = Len(where) /\ \A i \in DOMAIN qs : qs[i].arr => qs[i].useOr
                     /\ Met(qs, r)
                     => Picks(where, r)
<1> DEFINE qs == ExtractQuals(where)
           ss == [i \in DOMAIN where |-> SetToSeq(Extracted(where[i]))]
           S  == UNION {Extracted(where[i]) : i \in DOMAIN where}
<1>1. Len(where) \in Nat /\ DOMAIN where = 1..Len(where)
  BY DEF AreClauses
<1>2. ASSUME NEW i \in DOMAIN where
      PROVE  /\ ss[i] = SetToSeq(Extracted(where[i])) /\ Extracted(where[i]) \subseteq S
             /\ \/ Extracted(where[i]) = {} /\ ss[i] = <<>>
                \/ \E q : Extracted(where[i]) = {q} /\ ss[i] = <<q>> /\ Says(where[i], q)
  <2>1. ss[i] = SetToSeq(Extracted(where[i])) /\ Extracted(where[i]) \subseteq S
    OBVIOUS
  <2>2. Extracted(where[i]) = {} \/ \E q : Extracted(where[i]) = {q} /\ Says(where[i], q)
    BY ExtractedSays DEF AreClauses
  <2> QED BY <2>1, <2>2, SeqOfOne, SeqOfNone
<1>3. DOMAIN ss = 1..Len(where) /\ qs = FlattenSeq(ss) /\ ss = [i \in 1..Len(where) |-> ss[i]]
  BY <1>1 DEF ExtractQuals
<1> HIDE DEF ss, S
<1>4. ASSUME NEW i \in DOMAIN where
      PROVE  ss[i] \in Seq(S) /\ Range(ss[i]) = Extracted(where[i]) /\ Len(ss[i]) <= 1
  <2>1. CASE Extracted(where[i]) = {} /\ ss[i] = <<>>
    BY <2>1 DEF Range
  <2>2. CASE \E q : Extracted(where[i]) = {q} /\ ss[i] = <<q>>
    <3>1. PICK q : Extracted(where[i]) = {q} /\ ss[i] = <<q>>
      BY <2>2
    <3>2. q \in S
      BY <1>2, <3>1
    <3>3. <<q>> \in Seq(S) /\ Range(<<q>>) = {q} /\ Len(<<q>>) = 1
      BY <3>2 DEF Range
    <3> QED BY <3>1, <3>3
  <2> QED BY <1>2, <2>1, <2>2
<1>5. ss \in Seq(Seq(S)) /\ Len(ss) = Len(where) /\ DOMAIN ss = DOMAIN where
  BY <1>1, <1>3, <1>4
<1>6. qs \in Seq(S) /\ Range(qs) = S
  <2>1. qs \in Seq(S) /\ Range(qs) = UNION {Range(ss[i]) : i \in DOMAIN ss}
    BY <1>3, <1>5, FlattenHas
  <2>2. UNION {Range(ss[i]) : i \in DOMAIN ss} = S
    BY <1>4, <1>5 DEF S
  <2> QED BY <2>1, <2>2
<1> HIDE DEF qs
<1>7. ASSUME NEW q \in S
      PROVE  \E i \in DOMAIN where : Extracted(where[i]) = {q} /\ Says(where[i], q)
  <2>1. PICK i \in DOMAIN where : q \in Extracted(where[i])
    BY DEF S
  <2> QED BY <1>2, <2>1
<1>8. AreQuals(qs)
  <2>1. qs \in Seq(Range(qs))
    BY <1>6, OwnSeq
  <2>2. ASSUME NEW i \in DOMAIN qs PROVE IsQual(qs[i])
    <3>1. qs[i] \in S
      BY <1>6 DEF Range
    <3> QED BY <1>7, <3>1 DEF Says
  <2> QED BY <2>1, <2>2 DEF AreQuals
<1>9. ASSUME NEW r, IsRow(r), Picks(where, r) PROVE Met(qs, r)
  <2> SUFFICES ASSUME NEW j \in DOMAIN qs PROVE Means(qs[j], r)
    BY DEF Met
  <2>1. qs[j] \in S
    BY <1>6 DEF Range
  <2>2. PICK i \in DOMAIN where : Says(where[i], qs[j])
    BY <1>7, <2>1
  <2> QED BY <1>9, <2>2 DEF Says, Picks
<1>10. ASSUME NEW r, IsRow(r), Len(qs) = Len(where), \A i \in DOMAIN qs : qs[i].arr => qs[i].useOr,
              Met(qs, r)
       PROVE  Picks(where, r)
  <2> SUFFICES ASSUME NEW i \in DOMAIN where PROVE Value(where[i], r) = TRUE
    BY DEF Picks
  <2>1. ss[i] # <<>>
    <3>1. \A k \in DOMAIN ss : Len(ss[k]) <= 1
      BY <1>4, <1>5
    <3>2. Len(FlattenSeq(ss)) = Len(ss)
      BY <1>3, <1>5, <1>10
    <3> QED BY <1>5, <3>1, <3>2, FlattenFull
  <2>2. PICK q : Extracted(where[i]) = {q} /\ Says(where[i], q)
    BY <1>2, <2>1
  <2>3. q \in Range(qs)
    BY <1>2, <1>6, <2>2
  <2>4. PICK j \in DOMAIN qs : qs[j] = q
    BY <2>3 DEF Range
  <2>5. Means(q, r) /\ (q.arr => q.useOr)
    BY <1>10, <2>4 DEF Met
  <2> QED BY <1>10, <2>2, <2>5 DEF Says
<1> QED BY <1>8, <1>9, <1>10 DEF qs

-----------------------------------------------------------------------------
(* Conditions and their conjunctions.                                      *)

HoldsAll(g, r) == \A j \in DOMAIN g : Holds(g[j], r)

Finds(asked, r) == \E i \in DOMAIN asked.groups : HoldsAll(asked.groups[i], r)

\* A condition with an operator of SQL is true when the comparison is.
LEMMA HoldsCompare ==
  ASSUME NEW f, NEW op, NEW col, Applies(op, col), NEW v, NEW r
  PROVE  Holds(Atom(f, op, v), r) <=> Compare(op, r[f], v) = TRUE
<1>1. op \in {"=", "<>", "<", "<=", ">", ">=", "~~", "!~~", "~", "!~"}
  BY DEF Applies
<1> QED BY <1>1 DEF Holds, Atom

LEMMA HoldsTest ==
  ASSUME NEW f, NEW op, IsTest(op), NEW v, NEW r
  PROVE  Holds(Atom(f, op, v), r) <=> ((IF v = Word THEN r[f] = Null ELSE r[f] = v) = (op = "is"))
<1>1. CASE op = "is"
  BY <1>1 DEF Holds, Atom
<1>2. CASE op = "is not"
  BY <1>2 DEF Holds, Atom
<1> QED BY <1>1, <1>2 DEF IsTest

LEMMA HoldsOther ==
  ASSUME NEW f, NEW v, NEW r
  PROVE  /\ Holds(Atom(f, "in", v), r) <=> r[f] \in Range(v)
         /\ Holds(Atom(f, "not in", v), r) <=> v = <<>> \/ (r[f] # Null /\ r[f] \notin Range(v))
         /\ Holds(Atom(f, "other", v), r) <=> r[f] \notin Range(v)
         /\ Holds(Atom(f, "contains", v), r) <=> r[f] # Null /\ Within(v, r[f])
         /\ Holds(Atom(f, "lacks", v), r) <=> r[f] = Null \/ ~Within(v, r[f])
<1>1. Holds(Atom(f, "in", v), r) <=> r[f] \in Range(v)
  BY DEF Holds, Atom
<1>2. Holds(Atom(f, "not in", v), r) <=> v = <<>> \/ (r[f] # Null /\ r[f] \notin Range(v))
  BY DEF Holds, Atom
<1>3. Holds(Atom(f, "other", v), r) <=> r[f] \notin Range(v)
  BY DEF Holds, Atom
<1>4. Holds(Atom(f, "contains", v), r) <=> r[f] # Null /\ Within(v, r[f])
  BY DEF Holds, Atom
<1>5. Holds(Atom(f, "lacks", v), r) <=> r[f] = Null \/ ~Within(v, r[f])
  BY DEF Holds, Atom
<1> QED BY <1>1, <1>2, <1>3, <1>4, <1>5

\* A qual of one cell as a condition.
LEMMA HoldsMeans ==
  ASSUME NEW q, IsQual(q), ~q.arr, NEW r
  PROVE  Holds(Atom(ColumnOf(q), q.op, q.val), r) <=> Means(q, r)
<1>1. CASE IsTest(q.op)
  BY <1>1, HoldsTest DEF Means
<1>2. CASE ~IsTest(q.op)
  <2>1. Applies(q.op, ColumnOf(q))
    BY <1>2 DEF IsQual
  <2> QED BY <1>2, <2>1, HoldsCompare DEF Means
<1> QED BY <1>1, <1>2

LEMMA HoldsAtomOf ==
  ASSUME NEW q, IsQual(q), ~q.arr, q.field # "j.x", NEW r
  PROVE  Holds(AtomOf(q), r) <=> Means(q, r)
BY HoldsMeans DEF AtomOf, ColumnOf

\* Any number of sequences as sequences over the elements of all.
LEMMA SeqOfSeqs ==
  ASSUME NEW n \in Nat, NEW ss, ss = [i \in 1..n |-> ss[i]],
         \A i \in 1..n : ss[i] \in Seq(Range(ss[i]))
  PROVE  /\ ss \in Seq(Seq(UNION {Range(ss[i]) : i \in 1..n}))
         /\ Len(ss) = n /\ DOMAIN ss = 1..n
<1> DEFINE S == UNION {Range(ss[i]) : i \in 1..n}
<1>1. ASSUME NEW i \in 1..n PROVE ss[i] \in Seq(S)
  <2> DEFINE t == ss[i]
  <2>1. t \in Seq(Range(t)) /\ Range(t) \subseteq S
    OBVIOUS
  <2> HIDE DEF t, S
  <2>2. Len(t) \in Nat /\ DOMAIN t = 1..Len(t) /\ \A k \in 1..Len(t) : t[k] \in S
    BY <2>1 DEF Range
  <2>3. t \in Seq(S)
    BY <2>1, <2>2
  <2> QED BY <2>3 DEF t
<1> HIDE DEF S
<1>2. ss \in Seq(Seq(S)) /\ Len(ss) = n /\ DOMAIN ss = 1..n
  BY <1>1
<1> QED BY <1>2 DEF S

LEMMA FlattenHolds ==
  ASSUME NEW n \in Nat, NEW ss, ss = [i \in 1..n |-> ss[i]],
         \A i \in 1..n : ss[i] \in Seq(Range(ss[i])), NEW r
  PROVE  HoldsAll(FlattenSeq(ss), r) <=> \A i \in 1..n : HoldsAll(ss[i], r)
<1>1. /\ ss \in Seq(Seq(UNION {Range(ss[i]) : i \in 1..n}))
      /\ Len(ss) = n /\ DOMAIN ss = 1..n
  BY SeqOfSeqs
<1>2. Range(FlattenSeq(ss)) = UNION {Range(ss[i]) : i \in DOMAIN ss}
  BY <1>1, FlattenHas
<1>3. \A g : HoldsAll(g, r) <=> \A a \in Range(g) : Holds(a, r)
  BY DEF HoldsAll, Range
<1> QED BY <1>1, <1>2, <1>3

-----------------------------------------------------------------------------
(* Texts joined with "and".                                                *)

Joins(parts, f, n) == f[0] = Everything /\ \A i \in 1..n : f[i] = And(f[i - 1], parts[i])

LEMMA JoinsExist ==
  ASSUME NEW parts, NEW n \in Nat
  PROVE  \E f : f = [i \in 0..n |-> f[i]] /\ Joins(parts, f, n)
<1> DEFINE Has == {k \in Nat : \E f : f = [i \in 0..k |-> f[i]] /\ Joins(parts, f, k)}
<1>1. 0 \in Has
  <2> DEFINE e == [i \in 0..0 |-> Everything]
  <2>1. e[0] = Everything /\ e = [i \in 0..0 |-> e[i]]
    OBVIOUS
  <2>2. Joins(parts, e, 0)
    BY <2>1 DEF Joins
  <2> HIDE DEF e
  <2> QED BY <2>1, <2>2
<1>2. ASSUME NEW k \in Nat, k \in Has PROVE k + 1 \in Has
  <2> SUFFICES ASSUME NEW m, m = k + 1
               PROVE  \E f : f = [i \in 0..m |-> f[i]] /\ Joins(parts, f, m)
    OBVIOUS
  <2>2. PICK f : f = [i \in 0..k |-> f[i]] /\ Joins(parts, f, k)
    BY <1>2
  <2> DEFINE last == And(f[k], parts[m])
             g == [i \in 0..m |-> IF i = m THEN last ELSE f[i]]
  <2> HIDE DEF last
  <2>3. /\ g = [i \in 0..m |-> g[i]] /\ g[m] = last /\ \A i \in 0..m : i # m => g[i] = f[i]
    OBVIOUS
  <2> HIDE DEF g
  <2>4. g[0] = Everything
    BY <2>2, <2>3 DEF Joins
  <2>5. ASSUME NEW i \in 1..m PROVE g[i] = And(g[i - 1], parts[i])
    <3>1. CASE i = m
      <4>1. g[i - 1] = f[k]
        BY <2>3, <3>1
      <4> QED BY <2>3, <3>1, <4>1 DEF last
    <3>2. CASE i # m
      <4>1. g[i] = f[i] /\ g[i - 1] = f[i - 1] /\ i \in 1..k
        BY <2>3, <3>2
      <4> QED BY <2>2, <4>1 DEF Joins
    <3> QED BY <3>1, <3>2
  <2>6. Joins(parts, g, m)
    BY <2>4, <2>5 DEF Joins
  <2> QED BY <2>3, <2>6
<1>3. Nat \subseteq Has
  <2> HIDE DEF Has
  <2> QED BY <1>1, <1>2, Inductive
<1> QED BY <1>3

LEMMA JoinIs ==
  ASSUME NEW S, NEW parts \in Seq(S)
  PROVE  \E f : JoinAnd(parts) = f[Len(parts)] /\ Joins(parts, f, Len(parts))
<1> DEFINE E(f) == f = [n \in 0..Len(parts) |-> IF n = 0 THEN Everything ELSE And(f[n - 1], parts[n])]
           ch == CHOOSE f : E(f)
<1>1. JoinAnd(parts) = ch[Len(parts)]
  BY DEF JoinAnd
<1>0. Len(parts) \in Nat
  OBVIOUS
<1>2. \E f : E(f)
  <2>1. PICK f : f = [i \in 0..Len(parts) |-> f[i]] /\ Joins(parts, f, Len(parts))
    <3> HIDE DEF E
    <3> QED BY <1>0, JoinsExist
  <2>2. ASSUME NEW i \in 0..Len(parts)
        PROVE  f[i] = IF i = 0 THEN Everything ELSE And(f[i - 1], parts[i])
    <3>1. i # 0 => i \in 1..Len(parts)
      BY <1>0
    <3> QED BY <2>1, <3>1, Zenon DEF Joins
  <2>4. E(f)
    BY <2>1, <2>2, Zenon
  <2> QED BY <2>4, Zenon
<1>3. ch = [n \in 0..Len(parts) |-> IF n = 0 THEN Everything ELSE And(ch[n - 1], parts[n])]
  BY <1>2, Zenon
<1> HIDE DEF ch
<1>5. Joins(parts, ch, Len(parts))
  <2>1. \A n \in 0..Len(parts) : ch[n] = IF n = 0 THEN Everything ELSE And(ch[n - 1], parts[n])
    BY <1>3, Zenon
  <2>2. 0 \in 0..Len(parts) /\ \A i \in 1..Len(parts) : i \in 0..Len(parts) /\ i # 0
    BY <1>0
  <2> QED BY <2>1, <2>2, Zenon DEF Joins
<1> QED BY <1>1, <1>5

LEMMA SeqFrom ==
  ASSUME NEW S, NEW n \in Nat, NEW s, s = [i \in 1..n |-> s[i]], \A i \in 1..n : s[i] \in S
  PROVE  s \in Seq(S) /\ Len(s) = n /\ DOMAIN s = 1..n
OBVIOUS

LEMMA FrontIs ==
  ASSUME NEW S, NEW s \in Seq(S), s # <<>>, NEW n, n = Len(s)
  PROVE  Front(s) \in Seq(S) /\ Len(Front(s)) = n - 1 /\ \A i \in 1..(n - 1) : Front(s)[i] = s[i]
<1>1. n \in Nat /\ n >= 1 /\ DOMAIN s = 1..n /\ \A i \in 1..n : s[i] \in S
  OBVIOUS
<1> DEFINE f == [i \in 1..(n - 1) |-> s[i]]
<1>2. Front(s) = f
  <2>1. Front(s) = SubSeq(s, 1, n - 1)
    BY DEF Front
  <2>2. SubSeq(s, 1, n - 1) = f
    BY <1>1
  <2> QED BY <2>1, <2>2
<1>3. n - 1 \in Nat /\ f = [i \in 1..(n - 1) |-> f[i]] /\ \A i \in 1..(n - 1) : f[i] \in S /\ f[i] = s[i]
  BY <1>1
<1> HIDE DEF f
<1> QED BY <1>2, <1>3, SeqFrom

IsConcat(S, a, n, b, m, c) ==
  /\ c \in Seq(S) /\ Len(c) = n + m
  /\ \A i \in 1..n : c[i] = a[i]
  /\ \A i \in 1..m : c[n + i] = b[i]

LEMMA ConcatIs ==
  ASSUME NEW S, NEW a \in Seq(S), NEW b \in Seq(S), NEW n \in Nat, NEW m \in Nat,
         Len(a) = n, Len(b) = m
  PROVE  IsConcat(S, a, n, b, m, a \o b)
BY DEF IsConcat

IsAnd(S, groups, n, part, m, c) ==
  /\ c \in Seq(Seq(S)) /\ Len(c) = n + m - 1 /\ c # <<>>
  /\ n \in Nat /\ n >= 1 /\ m \in Nat /\ m >= 1
  /\ \A i \in 1..(n - 1) : c[i] = groups[i]
  /\ c[n] = Append(groups[n], part[1])
  /\ \A i \in 2..m : c[n + i - 1] = <<part[i]>>

\* The groups before the last stay; the last takes the first alternative of the
\* part, and the other alternatives stand alone.
LEMMA AndIs ==
  ASSUME NEW S, NEW groups \in Seq(Seq(S)), groups # <<>>, NEW part \in Seq(S), part # <<>>
  PROVE  IsAnd(S, groups, Len(groups), part, Len(part), And(groups, part))
<1> DEFINE c == And(groups, part)
           n == Len(groups)
           m == Len(part)
           a == Front(groups)
           x == Append(Last(groups), Head(part))
           b == <<x>>
           d == [i \in 1..m - 1 |-> <<part[i + 1]>>]
<1>1. n \in Nat /\ m \in Nat /\ n >= 1 /\ m >= 1
  OBVIOUS
<1>2. a \in Seq(Seq(S)) /\ Len(a) = n - 1 /\ \A i \in 1..(n - 1) : a[i] = groups[i]
  BY FrontIs
<1>3. x \in Seq(S) /\ x = Append(groups[n], part[1])
  <2>1. groups[n] \in Seq(S) /\ part[1] \in S /\ Head(part) = part[1]
    BY <1>1
  <2> QED BY <2>1 DEF Last
<1>4. d \in Seq(Seq(S)) /\ Len(d) = m - 1 /\ \A i \in 1..(m - 1) : d[i] = <<part[i + 1]>>
  <2>1. ASSUME NEW i \in 1..(m - 1) PROVE d[i] \in Seq(S) /\ d[i] = <<part[i + 1]>>
    <3>1. i + 1 \in 1..m /\ part[i + 1] \in S
      BY <1>1
    <3> QED BY <3>1
  <2>2. d = [i \in 1..(m - 1) |-> d[i]] /\ m - 1 \in Nat
    BY <1>1
  <2> HIDE DEF d
  <2> QED BY <2>1, <2>2, SeqFrom
<1>5. c = a \o b \o d
  BY DEF And
<1> HIDE DEF a, x, d, c, n, m
<1>6. b \in Seq(Seq(S)) /\ Len(b) = 1 /\ b[1] = x
  BY <1>3
<1> HIDE DEF b
<1> DEFINE T == Seq(S)
           e == a \o b
<1> HIDE DEF T
<1>7. e \in Seq(Seq(S)) /\ Len(e) = n /\ (\A i \in 1..(n - 1) : e[i] = groups[i]) /\ e[n] = x
  <2>1. n - 1 \in Nat /\ (n - 1) + 1 = n /\ 1 \in 1..1
    BY <1>1
  <2>2. a \in Seq(T) /\ b \in Seq(T) /\ Len(a) = n - 1 /\ Len(b) = 1 /\ 1 \in Nat /\ 1 \in 1..1
    BY <1>2, <1>6 DEF T
  <2>3. e \in Seq(T) /\ Len(e) = n /\ (\A i \in 1..(n - 1) : e[i] = a[i]) /\ e[n] = b[1]
    <3> DEFINE k == n - 1
    <3>1. k \in Nat /\ k + 1 = n
      BY <2>1
    <3> HIDE DEF k
    <3>2. e \in Seq(T) /\ Len(e) = k + 1 /\ (\A i \in 1..k : e[i] = a[i]) /\ e[k + 1] = b[1]
      <4>1. Len(a) = k
        BY <2>2 DEF k
      <4>2. IsConcat(T, a, k, b, 1, e)
        BY ONLY <2>2, <3>1, <4>1, ConcatIs
      <4> QED BY ONLY <2>2, <4>2 DEF IsConcat
    <3> HIDE DEF e
    <3> QED BY <3>1, <3>2 DEF k
  <2> HIDE DEF e
  <2> QED BY <1>2, <1>6, <2>3 DEF T
<1>8. c = e \o d
  BY <1>5
<1> HIDE DEF e
<1>9. /\ c \in Seq(Seq(S)) /\ Len(c) = n + m - 1
      /\ \A i \in 1..n : c[i] = e[i]
      /\ \A i \in 1..(m - 1) : c[n + i] = d[i]
  <2>1. n + m - 1 = n + (m - 1) /\ m - 1 \in Nat
    BY <1>1
  <2>2. e \in Seq(T) /\ d \in Seq(T) /\ Len(e) = n /\ Len(d) = m - 1
    BY <1>4, <1>7 DEF T
  <2>3. /\ e \o d \in Seq(T) /\ Len(e \o d) = n + (m - 1)
        /\ \A i \in 1..n : (e \o d)[i] = e[i]
        /\ \A i \in 1..(m - 1) : (e \o d)[n + i] = d[i]
    <3> DEFINE k == m - 1
    <3>1. k \in Nat
      BY <2>1
    <3> HIDE DEF k
    <3>2. Len(d) = k
      BY <2>2 DEF k
    <3>3. IsConcat(T, e, n, d, k, e \o d)
      BY ONLY <1>1, <2>2, <3>1, <3>2, ConcatIs
    <3> QED BY <3>3 DEF IsConcat, k
  <2> QED BY <1>8, <2>1, <2>3 DEF T
<1>10. \A i \in 1..(n - 1) : c[i] = groups[i]
  BY <1>1, <1>7, <1>9
<1>11. c[n] = Append(groups[n], part[1])
  <2>1. n \in 1..n
    BY <1>1
  <2> QED BY <1>3, <1>7, <1>9, <2>1
<1>12. ASSUME NEW i \in 2..m PROVE c[n + i - 1] = <<part[i]>>
  <2>1. i - 1 \in 1..(m - 1) /\ n + (i - 1) = n + i - 1 /\ (i - 1) + 1 = i
    BY <1>1
  <2>2. c[n + (i - 1)] = d[i - 1] /\ d[i - 1] = <<part[(i - 1) + 1]>>
    BY <1>4, <1>9, <2>1
  <2> QED BY <2>1, <2>2
<1>13. c # <<>>
  <2>1. Len(c) # 0
    BY <1>1, <1>9
  <2> QED BY <2>1
<1>14. IsAnd(S, groups, n, part, m, c)
  BY <1>1, <1>9, <1>10, <1>11, <1>12, <1>13 DEF IsAnd
<1> QED BY <1>14 DEF c, n, m

LEMMA HoldsAppend ==
  ASSUME NEW S, NEW g \in Seq(S), NEW a \in S, NEW r
  PROVE  HoldsAll(Append(g, a), r) <=> HoldsAll(g, r) /\ Holds(a, r)
<1> DEFINE b == Append(g, a)
<1>1. /\ b \in Seq(S) /\ Len(b) = Len(g) + 1 /\ DOMAIN b = 1..Len(b) /\ DOMAIN g = 1..Len(g)
      /\ Len(g) \in Nat /\ b[Len(g) + 1] = a /\ \A i \in 1..Len(g) : b[i] = g[i]
  OBVIOUS
<1> HIDE DEF b
<1>2. DOMAIN b = DOMAIN g \cup {Len(g) + 1}
  BY <1>1
<1>3. HoldsAll(b, r) <=> HoldsAll(g, r) /\ Holds(a, r)
  BY <1>1, <1>2 DEF HoldsAll
<1> QED BY <1>3 DEF b

LEMMA HoldsOne == \A a, r : HoldsAll(<<a>>, r) <=> Holds(a, r)
BY DEF HoldsAll

SomeHold(groups, r) == \E i \in DOMAIN groups : HoldsAll(groups[i], r)

\* If some alternative of every part holds, some group of the whole does.
LEMMA AndFinds ==
  ASSUME NEW S, NEW groups \in Seq(Seq(S)), groups # <<>>, NEW part \in Seq(S), NEW r,
         SomeHold(groups, r), \E j \in DOMAIN part : Holds(part[j], r)
  PROVE  SomeHold(And(groups, part), r)
<1> DEFINE c == And(groups, part)
           n == Len(groups)
           m == Len(part)
<1>0. part # <<>>
  OBVIOUS
<1> HIDE DEF c
<1>1. /\ c \in Seq(Seq(S)) /\ Len(c) = n + m - 1
      /\ n \in Nat /\ n >= 1 /\ m \in Nat /\ m >= 1
      /\ \A i \in 1..(n - 1) : c[i] = groups[i]
      /\ c[n] = Append(groups[n], part[1])
      /\ \A i \in 2..m : c[n + i - 1] = <<part[i]>>
  BY <1>0, AndIs, ZenonT(40) DEF c, IsAnd
<1>2. DOMAIN c = 1..Len(c) /\ DOMAIN part = 1..m /\ DOMAIN groups = 1..n
  BY <1>1
<1> HIDE DEF n, m
<1>3. PICK i \in DOMAIN groups : HoldsAll(groups[i], r)
  BY DEF SomeHold
<1>4. PICK j \in DOMAIN part : Holds(part[j], r)
  OBVIOUS
<1>5. CASE j # 1
  <2>1. j \in 2..m /\ n + j - 1 \in 1..Len(c)
    <3>1. \A k, l \in Nat : k >= 1 => \A o \in 2..l : k + o - 1 \in 1..(k + l - 1)
      OBVIOUS
    <3>2. j \in 2..m
      BY <1>1, <1>2, <1>5
    <3> QED BY <1>1, <3>1, <3>2
  <2>2. HoldsAll(c[n + j - 1], r)
    BY <1>1, <1>4, <2>1, HoldsOne
  <2> QED BY <1>2, <2>1, <2>2 DEF SomeHold, c
<1>6. CASE j = 1 /\ i # n
  <2>1. i \in 1..(n - 1) /\ i \in 1..Len(c)
    BY <1>1, <1>2, <1>6, SMTT(30)
  <2>2. HoldsAll(c[i], r)
    BY <1>1, <1>3, <2>1
  <2> QED BY <1>2, <2>1, <2>2 DEF SomeHold, c
<1>7. CASE j = 1 /\ i = n
  <2>1. groups[n] \in Seq(S) /\ part[1] \in S
    BY <1>1, <1>2
  <2>3. n \in 1..Len(c)
    BY <1>1
  <2>2. HoldsAll(c[n], r)
    BY <1>1, <1>3, <1>4, <1>7, <2>1, HoldsAppend
  <2> QED BY <1>2, <2>3, <2>2 DEF SomeHold, c
<1> QED BY <1>5, <1>6, <1>7

LEMMA EverythingIs ==
  ASSUME NEW S
  PROVE  /\ Everything \in Seq(Seq(S)) /\ Everything # <<>> /\ Len(Everything) = 1
         /\ Everything[1] = <<>> /\ \A r : SomeHold(Everything, r)
<1>1. Everything \in Seq(Seq(S)) /\ Everything # <<>> /\ Len(Everything) = 1 /\ Everything[1] = <<>>
  BY DEF Everything
<1>2. ASSUME NEW r PROVE SomeHold(Everything, r)
  BY DEF SomeHold, HoldsAll, Everything
<1> QED BY <1>1, <1>2

LEMMA JoinFinds ==
  ASSUME NEW S, NEW parts \in Seq(Seq(S)), NEW r,
         \A i \in DOMAIN parts : \E j \in DOMAIN parts[i] : Holds(parts[i][j], r)
  PROVE  SomeHold(JoinAnd(parts), r)
<1>1. PICK f : JoinAnd(parts) = f[Len(parts)] /\ Joins(parts, f, Len(parts))
  BY JoinIs
<1>2. Len(parts) \in Nat /\ DOMAIN parts = 1..Len(parts)
  OBVIOUS
<1> DEFINE Has == {k \in Nat : k <= Len(parts) =>
                     f[k] \in Seq(Seq(S)) /\ f[k] # <<>> /\ SomeHold(f[k], r)}
<1>3. 0 \in Has
  BY <1>1, EverythingIs DEF Joins
<1>4. ASSUME NEW k \in Nat, k \in Has PROVE k + 1 \in Has
  <2> SUFFICES ASSUME NEW m, m = k + 1, m <= Len(parts)
               PROVE  f[m] \in Seq(Seq(S)) /\ f[m] # <<>> /\ SomeHold(f[m], r)
    OBVIOUS
  <2>1. m \in 1..Len(parts) /\ m - 1 = k /\ k <= Len(parts) /\ parts[m] \in Seq(S)
    BY <1>2
  <2>2. f[k] \in Seq(Seq(S)) /\ f[k] # <<>> /\ SomeHold(f[k], r)
    BY <1>4, <2>1
  <2>3. f[m] = And(f[k], parts[m])
    BY <1>1, <2>1 DEF Joins
  <2>4. \E j \in DOMAIN parts[m] : Holds(parts[m][j], r)
    BY <1>2, <2>1
  <2> HIDE DEF Has
  <2>5. parts[m] # <<>>
    BY <2>4
  <2>6. And(f[k], parts[m]) \in Seq(Seq(S)) /\ And(f[k], parts[m]) # <<>>
    <3>1. IsAnd(S, f[k], Len(f[k]), parts[m], Len(parts[m]), And(f[k], parts[m]))
      BY <2>1, <2>2, <2>5, AndIs
    <3> QED BY ONLY <3>1 DEF IsAnd
  <2>7. SomeHold(And(f[k], parts[m]), r)
    BY <2>1, <2>2, <2>4, AndFinds
  <2> QED BY <2>3, <2>6, <2>7
<1>5. Nat \subseteq Has
  <2> HIDE DEF Has
  <2> QED BY <1>3, <1>4, Inductive
<1>6. SomeHold(f[Len(parts)], r)
  BY <1>2, <1>5
<1> QED BY <1>1, <1>6

\* Parts of one alternative each make one group, of all of them.
LEMMA JoinOnes ==
  ASSUME NEW S, NEW parts \in Seq(Seq(S)), NEW r, \A i \in DOMAIN parts : Len(parts[i]) = 1,
         SomeHold(JoinAnd(parts), r)
  PROVE  \A i \in DOMAIN parts : Holds(parts[i][1], r)
<1>1. PICK f : JoinAnd(parts) = f[Len(parts)] /\ Joins(parts, f, Len(parts))
  BY JoinIs
<1>2. Len(parts) \in Nat /\ DOMAIN parts = 1..Len(parts)
  OBVIOUS
<1> DEFINE Up(k) == \A i \in 1..k : Holds(parts[i][1], r)
           Has == {k \in Nat : k <= Len(parts) =>
                     f[k] \in Seq(Seq(S)) /\ f[k] # <<>> /\ Len(f[k]) = 1 /\ (HoldsAll(f[k][1], r) => Up(k))}
<1>3. 0 \in Has
  <2>1. Up(0)
    OBVIOUS
  <2> QED BY <1>1, <2>1, EverythingIs DEF Joins
<1>4. ASSUME NEW k \in Nat, k \in Has PROVE k + 1 \in Has
  <2> SUFFICES ASSUME NEW m, m = k + 1, m <= Len(parts)
               PROVE  f[m] \in Seq(Seq(S)) /\ f[m] # <<>> /\ Len(f[m]) = 1 /\ (HoldsAll(f[m][1], r) => Up(m))
    OBVIOUS
  <2>1. m \in 1..Len(parts) /\ m - 1 = k /\ k <= Len(parts) /\ parts[m] \in Seq(S) /\ 1..m = (1..k) \cup {m}
    BY <1>2
  <2>2. f[k] \in Seq(Seq(S)) /\ f[k] # <<>> /\ Len(f[k]) = 1 /\ (HoldsAll(f[k][1], r) => Up(k))
    BY <1>4, <2>1
  <2>3. f[m] = And(f[k], parts[m])
    BY <1>1, <2>1 DEF Joins
  <2>4. Len(parts[m]) = 1
    BY <1>2, <2>1
  <2> DEFINE p == parts[m]
             g == f[k]
  <2>5. p \in Seq(S) /\ Len(p) = 1 /\ g \in Seq(Seq(S)) /\ g # <<>> /\ Len(g) = 1
    BY <2>1, <2>2, <2>4
  <2> HIDE DEF p, g, Has
  <2>6. p # <<>> /\ p[1] \in S /\ g[1] \in Seq(S)
    BY <2>5
  <2> DEFINE c == And(g, p)
  <2>7. c \in Seq(Seq(S)) /\ c # <<>> /\ Len(c) = 1 + 1 - 1 /\ c[1] = Append(g[1], p[1])
    <3> DEFINE n == Len(g)
               l == Len(p)
    <3> HIDE DEF n, l, c
    <3>1. c \in Seq(Seq(S)) /\ Len(c) = n + l - 1 /\ c # <<>> /\ c[n] = Append(g[n], p[1])
      BY <2>5, <2>6, AndIs, ZenonT(40) DEF c, n, l, IsAnd
    <3>2. n = 1 /\ l = 1
      BY <2>5 DEF n, l
    <3> QED BY <3>1, <3>2
  <2>8. HoldsAll(c[1], r) => HoldsAll(g[1], r) /\ Holds(p[1], r)
    BY <2>6, <2>7, HoldsAppend
  <2> HIDE DEF c
  <2>9. f[m] = c
    BY <2>3 DEF c, g, p
  <2>10. HoldsAll(c[1], r) => Up(m)
    BY <2>1, <2>2, <2>8 DEF g, p
  <2> HIDE DEF Up
  <2>11. Len(c) = 1
    BY <2>7
  <2> QED BY <2>7, <2>9, <2>10, <2>11
<1>5. Nat \subseteq Has
  <2> HIDE DEF Has
  <2> QED BY <1>3, <1>4, Inductive
<1> DEFINE j == f[Len(parts)]
<1>6. j \in Seq(Seq(S)) /\ Len(j) = 1 /\ (HoldsAll(j[1], r) => Up(Len(parts)))
  BY <1>2, <1>5
<1>7. SomeHold(j, r)
  BY <1>1
<1> HIDE DEF j, Has
<1>8. HoldsAll(j[1], r)
  BY <1>6, <1>7 DEF SomeHold
<1> QED BY <1>2, <1>6, <1>8

\* One part alone makes a group of each alternative.
LEMMA JoinAlone ==
  ASSUME NEW S, NEW parts \in Seq(Seq(S)), Len(parts) = 1, parts[1] # <<>>, NEW r,
         SomeHold(JoinAnd(parts), r)
  PROVE  \E j \in DOMAIN parts[1] : Holds(parts[1][j], r)
<1>1. PICK f : JoinAnd(parts) = f[Len(parts)] /\ Joins(parts, f, Len(parts))
  BY JoinIs
<1> DEFINE p == parts[1]
           c == And(Everything, p)
<1>2. JoinAnd(parts) = c
  <2>1. 1 \in 1..1 /\ 1 - 1 = 0
    OBVIOUS
  <2>2. f[1] = And(f[1 - 1], parts[1]) /\ f[0] = Everything
    BY <1>1, <2>1, Zenon DEF Joins
  <2> QED BY <1>1, <2>1, <2>2
<1>3. p \in Seq(S) /\ p # <<>>
  OBVIOUS
<1> HIDE DEF p
<1>4. /\ c \in Seq(Seq(S)) /\ Len(c) = 1 + Len(p) - 1 /\ Len(p) \in Nat /\ Len(p) >= 1
      /\ c[1] = Append(<<>>, p[1])
      /\ \A i \in 2..Len(p) : c[1 + i - 1] = <<p[i]>>
  <2> DEFINE g == Everything
             n == Len(g)
             l == Len(p)
  <2>1. g \in Seq(Seq(S)) /\ g # <<>> /\ n = 1 /\ g[1] = <<>>
    BY EverythingIs
  <2> HIDE DEF g, n, l
  <2>2. /\ c \in Seq(Seq(S)) /\ Len(c) = n + l - 1 /\ l \in Nat /\ l >= 1
        /\ c[n] = Append(g[n], p[1]) /\ \A i \in 2..l : c[n + i - 1] = <<p[i]>>
    <3> HIDE DEF c
    <3>1. IsAnd(S, g, n, p, l, c)
      BY <1>3, <2>1, AndIs DEF c, g, n, l
    <3> QED BY ONLY <3>1 DEF IsAnd
  <2> HIDE DEF c
  <2> QED BY <2>1, <2>2 DEF l
<1> HIDE DEF c
<1>5. PICK i \in DOMAIN c : HoldsAll(c[i], r)
  BY <1>2 DEF SomeHold
<1>6. i \in 1..Len(p) /\ DOMAIN p = 1..Len(p)
  BY <1>3, <1>4, <1>5
<1>7. c[i] = <<p[i]>>
  <2>1. CASE i = 1
    <3>1. Append(<<>>, p[1]) = <<p[1]>>
      OBVIOUS
    <3> QED BY <1>4, <2>1, <3>1
  <2>2. CASE i # 1
    <3>1. i \in 2..Len(p) /\ 1 + i - 1 = i
      BY <1>4, <1>6, <2>2
    <3>2. c[1 + i - 1] = <<p[i]>>
      BY <1>4, <3>1, Zenon
    <3> QED BY <3>1, <3>2
  <2> QED BY <2>1, <2>2
<1>8. Holds(p[i], r)
  BY <1>5, <1>7, HoldsOne
<1> QED BY <1>6, <1>8 DEF p

-----------------------------------------------------------------------------
(* What is asked of a request.                                             *)

\* Every row that meets the quals is asked for.
Complete(u, qs, asked) == \A r \in Table[u] : Met(qs, r) => Finds(asked, r)

\* What the rows are made to say they say already.
Truthful(u, asked) == \A r \in Table[u] : Finds(asked, r) => \A e \in asked.echo : r[e.field] = e.val

\* No other row is asked for.
AsAsked(u, s, qs, asked) ==
  /\ Len(qs) = Len(s.where) /\ \A i \in DOMAIN qs : qs[i].arr => qs[i].useOr
  /\ \A r \in Table[u] : Finds(asked, r) => Met(qs, r)

SameOrder(u, order, sort) == \A x, y \in Table[u] : Before(order, x, y) <=> Before(sort, x, y)

\* A limit is sent with the clauses and the order it belongs to.
Limits(u, s, asked) ==
  /\ ExtractLimit(s).count # All
  /\ s.offset + s.count \in 0..MaxInt /\ asked.max = s.offset + s.count
  /\ s.where = <<>> \/ AsAsked(u, s, ExtractQuals(s.where), asked)
  /\ SameOrder(u, asked.order, s.sort)

AskKeeps(u, s, asked) ==
  /\ Complete(u, ExtractQuals(s.where), asked) /\ Truthful(u, asked)
  /\ asked.max # All => Limits(u, s, asked)

AggregateKeeps(u, s, asked) ==
  /\ asked.max = All /\ asked.echo = {}
  /\ Complete(u, ExtractQuals(s.where), asked) /\ AsAsked(u, s, ExtractQuals(s.where), asked)

LEMMA TableRows ==
  ASSUME StatementAssumption, CellAssumption, NEW u \in Wrappers
  PROVE  /\ IsFiniteSet(Table[u]) /\ \A r \in Table[u] : IsRow(r)
BY DEF StatementAssumption, CellAssumption, IsRow

-----------------------------------------------------------------------------
(* Limits and orders.                                                      *)

LEMMA LimitIs ==
  ASSUME CellAssumption, RequestAssumption, NEW u, NEW s, Answerable(u, s),
         u \in Sorting \cup Stopping, NEW l, l = ExtractLimit(s)
  PROVE  \/ l.count = All /\ RealLimit(l) = All
         \/ /\ l.count # All /\ l.count = s.count /\ l.offset = s.offset /\ Limitable(u, s)
            /\ l.count \in 0..MaxInt /\ l.offset \in 0..MaxInt
            /\ RealLimit(l) = All \/ RealLimit(l) \in Int
            /\ ~Negative(RealLimit(l)) \/ s.offset + s.count <= MaxInt =>
                 RealLimit(l) = s.offset + s.count /\ s.offset + s.count \in 0..MaxInt
<1>1. CASE l.count = All
  BY <1>1 DEF RealLimit
<1>2. CASE l.count # All
  <2>1. Limitable(u, s) /\ s.constOffset /\ IsStatement(s)
    BY <1>2 DEF Answerable, Limitable
  <2>2. l = [count |-> s.count, offset |-> s.offset]
    BY <1>2, <2>1 DEF ExtractLimit, NoLimit
  <2>3. l.count = s.count /\ l.offset = s.offset /\ s.count \in 0..MaxInt /\ s.offset \in 0..MaxInt
    BY <1>2, <2>1, <2>2 DEF IsStatement
  <2> DEFINE sum == l.offset + l.count
             real == RealLimit(l)
  <2>4. sum \in Int /\ sum >= 0 /\ sum <= 2 * MaxInt /\ MaxInt \in Nat /\ sum = s.offset + s.count
    BY <2>3, RequestAssumption
  <2>5. real = IF sum > MaxInt THEN sum - 2 * (MaxInt + 1) ELSE sum
    BY <1>2 DEF RealLimit
  <2> HIDE DEF sum, real
  <2>6. real \in Int /\ (sum > MaxInt => real < 0) /\ (sum <= MaxInt => real = sum /\ sum \in 0..MaxInt)
    BY <2>4, <2>5
  <2>7. real # All
    BY <2>6, CellAssumption DEF CellAssumption
  <2>8. ~Negative(real) \/ s.offset + s.count <= MaxInt => sum <= MaxInt
    BY <2>4, <2>6, <2>7 DEF Negative
  <2> QED BY <1>2, <2>1, <2>3, <2>4, <2>6, <2>8 DEF real
<1> QED BY <1>1, <1>2

LEMMA StopsRight ==
  ASSUME CellAssumption, RequestAssumption, NEW u, NEW s, Answerable(u, s), u \in Stopping,
         NEW asked, asked.max = All \/ asked.max = RealLimit(ExtractLimit(s)), asked.order = <<>>,
         asked.max # All
  PROVE  Limits(u, s, asked)
<1> DEFINE l == ExtractLimit(s)
<1>1. /\ l.count # All /\ Limitable(u, s)
      /\ s.offset + s.count <= MaxInt =>
                 RealLimit(l) = s.offset + s.count /\ s.offset + s.count \in 0..MaxInt
  <2> HIDE DEF l
  <2> QED BY LimitIs DEF l
<1>2. s.where = <<>> /\ s.sort = <<>> /\ s.offset + s.count <= MaxInt
  BY <1>1 DEF Limitable
<1> QED BY <1>1, <1>2 DEF Limits, SameOrder

LEMMA BeforeSame ==
  ASSUME NEW sort, NEW order, NEW n \in Nat, DOMAIN sort = 1..n, DOMAIN order = 1..n, NEW x, NEW y,
         \A i \in 1..n : KeyBefore(order[i], x, y) <=> KeyBefore(sort[i], x, y),
         \A i \in 1..n : KeyBefore(order[i], y, x) <=> KeyBefore(sort[i], y, x)
  PROVE  Before(order, x, y) <=> Before(sort, x, y)
BY DEF Before

\* The keys of the statement as the remote side takes them.
LEMMA OrderKept ==
  ASSUME NEW u, NEW sort, sort \in Seq(Range(sort)), \A i \in DOMAIN sort : KeyKept(u, sort[i]),
         NEW ss, ss = ExtractSorts(sort), NEW order, DOMAIN order = DOMAIN ss,
         \A i \in DOMAIN ss :
           order[i] = [col |-> ss[i].col, desc |-> ss[i].desc, nulls |-> NullsOf(u, ss[i])]
  PROVE  SameOrder(u, order, sort)
<1>1. ss = sort
  <2>1. \A i \in DOMAIN sort : sort[i] \in {o \in Range(sort) : o.plain}
    BY DEF KeyKept, Range
  <2> QED BY <2>1, OnlyAll DEF ExtractSorts
<1> SUFFICES ASSUME NEW x \in Table[u], NEW y \in Table[u]
             PROVE  Before(order, x, y) <=> Before(sort, x, y)
  BY DEF SameOrder
<1>2. ASSUME NEW i \in DOMAIN sort, NEW a \in Table[u], NEW b \in Table[u]
      PROVE  KeyBefore(order[i], a, b) <=> KeyBefore(sort[i], a, b)
  <2> DEFINE o == sort[i]
             p == [col |-> o.col, desc |-> o.desc, nulls |-> NullsOf(u, o)]
  <2>1. KeyKept(u, o) /\ order[i] = p
    BY <1>1
  <2>2. p.col = o.col /\ p.desc = o.desc
    OBVIOUS
  <2>3. NullsFirst(p) = NullsFirst(o) \/ (a[o.col] # Null /\ b[o.col] # Null)
    BY <2>1 DEF KeyKept
  <2> HIDE DEF p, o
  <2>4. KeyBefore(p, a, b) <=> KeyBefore(o, a, b)
    BY <2>2, <2>3 DEF KeyBefore
  <2> QED BY <2>1, <2>4 DEF o
<1>3. Len(sort) \in Nat /\ DOMAIN sort = 1..Len(sort)
  OBVIOUS
<1> QED BY <1>1, <1>2, <1>3, BeforeSame

LEMMA SortsRight ==
  ASSUME CellAssumption, RequestAssumption, NEW u, NEW s, Answerable(u, s), u \in Sorting,
         NEW ss, ss = ExtractSorts(s.sort), NEW l, l = ExtractLimit(s),
         NEW asked, asked.max = RealLimit(l), ~Negative(RealLimit(l)) \/ u = "mongodb",
         DOMAIN asked.order = DOMAIN ss,
         \A i \in DOMAIN ss :
           asked.order[i] = [col |-> ss[i].col, desc |-> ss[i].desc, nulls |-> NullsOf(u, ss[i])],
         Exact(u, s.where) => AsAsked(u, s, ExtractQuals(s.where), asked),
         asked.max # All
  PROVE  Limits(u, s, asked)
<1>1. /\ l.count # All /\ Limitable(u, s)
      /\ ~Negative(RealLimit(l)) \/ s.offset + s.count <= MaxInt =>
                 RealLimit(l) = s.offset + s.count /\ s.offset + s.count \in 0..MaxInt
  BY LimitIs
<1>2. Exact(u, s.where) /\ (\A i \in DOMAIN s.sort : KeyKept(u, s.sort[i]))
      /\ (u = "mongodb" => s.offset + s.count <= MaxInt)
  BY <1>1 DEF Limitable
<1>3. SameOrder(u, asked.order, s.sort)
  BY <1>2, OrderKept DEF Answerable, IsStatement
<1> QED BY <1>1, <1>2, <1>3 DEF Limits

-----------------------------------------------------------------------------
(* The texts of SQL.                                                       *)

\* Some alternative of the qual holds.
PartHolds(q, r) == \E j \in DOMAIN Deparse(q) : Holds(Deparse(q)[j], r)

\* Quals as the wrapper deparses them.
IsDeparsed(ms) ==
  /\ ms \in Seq(Range(ms)) /\ \A i \in DOMAIN ms : ms[i].arr \in BOOLEAN
  /\ \A i \in DOMAIN ms : ms[i].arr => ms[i].val \in Seq(Range(ms[i].val))

LEMMA DeparseIs ==
  ASSUME NEW q, q.arr \in BOOLEAN, q.arr => q.val \in Seq(Range(q.val)), NEW p, p = Deparse(q)
  PROVE  /\ p \in Seq(Range(p))
         /\ ~q.arr => p = <<AtomOf(q)>>
         /\ q.arr => /\ DOMAIN p = DOMAIN q.val /\ (p = <<>> <=> q.val = <<>>)
                     /\ \A j \in DOMAIN q.val : p[j] = Atom(q.field, q.op, q.val[j])
<1>1. CASE ~q.arr
  <2>1. p = <<AtomOf(q)>>
    BY <1>1 DEF Deparse
  <2>2. p \in Seq(Range(p))
    BY <2>1 DEF Range
  <2> QED BY <1>1, <2>1, <2>2
<1>2. CASE q.arr
  <2> DEFINE v == q.val
             n == Len(v)
  <2>1. n \in Nat /\ DOMAIN v = 1..n
    BY <1>2
  <2>2. p = [i \in 1..n |-> Atom(q.field, q.op, v[i])]
    BY <1>2, <2>1 DEF Deparse
  <2>3. p = [i \in 1..n |-> p[i]] /\ \A i \in 1..n : p[i] \in Range(p)
    BY <2>2 DEF Range
  <2>4. v = <<>> <=> n = 0
    BY <1>2
  <2> HIDE DEF n
  <2>5. p \in Seq(Range(p)) /\ Len(p) = n
    BY <2>1, <2>3, SeqFrom
  <2>6. p = <<>> <=> n = 0
    BY <2>5
  <2> QED BY <1>2, <2>1, <2>2, <2>4, <2>5, <2>6
<1> QED BY <1>1, <1>2

SqlAsks(ms, order, limit, asked) ==
  /\ \A i \in DOMAIN ms : (ms[i].arr => ms[i].useOr) /\ ms[i].field # "j.x"
  /\ asked.order = order /\ asked.max = RealLimit(limit) /\ ~Negative(RealLimit(limit)) /\ asked.echo = {}

LEMMA SqlIs ==
  ASSUME NEW ms, NEW order, NEW limit, NEW guarded, NEW asked, asked = Sql(ms, order, limit, guarded),
         asked # Refused
  PROVE  SqlAsks(ms, order, limit, asked) /\ asked.groups = Where(SqlParts(ms))
BY DEF Sql, SqlAsks, Request, Deparsable, Unknown

LEMMA SqlPartsAre ==
  ASSUME NEW ms, IsDeparsed(ms), NEW ps, ps = SqlParts(ms)
  PROVE  \E S : /\ ps \in Seq(Seq(S)) /\ Len(ps) = Len(ms) /\ DOMAIN ps = DOMAIN ms
                /\ \A i \in DOMAIN ms : ps[i] = Deparse(ms[i]) /\ ps[i] \in Seq(S)
<1> DEFINE n == Len(ms)
<1>1. n \in Nat /\ DOMAIN ms = 1..n
  BY DEF IsDeparsed
<1>2. ps = [i \in 1..n |-> Deparse(ms[i])]
  BY <1>1 DEF SqlParts
<1>3. ps = [i \in 1..n |-> ps[i]] /\ \A i \in 1..n : ps[i] = Deparse(ms[i])
  BY <1>2
<1>4. \A i \in 1..n : ps[i] \in Seq(Range(ps[i]))
  BY <1>1, <1>3, DeparseIs DEF IsDeparsed
<1> HIDE DEF n
<1> DEFINE S == UNION {Range(ps[i]) : i \in 1..n}
<1>5. ps \in Seq(Seq(S)) /\ Len(ps) = n /\ DOMAIN ps = 1..n
  BY <1>1, <1>3, <1>4, SeqOfSeqs
<1> HIDE DEF S
<1>6. \A i \in 1..n : ps[i] \in Seq(S)
  BY <1>5
<1> QED BY <1>1, <1>3, <1>5, <1>6 DEF n

\* The rows that meet every part are asked for.
LEMMA SqlFinds ==
  ASSUME NEW ms, IsDeparsed(ms), NEW asked, asked.groups = Where(SqlParts(ms)),
         NEW r, \A i \in DOMAIN ms : PartHolds(ms[i], r)
  PROVE  Finds(asked, r)
<1> DEFINE ps == SqlParts(ms)
<1>1. PICK S : /\ ps \in Seq(Seq(S)) /\ Len(ps) = Len(ms) /\ DOMAIN ps = DOMAIN ms
               /\ \A i \in DOMAIN ms : ps[i] = Deparse(ms[i]) /\ ps[i] \in Seq(S)
  BY SqlPartsAre
<1> HIDE DEF ps
<1>2. \A i \in DOMAIN ps : \E j \in DOMAIN ps[i] : Holds(ps[i][j], r)
  BY <1>1 DEF PartHolds
<1>3. ps # <<<<>>>>
  BY <1>2
<1>4. asked.groups = JoinAnd(ps)
  BY <1>3 DEF ps, Where
<1>5. SomeHold(JoinAnd(ps), r)
  BY <1>1, <1>2, JoinFinds
<1> QED BY <1>4, <1>5 DEF Finds, SomeHold

\* No other row is, when all quals are of one cell or the only one is a list.
LEMMA SqlExact ==
  ASSUME NEW ms, IsDeparsed(ms), NEW asked, asked.groups = Where(SqlParts(ms)),
         \/ \A i \in DOMAIN ms : ~ms[i].arr
         \/ Len(ms) = 1 /\ ms[1].arr /\ ms[1].val # <<>>,
         NEW r, Finds(asked, r)
  PROVE  \A i \in DOMAIN ms : PartHolds(ms[i], r)
<1> DEFINE ps == SqlParts(ms)
<1>1. PICK S : /\ ps \in Seq(Seq(S)) /\ Len(ps) = Len(ms) /\ DOMAIN ps = DOMAIN ms
               /\ \A i \in DOMAIN ms : ps[i] = Deparse(ms[i]) /\ ps[i] \in Seq(S)
  BY SqlPartsAre
<1>2. Len(ms) \in Nat /\ DOMAIN ms = 1..Len(ms)
  BY DEF IsDeparsed
<1> HIDE DEF ps
<1>3. CASE \A i \in DOMAIN ms : ~ms[i].arr
  <2>1. ASSUME NEW i \in DOMAIN ps PROVE ps[i] = <<AtomOf(ms[i])>>
    BY <1>1, <1>3, <2>1, DeparseIs DEF IsDeparsed
  <2>2. \A i \in DOMAIN ps : Len(ps[i]) = 1 /\ ps[i] # <<>> /\ DOMAIN ps[i] = 1..1
    BY <2>1
  <2>3. ps # <<<<>>>>
    BY <2>2
  <2>4. SomeHold(JoinAnd(ps), r)
    BY <2>3 DEF ps, Where, Finds, SomeHold
  <2>5. \A i \in DOMAIN ps : Holds(ps[i][1], r)
    BY <1>1, <2>2, <2>4, JoinOnes
  <2>6. ASSUME NEW i \in DOMAIN ms PROVE PartHolds(ms[i], r)
    <3>1. 1 \in DOMAIN ps[i] /\ ps[i] = Deparse(ms[i]) /\ Holds(ps[i][1], r)
      BY <1>1, <2>2, <2>5
    <3> QED BY <3>1 DEF PartHolds
  <2> QED BY <2>6
<1>4. CASE Len(ms) = 1 /\ ms[1].arr /\ ms[1].val # <<>>
  <2>1. 1 \in DOMAIN ms /\ DOMAIN ms = {1}
    BY <1>2, <1>4
  <2>2. ps[1] = Deparse(ms[1]) /\ ps[1] \in Seq(S) /\ Len(ps) = 1
    BY <1>1, <1>4, <2>1
  <2>3. ps[1] # <<>>
    BY <1>4, <2>1, <2>2, DeparseIs DEF IsDeparsed
  <2>4. ps # <<<<>>>>
    BY <2>3
  <2>5. SomeHold(JoinAnd(ps), r)
    BY <2>4 DEF ps, Where, Finds, SomeHold
  <2>6. \E j \in DOMAIN ps[1] : Holds(ps[1][j], r)
    BY <1>1, <2>2, <2>3, <2>5, JoinAlone
  <2> QED BY <2>1, <2>2, <2>6 DEF PartHolds
<1> QED BY <1>3, <1>4

\* The qual as the wrapper rewrites it says the same.
Rewritten(m, q) ==
  IF q.arr THEN m = q
  ELSE /\ m.arr = FALSE /\ m.field = q.field
       /\ q.field # "j.x" => \A r : IsRow(r) => (Holds(AtomOf(m), r) <=> Means(q, r))

LEMMA RewrittenSelf ==
  ASSUME NEW q, IsQual(q)
  PROVE  Rewritten(q, q)
<1>1. q.arr \in BOOLEAN
  BY DEF IsQual
<1> QED BY <1>1, HoldsAtomOf DEF Rewritten

LEMMA PartMeans ==
  ASSUME NEW q, IsQual(q), NEW m, Rewritten(m, q), m.field # "j.x", m.arr => m.useOr,
         NEW r, IsRow(r)
  PROVE  PartHolds(m, r) <=> Means(q, r)
<1> DEFINE p == Deparse(m)
<1>1. CASE ~q.arr
  <2>1. m.arr = FALSE /\ q.field # "j.x" /\ (Holds(AtomOf(m), r) <=> Means(q, r))
    BY <1>1 DEF Rewritten
  <2>2. p = <<AtomOf(m)>>
    BY <2>1 DEF Deparse
  <2>3. DOMAIN p = {1} /\ p[1] = AtomOf(m)
    BY <2>2
  <2> HIDE DEF p
  <2>4. PartHolds(m, r) <=> Holds(AtomOf(m), r)
    BY <2>3 DEF PartHolds, p
  <2> QED BY <2>1, <2>4
<1>2. CASE q.arr
  <2>1. m = q /\ q.useOr /\ Applies(q.op, q.field) /\ q.field # "j.x"
    BY <1>2 DEF Rewritten, IsQual
  <2>2. DOMAIN p = DOMAIN q.val /\ \A j \in DOMAIN q.val : p[j] = Atom(q.field, q.op, q.val[j])
    BY <1>2, <2>1 DEF Deparse
  <2>3. ASSUME NEW j \in DOMAIN q.val
        PROVE  Holds(p[j], r) <=> Compare(q.op, r[q.field], q.val[j]) = TRUE
    BY <2>1, <2>2, HoldsCompare, ZenonT(40)
  <2> HIDE DEF p
  <2>4. Means(q, r) <=> \E j \in DOMAIN q.val : Compare(q.op, r[q.field], q.val[j]) = TRUE
    BY <1>2, <2>1 DEF Means, ColumnOf
  <2>5. PartHolds(m, r) <=> \E j \in DOMAIN q.val : Holds(p[j], r)
    BY <2>1, <2>2 DEF PartHolds, p
  <2> QED BY <2>3, <2>4, <2>5
<1>3. q.arr \in BOOLEAN
  BY DEF IsQual
<1> QED BY <1>1, <1>2, <1>3

AreRewritten(ms, qs) ==
  /\ DOMAIN ms = DOMAIN qs /\ ms \in Seq(Range(ms))
  /\ \A i \in DOMAIN qs : Rewritten(ms[i], qs[i])

Deparsing == {"bigquery", "snowflake", "clickhouse", "mysql", "mssql", "duckdb", "cfd1"}

LEMMA RewrittenDeparsed ==
  ASSUME NEW qs, AreQuals(qs), NEW ms, AreRewritten(ms, qs)
  PROVE  IsDeparsed(ms)
<1>1. ASSUME NEW i \in DOMAIN ms
      PROVE  ms[i].arr \in BOOLEAN /\ (ms[i].arr => ms[i].val \in Seq(Range(ms[i].val)))
  <2> DEFINE q == qs[i]
             m == ms[i]
  <2>1. IsQual(q) /\ Rewritten(m, q)
    BY DEF AreQuals, AreRewritten
  <2> HIDE DEF q, m
  <2>2. CASE q.arr
    <3>1. m = q /\ q.val \in Seq(Values(q.field))
      BY <2>1, <2>2 DEF Rewritten, IsQual
    <3> QED BY <2>1, <3>1, OwnSeq DEF q, m, IsQual
  <2>3. CASE ~q.arr
    BY <2>1, <2>3 DEF Rewritten, m
  <2> QED BY <2>2, <2>3
<1> QED BY <1>1 DEF IsDeparsed, AreRewritten

LEMMA SqlKeeps ==
  ASSUME StatementAssumption, CellAssumption, NEW u \in Wrappers, NEW s, IsStatement(s),
         NEW qs, qs = ExtractQuals(s.where), NEW ms, AreRewritten(ms, qs), NEW order, NEW limit,
         NEW guarded, NEW asked, asked = Sql(ms, order, limit, guarded), asked # Refused
  PROVE  /\ SqlAsks(ms, order, limit, asked)
         /\ Complete(u, qs, asked) /\ Truthful(u, asked)
         /\ Exact(u, s.where) /\ u \in Deparsing => AsAsked(u, s, qs, asked)
<1>1. SqlAsks(ms, order, limit, asked) /\ asked.groups = Where(SqlParts(ms))
  BY SqlIs
<1>2. AreClauses(s.where) /\ AreQuals(qs)
  BY QualsOf DEF IsStatement, AreClauses
<1>3. IsDeparsed(ms) /\ DOMAIN ms = DOMAIN qs
  BY <1>2, RewrittenDeparsed DEF AreRewritten
<1>4. ASSUME NEW r \in Table[u], NEW i \in DOMAIN qs
      PROVE  PartHolds(ms[i], r) <=> Means(qs[i], r)
  <2> DEFINE q == qs[i]
             m == ms[i]
  <2>1. IsQual(q) /\ Rewritten(m, q) /\ m.field # "j.x" /\ (m.arr => m.useOr)
    BY <1>1, <1>2, <1>3 DEF AreQuals, AreRewritten, SqlAsks
  <2>2. IsRow(r)
    BY TableRows
  <2> HIDE DEF q, m
  <2>3. PartHolds(m, r) <=> Means(q, r)
    BY <2>1, <2>2, PartMeans
  <2> QED BY <2>3 DEF q, m
<1>5. Complete(u, qs, asked)
  <2> SUFFICES ASSUME NEW r \in Table[u], Met(qs, r) PROVE Finds(asked, r)
    BY DEF Complete
  <2>1. \A i \in DOMAIN ms : PartHolds(ms[i], r)
    BY <1>3, <1>4 DEF Met
  <2> QED BY <1>1, <1>3, <2>1, SqlFinds
<1>6. Truthful(u, asked)
  BY <1>1 DEF Truthful, SqlAsks
<1>7. ASSUME Exact(u, s.where), u \in Deparsing PROVE AsAsked(u, s, qs, asked)
  <2>1. Len(qs) = Len(s.where) /\ ((\A i \in DOMAIN qs : ~qs[i].arr) \/ (Len(qs) = 1 /\ qs[1].val # <<>>))
    BY <1>7 DEF Exact, Deparsing
  <2>2. ASSUME NEW i \in DOMAIN qs
        PROVE  /\ qs[i].arr \in BOOLEAN /\ (qs[i].arr => qs[i].useOr)
               /\ qs[i].arr = ms[i].arr /\ (qs[i].arr => ms[i] = qs[i])
    BY <1>1, <1>2, <1>3, ZenonT(40) DEF AreQuals, IsQual, AreRewritten, Rewritten, SqlAsks
  <2>3. Len(qs) \in Nat /\ DOMAIN qs = 1..Len(qs) /\ Len(ms) = Len(qs)
    BY <1>2, <1>3 DEF AreQuals, AreRewritten
  <2>4. \/ \A i \in DOMAIN ms : ~ms[i].arr
        \/ Len(ms) = 1 /\ ms[1].arr /\ ms[1].val # <<>>
    <3>1. CASE \A i \in DOMAIN qs : ~qs[i].arr
      BY <1>3, <2>2, <3>1
    <3>2. CASE Len(qs) = 1 /\ qs[1].val # <<>>
      <4>1. DOMAIN qs = {1}
        BY <2>3, <3>2
      <4> QED BY <1>3, <2>2, <2>3, <3>2, <4>1
    <3> QED BY <2>1, <3>1, <3>2
  <2>5. ASSUME NEW r \in Table[u], Finds(asked, r) PROVE Met(qs, r)
    <3>1. \A i \in DOMAIN ms : PartHolds(ms[i], r)
      BY <1>1, <1>3, <2>4, <2>5, SqlExact
    <3> QED BY <1>3, <1>4, <3>1 DEF Met
  <2> QED BY <2>1, <2>2, <2>5 DEF AsAsked
<1> QED BY <1>1, <1>5, <1>6, <1>7

\* What the wrappers that write SQL ask for.
LEMMA SqlRight ==
  ASSUME StatementAssumption, CellAssumption, RequestAssumption, NEW u \in Wrappers, u \in Deparsing,
         NEW s, Answerable(u, s), NEW qs, qs = ExtractQuals(s.where), NEW ms, AreRewritten(ms, qs),
         NEW ss, ss = ExtractSorts(s.sort), NEW l, l = ExtractLimit(s), NEW order,
         DOMAIN order = DOMAIN ss,
         \A i \in DOMAIN ss :
           order[i] = [col |-> ss[i].col, desc |-> ss[i].desc, nulls |-> NullsOf(u, ss[i])],
         NEW guarded, NEW asked, asked = Sql(ms, order, l, guarded), asked # Refused
  PROVE  AskKeeps(u, s, asked)
<1>1. /\ SqlAsks(ms, order, l, asked)
      /\ Complete(u, qs, asked) /\ Truthful(u, asked)
      /\ Exact(u, s.where) /\ u \in Deparsing => AsAsked(u, s, qs, asked)
  BY SqlKeeps DEF Answerable
<1>2. ASSUME asked.max # All PROVE Limits(u, s, asked)
  <2>1. asked.order = order /\ asked.max = RealLimit(l) /\ ~Negative(RealLimit(l))
    BY <1>1 DEF SqlAsks
  <2>2. u \in Sorting
    BY DEF Deparsing, Sorting
  <2> QED BY <1>1, <1>2, <2>1, <2>2, SortsRight
<1> QED BY <1>1, <1>2 DEF AskKeeps

LEMMA SqlAggregateRight ==
  ASSUME StatementAssumption, CellAssumption, RequestAssumption, NEW u \in Wrappers, u \in Deparsing,
         NEW s, Answerable(u, s), NEW qs, qs = ExtractQuals(s.where), NEW ms, AreRewritten(ms, qs),
         UpperPath(s, qs, u \in Aggregating), NEW order,
         NEW guarded, NEW asked, asked = Sql(ms, order, NoLimit, guarded), asked # Refused
  PROVE  AggregateKeeps(u, s, asked)
<1>1. /\ SqlAsks(ms, order, NoLimit, asked)
      /\ Complete(u, qs, asked)
      /\ Exact(u, s.where) /\ u \in Deparsing => AsAsked(u, s, qs, asked)
  BY SqlKeeps DEF Answerable
<1>2. Exact(u, s.where)
  BY DEF Answerable, UpperPath
<1>3. asked.max = All /\ asked.echo = {}
  BY <1>1 DEF SqlAsks, RealLimit, NoLimit
<1> QED BY <1>1, <1>2, <1>3 DEF AggregateKeeps

LEMMA SelfRewritten ==
  ASSUME NEW qs, AreQuals(qs)
  PROVE  AreRewritten(qs, qs)
BY RewrittenSelf DEF AreQuals, AreRewritten

\* "b is true" is written b = 1, which no NULL is either.
LEMMA MssqlRewritten ==
  ASSUME CellAssumption, NEW q, IsQual(q), q.op = "is not" => q.val = Word
  PROVE  Rewritten(MssqlQual(q), q)
<1>1. CASE IsTest(q.op) /\ q.val # Word
  <2>1. q.op = "is" /\ ~Applies(q.op, q.field) /\ ~Applies(q.op, ColumnOf(q))
    BY <1>1, AppliesNotTest DEF IsTest
  <2>2. q.arr = FALSE /\ q.field # "j.x" /\ q.val \in BOOLEAN /\ q.val # Null
    BY <1>1, <2>1 DEF IsQual
  <2> DEFINE m == MssqlQual(q)
  <2>3. m = CellQual(q.field, "=", q.val)
    BY <1>1, <2>1 DEF MssqlQual
  <2>4. m.arr = FALSE /\ m.field = q.field /\ m.op = "=" /\ m.val = q.val
    <3> HIDE DEF m
    <3> QED BY <2>3 DEF CellQual, Qual
  <2> HIDE DEF m
  <2>5. ASSUME NEW r PROVE Holds(AtomOf(m), r) <=> Means(q, r)
    <3>1. Holds(Atom(q.field, "=", q.val), r) <=> Compare("=", r[q.field], q.val) = TRUE
      <4>1. Applies("=", q.field)
        BY DEF Applies
      <4> QED BY <4>1, HoldsCompare
    <3>2. Compare("=", r[q.field], q.val) = TRUE <=> r[q.field] = q.val
      BY <2>2 DEF Compare
    <3>3. Means(q, r) <=> r[q.field] = q.val
      BY <1>1, <2>1, <2>2 DEF Means, ColumnOf
    <3> QED BY <2>4, <3>1, <3>2, <3>3 DEF AtomOf
  <2> QED BY <2>2, <2>4, <2>5 DEF Rewritten, m
<1>2. CASE ~(IsTest(q.op) /\ q.val # Word)
  BY <1>2, RewrittenSelf DEF MssqlQual, IsTest
<1> QED BY <1>1, <1>2

LEMMA MappedRewritten ==
  ASSUME NEW qs, AreQuals(qs), NEW ms, ms = [i \in DOMAIN qs |-> ms[i]],
         \A i \in DOMAIN qs : Rewritten(ms[i], qs[i])
  PROVE  AreRewritten(ms, qs)
<1>1. Len(qs) \in Nat /\ DOMAIN qs = 1..Len(qs)
  BY DEF AreQuals
<1>2. ms = [i \in 1..Len(qs) |-> ms[i]] /\ \A i \in 1..Len(qs) : ms[i] \in Range(ms)
  BY <1>1 DEF Range
<1>3. ms \in Seq(Range(ms)) /\ DOMAIN ms = DOMAIN qs
  <2> DEFINE n == Len(qs)
  <2>1. n \in Nat /\ DOMAIN qs = 1..n /\ ms = [i \in 1..n |-> ms[i]] /\ \A i \in 1..n : ms[i] \in Range(ms)
    BY <1>1, <1>2
  <2> HIDE DEF n
  <2> QED BY <2>1, SeqFrom
<1> QED BY <1>3 DEF AreRewritten

MssqlQuals(qs)  == [i \in DOMAIN qs |-> MssqlQual(qs[i])]
DuckdbQuals(qs) == [i \in DOMAIN qs |-> DuckdbQual(qs[i])]

LEMMA MssqlMapped ==
  ASSUME CellAssumption, NEW qs, AreQuals(qs), \A i \in DOMAIN qs : Translates("mssql", qs[i])
  PROVE  AreRewritten(MssqlQuals(qs), qs)
<1> DEFINE ms == MssqlQuals(qs)
<1>1. ms = [i \in DOMAIN qs |-> ms[i]] /\ \A i \in DOMAIN qs : ms[i] = MssqlQual(qs[i])
  BY DEF MssqlQuals
<1> HIDE DEF ms
<1>2. ASSUME NEW i \in DOMAIN qs PROVE Rewritten(MssqlQual(qs[i]), qs[i])
  <2>1. qs[i].op = "is not" => qs[i].val = Word
    BY DEF Translates
  <2>2. IsQual(qs[i])
    BY DEF AreQuals
  <2> QED BY <2>1, <2>2, MssqlRewritten
<1> QED BY <1>1, <1>2, MappedRewritten DEF ms

LEMMA DuckdbMapped ==
  ASSUME NEW qs, AreQuals(qs), \A i \in DOMAIN qs : Translates("duckdb", qs[i])
  PROVE  AreRewritten(DuckdbQuals(qs), qs)
<1> DEFINE ms == DuckdbQuals(qs)
<1>1. ms = [i \in DOMAIN qs |-> ms[i]] /\ \A i \in DOMAIN qs : ms[i] = DuckdbQual(qs[i])
  BY DEF DuckdbQuals
<1> HIDE DEF ms
<1>2. ASSUME NEW i \in DOMAIN qs PROVE Rewritten(DuckdbQual(qs[i]), qs[i])
  <2>1. DuckdbQual(qs[i]) = qs[i]
    BY DEF Translates, DuckdbQual
  <2>2. IsQual(qs[i])
    BY DEF AreQuals
  <2> QED BY <2>1, <2>2, RewrittenSelf
<1> QED BY <1>1, <1>2, MappedRewritten DEF ms

LEMMA AskedQuals ==
  ASSUME NEW u, NEW s, Answerable(u, s), NEW qs, qs = ExtractQuals(s.where)
  PROVE  AreQuals(qs) /\ (\A i \in DOMAIN qs : Translates(u, qs[i])) /\ AreClauses(s.where)
<1>1. AreClauses(s.where)
  BY DEF Answerable, IsStatement, AreClauses
<1> QED BY <1>1, QualsOf DEF Answerable

LEMMA OrdersAre ==
  ASSUME NEW ss, NEW u, NEW order,
         \/ order = SortDeparse(ss) /\ u \notin {"mysql", "mssql", "mongodb", "duckdb"}
         \/ order = SortWithout(ss, "low") /\ u \in {"mysql", "mssql", "mongodb"}
         \/ order = SortWithout(ss, "last") /\ u = "duckdb"
  PROVE  /\ DOMAIN order = DOMAIN ss
         /\ \A i \in DOMAIN ss :
              order[i] = [col |-> ss[i].col, desc |-> ss[i].desc, nulls |-> NullsOf(u, ss[i])]
<1>1. CASE order = SortDeparse(ss) /\ u \notin {"mysql", "mssql", "mongodb", "duckdb"}
  BY <1>1 DEF SortDeparse, NullsOf
<1>2. CASE order = SortWithout(ss, "low") /\ u \in {"mysql", "mssql", "mongodb"}
  BY <1>2 DEF SortWithout, NullsOf
<1>3. CASE order = SortWithout(ss, "last") /\ u = "duckdb"
  BY <1>3 DEF SortWithout, NullsOf
<1> QED BY <1>1, <1>2, <1>3

LEMMA DeparsingRight ==
  ASSUME StatementAssumption, CellAssumption, RequestAssumption, NEW u \in Wrappers, u \in Deparsing,
         NEW s, Answerable(u, s), NEW asked,
         asked = Ask(u, ExtractQuals(s.where), ExtractSorts(s.sort), ExtractLimit(s)), asked # Refused
  PROVE  AskKeeps(u, s, asked)
<1> DEFINE qs == ExtractQuals(s.where)
           ss == ExtractSorts(s.sort)
           l  == ExtractLimit(s)
<1>1. AreQuals(qs) /\ (\A i \in DOMAIN qs : Translates(u, qs[i])) /\ AreRewritten(qs, qs)
  BY AskedQuals, SelfRewritten
<1>2. asked = Ask(u, qs, ss, l)
  OBVIOUS
<1> HIDE DEF qs, ss, l
<1>3. \E ms, order, guarded :
        /\ AreRewritten(ms, qs) /\ asked = Sql(ms, order, l, guarded)
        /\ \/ order = SortDeparse(ss) /\ u \notin {"mysql", "mssql", "mongodb", "duckdb"}
           \/ order = SortWithout(ss, "low") /\ u \in {"mysql", "mssql", "mongodb"}
           \/ order = SortWithout(ss, "last") /\ u = "duckdb"
  <2>1. CASE u \in {"bigquery", "snowflake"}
    <3>1. asked = Sql(qs, SortDeparse(ss), l, FALSE)
      BY <1>2, <2>1 DEF Ask, BigqueryDeparse, SnowflakeDeparse
    <3> QED BY <1>1, <2>1, <3>1
  <2>2. CASE u = "clickhouse"
    <3>1. asked = Sql(qs, SortDeparse(ss), l, TRUE)
      BY <1>2, <2>2 DEF Ask, ClickhouseDeparse
    <3> QED BY <1>1, <2>2, <3>1
  <2>3. CASE u = "cfd1"
    <3>1. asked = Sql(qs, SortDeparse(ss), l, FALSE)
      BY <1>2, <2>3 DEF Ask, Cfd1Deparse
    <3> QED BY <1>1, <2>3, <3>1
  <2>4. CASE u = "mysql"
    <3>1. asked = Sql(qs, SortWithout(ss, "low"), l, TRUE)
      BY <1>2, <2>4 DEF Ask, MysqlDeparse
    <3> QED BY <1>1, <2>4, <3>1
  <2>5. CASE u = "mssql"
    <3>1. asked = Sql(MssqlQuals(qs), SortWithout(ss, "low"), l, TRUE)
      BY <1>2, <2>5 DEF Ask, MssqlDeparse, MssqlQuals
    <3>2. AreRewritten(MssqlQuals(qs), qs)
      BY <1>1, <2>5, MssqlMapped
    <3> QED BY <2>5, <3>1, <3>2
  <2>6. CASE u = "duckdb"
    <3>1. asked = Sql(DuckdbQuals(qs), SortWithout(ss, "last"), l, TRUE)
      BY <1>2, <2>6 DEF Ask, DuckdbDeparse, DuckdbQuals
    <3>2. AreRewritten(DuckdbQuals(qs), qs)
      BY <1>1, <2>6, DuckdbMapped
    <3> QED BY <2>6, <3>1, <3>2
  <2> QED BY <2>1, <2>2, <2>3, <2>4, <2>5, <2>6 DEF Deparsing
<1>4. PICK ms, order, guarded :
        /\ AreRewritten(ms, qs) /\ asked = Sql(ms, order, l, guarded)
        /\ \/ order = SortDeparse(ss) /\ u \notin {"mysql", "mssql", "mongodb", "duckdb"}
           \/ order = SortWithout(ss, "low") /\ u \in {"mysql", "mssql", "mongodb"}
           \/ order = SortWithout(ss, "last") /\ u = "duckdb"
  BY <1>3
<1>5. DOMAIN order = DOMAIN ss /\ \A i \in DOMAIN ss :
           order[i] = [col |-> ss[i].col, desc |-> ss[i].desc, nulls |-> NullsOf(u, ss[i])]
  <2>1. \/ order = SortDeparse(ss) /\ u \notin {"mysql", "mssql", "mongodb", "duckdb"}
        \/ order = SortWithout(ss, "low") /\ u \in {"mysql", "mssql", "mongodb"}
        \/ order = SortWithout(ss, "last") /\ u = "duckdb"
    BY <1>4
  <2> QED BY ONLY <2>1, OrdersAre
<1> QED BY <1>4, <1>5, SqlRight DEF qs, ss, l

LEMMA DeparsingAggregateRight ==
  ASSUME StatementAssumption, CellAssumption, RequestAssumption, NEW u \in Wrappers, u \in Deparsing,
         NEW s, Answerable(u, s), UpperPath(s, ExtractQuals(s.where), u \in Aggregating), NEW asked,
         asked = AskAggregate(u, ExtractQuals(s.where)), asked # Refused
  PROVE  AggregateKeeps(u, s, asked)
<1> DEFINE qs == ExtractQuals(s.where)
<1>1. AreQuals(qs) /\ (\A i \in DOMAIN qs : Translates(u, qs[i])) /\ AreRewritten(qs, qs)
  BY AskedQuals, SelfRewritten
<1>2. asked = AskAggregate(u, qs) /\ u \in Aggregating /\ UpperPath(s, qs, u \in Aggregating)
  BY DEF UpperPath
<1> HIDE DEF qs
<1>3. \E ms, order, guarded : AreRewritten(ms, qs) /\ asked = Sql(ms, order, NoLimit, guarded)
  <2>1. CASE u = "bigquery"
    <3>1. asked = Sql(qs, <<>>, NoLimit, TRUE)
      BY <1>2, <2>1 DEF AskAggregate, BigqueryAggregate
    <3> QED BY <1>1, <3>1
  <2>2. CASE u = "clickhouse"
    <3>1. asked = Sql(qs, SortDeparse(<<>>), NoLimit, TRUE)
      BY <1>2, <2>2 DEF AskAggregate, ClickhouseAggregate, ClickhouseDeparse
    <3> QED BY <1>1, <3>1
  <2>3. CASE u = "mysql"
    <3>1. asked = Sql(qs, SortWithout(<<>>, "low"), NoLimit, TRUE)
      BY <1>2, <2>3 DEF AskAggregate, MysqlAggregate, MysqlDeparse
    <3> QED BY <1>1, <3>1
  <2>4. CASE u = "mssql"
    <3>1. asked = Sql(MssqlQuals(qs), SortWithout(<<>>, "low"), NoLimit, TRUE)
      BY <1>2, <2>4 DEF AskAggregate, MssqlAggregate, MssqlDeparse, MssqlQuals
    <3>2. AreRewritten(MssqlQuals(qs), qs)
      BY <1>1, <2>4, MssqlMapped
    <3> QED BY <3>1, <3>2
  <2>5. CASE u = "duckdb"
    <3>1. asked = Sql(DuckdbQuals(qs), SortWithout(<<>>, "last"), NoLimit, TRUE)
      BY <1>2, <2>5 DEF AskAggregate, DuckdbAggregate, DuckdbDeparse, DuckdbQuals
    <3>2. AreRewritten(DuckdbQuals(qs), qs)
      BY <1>1, <2>5, DuckdbMapped
    <3> QED BY <3>1, <3>2
  <2> QED BY <1>2, <2>1, <2>2, <2>3, <2>4, <2>5 DEF Deparsing, Aggregating
<1>4. PICK ms, order, guarded : AreRewritten(ms, qs) /\ asked = Sql(ms, order, NoLimit, guarded)
  BY <1>3
<1> QED BY <1>2, <1>4, SqlAggregateRight DEF qs

-----------------------------------------------------------------------------
(* Filters that are a conjunction of what is made of every qual.           *)

\* The conditions hold of every row that meets the qual.
Writes(g, q) == g \in Seq(Range(g)) /\ \A r : IsRow(r) /\ Means(q, r) => HoldsAll(g, r)

LEMMA WritesNothing ==
  ASSUME NEW q
  PROVE  Writes(<<>>, q)
<1> DEFINE g == <<>>
<1>1. g \in Seq(Range(g)) /\ DOMAIN g = {}
  OBVIOUS
<1> HIDE DEF g
<1>2. Writes(g, q)
  BY <1>1 DEF Writes, HoldsAll
<1> QED BY <1>2 DEF g

LEMMA WritesAtom ==
  ASSUME NEW q, NEW a, \A r : IsRow(r) /\ Means(q, r) => Holds(a, r)
  PROVE  Writes(<<a>>, q)
<1> DEFINE g == <<a>>
<1>1. a \in Range(g) /\ DOMAIN g = {1} /\ g[1] = a
  BY DEF Range
<1>2. g \in Seq(Range(g))
  BY <1>1
<1> HIDE DEF g
<1>3. Writes(g, q)
  BY <1>1, <1>2 DEF Writes, HoldsAll
<1> QED BY <1>3 DEF g

LEMMA CatHolds ==
  ASSUME NEW g, g \in Seq(Range(g)), NEW h, h \in Seq(Range(h)), NEW c, c = g \o h
  PROVE  /\ c \in Seq(Range(c))
         /\ \A r : HoldsAll(c, r) <=> HoldsAll(g, r) /\ HoldsAll(h, r)
<1> DEFINE S == Range(g) \cup Range(h)
           n == Len(g)
           m == Len(h)
<1>1. Range(g) \subseteq S /\ Range(h) \subseteq S
  OBVIOUS
<1> HIDE DEF S
<1>2. g \in Seq(S) /\ h \in Seq(S) /\ n \in Nat /\ m \in Nat /\ DOMAIN g = 1..n /\ DOMAIN h = 1..m
  BY <1>1
<1> HIDE DEF n, m
<1>3. IsConcat(S, g, n, h, m, c)
  BY <1>2, ConcatIs DEF n, m
<1>4. c \in Seq(S) /\ DOMAIN c = 1..(n + m) /\ (\A i \in 1..n : c[i] = g[i]) /\ \A i \in 1..m : c[n + i] = h[i]
  <2>1. c \in Seq(S) /\ Len(c) = n + m /\ (\A i \in 1..n : c[i] = g[i]) /\ \A i \in 1..m : c[n + i] = h[i]
    BY <1>3 DEF IsConcat
  <2>2. DOMAIN c = 1..Len(c)
    BY <2>1
  <2> QED BY <2>1, <2>2
<1>5. c \in Seq(Range(c))
  BY <1>4, OwnSeq
<1>6. ASSUME NEW r, HoldsAll(c, r) PROVE HoldsAll(g, r) /\ HoldsAll(h, r)
  <2>1. \A i \in 1..n : i \in DOMAIN c
    BY <1>2, <1>4
  <2>2. \A i \in 1..m : n + i \in DOMAIN c
    BY <1>2, <1>4
  <2> QED BY <1>2, <1>4, <1>6, <2>1, <2>2 DEF HoldsAll
<1>7. ASSUME NEW r, HoldsAll(g, r), HoldsAll(h, r) PROVE HoldsAll(c, r)
  <2>1. ASSUME NEW i \in DOMAIN c PROVE Holds(c[i], r)
    <3>1. CASE i \in 1..n
      BY <1>2, <1>4, <1>7, <3>1 DEF HoldsAll
    <3>2. CASE i \notin 1..n
      <4>1. i - n \in 1..m /\ n + (i - n) = i
        BY <1>2, <1>4, <3>2
      <4>2. c[i] = h[i - n]
        BY <1>4, <4>1
      <4> QED BY <1>2, <1>7, <4>1, <4>2 DEF HoldsAll
    <3> QED BY <3>1, <3>2
  <2> QED BY <2>1 DEF HoldsAll
<1> QED BY <1>5, <1>6, <1>7

LEMMA OneSeq ==
  ASSUME NEW a, NEW g, g = <<a>>
  PROVE  g \in Seq(Range(g)) /\ \A r : HoldsAll(g, r) <=> Holds(a, r)
<1>1. a \in Range(g) /\ DOMAIN g = {1} /\ g[1] = a
  BY DEF Range
<1>2. g \in Seq(Range(g))
  BY <1>1
<1>3. ASSUME NEW r PROVE HoldsAll(g, r) <=> Holds(a, r)
  BY <1>1 DEF HoldsAll
<1> QED BY <1>2, <1>3

LEMMA WritesTwo ==
  ASSUME NEW q, NEW a, NEW b, \A r : IsRow(r) /\ Means(q, r) => Holds(a, r) /\ Holds(b, r)
  PROVE  Writes(<<a>> \o <<b>>, q)
<1> DEFINE g == <<a>>
           h == <<b>>
           c == g \o h
<1>1. g \in Seq(Range(g)) /\ \A r : HoldsAll(g, r) <=> Holds(a, r)
  <2> HIDE DEF g
  <2> QED BY OneSeq DEF g
<1>2. h \in Seq(Range(h)) /\ \A r : HoldsAll(h, r) <=> Holds(b, r)
  <2> HIDE DEF h
  <2> QED BY OneSeq DEF h
<1> HIDE DEF g, h
<1>3. c \in Seq(Range(c)) /\ \A r : HoldsAll(c, r) <=> HoldsAll(g, r) /\ HoldsAll(h, r)
  BY <1>1, <1>2, CatHolds
<1> HIDE DEF c
<1>4. Writes(c, q)
  BY <1>1, <1>2, <1>3 DEF Writes
<1> QED BY <1>4 DEF c, g, h

LEMMA WritesSame ==
  ASSUME NEW q, IsQual(q), ~q.arr
  PROVE  /\ q.field # "j.x" => Writes(<<AtomOf(q)>>, q)
         /\ Writes(<<Atom(ColumnOf(q), q.op, q.val)>>, q)
<1>1. ASSUME q.field # "j.x" PROVE Writes(<<AtomOf(q)>>, q)
  <2>1. \A r : IsRow(r) /\ Means(q, r) => Holds(AtomOf(q), r)
    BY <1>1, HoldsAtomOf
  <2> QED BY <2>1, WritesAtom
<1>2. Writes(<<Atom(ColumnOf(q), q.op, q.val)>>, q)
  <2>1. \A r : IsRow(r) /\ Means(q, r) => Holds(Atom(ColumnOf(q), q.op, q.val), r)
    BY HoldsMeans
  <2> QED BY <2>1, WritesAtom
<1> QED BY <1>1, <1>2

LEMMA CompareEqual ==
  ASSUME CellAssumption, NEW x, NEW y
  PROVE  /\ Compare("=", x, y) = TRUE => x = y /\ x # Null
         /\ Compare("<>", x, y) = TRUE => x # y /\ x # Null
<1>1. Null # TRUE
  BY DEF CellAssumption
<1>2. ASSUME Compare("=", x, y) = TRUE PROVE x = y /\ x # Null
  <2>1. x # Null /\ y # Null
    BY <1>1, <1>2, Zenon DEF Compare
  <2> QED BY <1>2, <2>1 DEF Compare
<1>3. ASSUME Compare("<>", x, y) = TRUE PROVE x # y /\ x # Null
  <2>1. x # Null /\ y # Null
    BY <1>1, <1>3, Zenon DEF Compare
  <2> QED BY <1>3, <2>1 DEF Compare
<1> QED BY <1>2, <1>3

\* A list, or a cell as a list of one.
LEMMA WritesIn ==
  ASSUME CellAssumption, NEW q, IsQual(q), q.op = "="
  PROVE  /\ q.arr /\ q.useOr => Writes(<<Atom(q.field, "in", q.val)>>, q)
         /\ ~q.arr => Writes(<<Atom(ColumnOf(q), "in", <<q.val>>)>>, q)
<1>1. ASSUME q.arr, q.useOr PROVE Writes(<<Atom(q.field, "in", q.val)>>, q)
  <2>1. ASSUME NEW r, Means(q, r) PROVE Holds(Atom(q.field, "in", q.val), r)
    <3>1. q.field # "j.x"
      BY <1>1 DEF IsQual
    <3>2. PICK i \in DOMAIN q.val : Compare("=", r[q.field], q.val[i]) = TRUE
      BY <1>1, <2>1, <3>1 DEF Means, ColumnOf
    <3>3. r[q.field] = q.val[i]
      BY <1>1, <3>2, CompareEqual, ZenonT(40)
    <3>4. q.val[i] \in Range(q.val)
      BY DEF Range
    <3> QED BY <3>3, <3>4, HoldsOther
  <2> QED BY <2>1, WritesAtom
<1>2. ASSUME ~q.arr PROVE Writes(<<Atom(ColumnOf(q), "in", <<q.val>>)>>, q)
  <2>1. ASSUME NEW r, Means(q, r) PROVE Holds(Atom(ColumnOf(q), "in", <<q.val>>), r)
    <3>1. Compare("=", r[ColumnOf(q)], q.val) = TRUE
      BY <1>2, <2>1 DEF Means, IsTest
    <3>2. r[ColumnOf(q)] = q.val
      BY <3>1, CompareEqual
    <3>3. Range(<<q.val>>) = {q.val}
      BY DEF Range
    <3> QED BY <3>2, <3>3, HoldsOther
  <2> QED BY <2>1, WritesAtom
<1> QED BY <1>1, <1>2

\* Without the value of a cell, or without the values of a list.
LEMMA WritesOther ==
  ASSUME CellAssumption, NEW q, IsQual(q), q.op = "<>"
  PROVE  /\ q.arr /\ ~q.useOr => Writes(<<Atom(q.field, "not in", q.val)>>, q)
         /\ ~q.arr => Writes(<<Atom(ColumnOf(q), "other", <<q.val>>)>>, q)
<1>1. ASSUME q.arr, ~q.useOr PROVE Writes(<<Atom(q.field, "not in", q.val)>>, q)
  <2>1. ASSUME NEW r, Means(q, r) PROVE Holds(Atom(q.field, "not in", q.val), r)
    <3>1. q.field # "j.x"
      BY <1>1 DEF IsQual
    <3>2. \A i \in DOMAIN q.val : Compare("<>", r[q.field], q.val[i]) = TRUE
      BY <1>1, <2>1, <3>1 DEF Means, ColumnOf
    <3>3. \A i \in DOMAIN q.val : r[q.field] # q.val[i] /\ r[q.field] # Null
      BY <3>2, CompareEqual
    <3>4. q.val \in Seq(Values(q.field))
      BY <1>1 DEF IsQual
    <3>5. q.val = <<>> \/ 1 \in DOMAIN q.val
      BY <3>4
    <3>6. q.val = <<>> \/ (r[q.field] # Null /\ r[q.field] \notin Range(q.val))
      BY <3>3, <3>5 DEF Range
    <3> QED BY <3>6, HoldsOther
  <2> QED BY <2>1, WritesAtom
<1>2. ASSUME ~q.arr PROVE Writes(<<Atom(ColumnOf(q), "other", <<q.val>>)>>, q)
  <2>1. ASSUME NEW r, Means(q, r) PROVE Holds(Atom(ColumnOf(q), "other", <<q.val>>), r)
    <3>1. Compare("<>", r[ColumnOf(q)], q.val) = TRUE
      BY <1>2, <2>1 DEF Means, IsTest
    <3>2. r[ColumnOf(q)] # q.val
      BY <3>1, CompareEqual
    <3>3. Range(<<q.val>>) = {q.val}
      BY DEF Range
    <3> QED BY <3>2, <3>3, HoldsOther
  <2> QED BY <2>1, WritesAtom
<1> QED BY <1>1, <1>2

LEMMA EveryFinds ==
  ASSUME NEW qs, AreQuals(qs), NEW ss, ss = [i \in DOMAIN qs |-> ss[i]],
         \A i \in DOMAIN qs : ss[i] \in Seq(Range(ss[i])), NEW r
  PROVE  HoldsAll(FlattenSeq(ss), r) <=> \A i \in DOMAIN qs : HoldsAll(ss[i], r)
<1> DEFINE n == Len(qs)
<1>1. n \in Nat /\ DOMAIN qs = 1..n
  BY DEF AreQuals
<1> HIDE DEF n
<1>2. ss = [i \in 1..n |-> ss[i]] /\ \A i \in 1..n : ss[i] \in Seq(Range(ss[i]))
  BY <1>1
<1> QED BY <1>1, <1>2, FlattenHolds

LEMMA EverySeq ==
  ASSUME NEW qs, AreQuals(qs), NEW ss, ss = [i \in DOMAIN qs |-> ss[i]],
         \A i \in DOMAIN qs : ss[i] \in Seq(Range(ss[i]))
  PROVE  FlattenSeq(ss) \in Seq(Range(FlattenSeq(ss)))
<1> DEFINE n == Len(qs)
<1>1. n \in Nat /\ DOMAIN qs = 1..n
  BY DEF AreQuals
<1> HIDE DEF n
<1>2. ss = [i \in 1..n |-> ss[i]] /\ \A i \in 1..n : ss[i] \in Seq(Range(ss[i]))
  BY <1>1
<1>3. ss \in Seq(Seq(UNION {Range(ss[i]) : i \in 1..n}))
  BY <1>1, <1>2, SeqOfSeqs
<1>4. FlattenSeq(ss) \in Seq(UNION {Range(ss[i]) : i \in 1..n})
  BY <1>3, FlattenKeeps
<1> QED BY <1>4, OwnSeq

LEMMA EveryWrites ==
  ASSUME StatementAssumption, CellAssumption, NEW u \in Wrappers,
         NEW qs, AreQuals(qs), NEW ss, ss = [i \in DOMAIN qs |-> ss[i]],
         \A i \in DOMAIN qs : Writes(ss[i], qs[i]),
         NEW r \in Table[u], Met(qs, r)
  PROVE  HoldsAll(FlattenSeq(ss), r)
<1>1. IsRow(r)
  BY TableRows
<1>2. \A i \in DOMAIN qs : ss[i] \in Seq(Range(ss[i])) /\ HoldsAll(ss[i], r)
  BY <1>1 DEF Writes, Met
<1> QED BY <1>2, EveryFinds

OneGroup(asked, g) == asked.groups = <<g>>

LEMMA OneGroupFinds ==
  ASSUME NEW asked, NEW g, OneGroup(asked, g), NEW r
  PROVE  Finds(asked, r) <=> HoldsAll(g, r)
<1>1. DOMAIN asked.groups = {1} /\ asked.groups[1] = g
  BY DEF OneGroup
<1> QED BY <1>1 DEF Finds

\* Filters without a limit and without an echo.
LEMMA EveryKeeps ==
  ASSUME StatementAssumption, CellAssumption, NEW u \in Wrappers,
         NEW qs, AreQuals(qs), NEW ss, ss = [i \in DOMAIN qs |-> ss[i]],
         \A i \in DOMAIN qs : Writes(ss[i], qs[i]),
         NEW asked, OneGroup(asked, FlattenSeq(ss))
  PROVE  Complete(u, qs, asked)
BY EveryWrites, OneGroupFinds DEF Complete

-----------------------------------------------------------------------------
(* What each makes of a qual.                                              *)

LEMMA IcebergWrites ==
  ASSUME CellAssumption, NEW q, IsQual(q), Translates("iceberg", q)
  PROVE  Writes(IcebergQual(q), q)
<1>0. (q.op = "is not" => q.val = Word) /\ q.arr \in BOOLEAN
  BY DEF Translates, IsQual
<1>1. CASE q.field = "j.x"
  <2>1. ~q.arr /\ ~IsTest(q.op)
    BY <1>1, AppliesNotTest DEF IsQual
  <2>2. IcebergQual(q) = <<>>
    BY <1>1, <2>1, Zenon DEF IcebergQual, IsTest
  <2> QED BY <2>2, WritesNothing
<1>2. CASE q.arr
  <2>1. q.field # "j.x" /\ ~IsTest(q.op)
    BY <1>2, AppliesNotTest DEF IsQual
  <2>2. IcebergQual(q) = IF q.useOr /\ q.op = "=" THEN <<Atom(q.field, "in", q.val)>>
                         ELSE IF ~q.useOr /\ q.op = "<>" THEN <<Atom(q.field, "not in", q.val)>> ELSE <<>>
    BY <1>2, <2>1 DEF IcebergQual, IsTest
  <2> QED BY <1>2, <2>2, WritesIn, WritesOther, WritesNothing
<1>3. CASE q.field # "j.x" /\ ~q.arr /\ IsTest(q.op) /\ q.val # Word
  <2>1. q.op = "is" /\ ~Applies(q.op, ColumnOf(q)) /\ q.val # Null
    BY <1>0, <1>3, AppliesNotTest DEF IsTest, IsQual
  <2>2. IcebergQual(q) = <<Atom(q.field, "=", q.val)>>
    BY <1>3, <2>1 DEF IcebergQual, IsTest
  <2>3. ASSUME NEW r, Means(q, r) PROVE Holds(Atom(q.field, "=", q.val), r)
    <3>1. r[q.field] = q.val
      BY <1>3, <2>1, <2>3 DEF Means, ColumnOf
    <3>2. Compare("=", r[q.field], q.val) = TRUE
      BY <2>1, <3>1 DEF Compare
    <3>3. Applies("=", q.field)
      BY DEF Applies
    <3> QED BY <3>2, <3>3, HoldsCompare
  <2>4. Writes(<<Atom(q.field, "=", q.val)>>, q)
    BY <2>3, WritesAtom
  <2> QED BY <2>2, <2>4
<1>4. CASE q.field # "j.x" /\ ~q.arr /\ ~(IsTest(q.op) /\ q.val # Word)
  <2>1. IcebergQual(q) = IF q.op \in {"~", "!~"} THEN <<>> ELSE <<AtomOf(q)>>
    BY <1>4 DEF IcebergQual, IsTest
  <2> QED BY <1>4, <2>1, WritesNothing, WritesSame
<1> QED BY <1>1, <1>2, <1>3, <1>4

LEMMA OnIs ==
  ASSUME NEW q
  PROVE  On(IF q.field = "j.x" THEN "j" ELSE q.field, q) = Atom(ColumnOf(q), q.op, q.val)
BY DEF On, AtomOf, Atom, ColumnOf

LEMMA MongodbWrites ==
  ASSUME CellAssumption, NEW q, IsQual(q), Translates("mongodb", q)
  PROVE  Writes(MongodbQual(q), q)
<1>0. (q.arr /\ q.useOr => q.op # "<>") /\ q.arr \in BOOLEAN
  BY DEF Translates, IsQual
<1>1. CASE q.arr
  <2>1. q.field # "j.x"
    BY <1>1 DEF IsQual
  <2>2. MongodbQual(q) = IF q.useOr /\ q.op = "=" THEN <<Atom(q.field, "in", q.val)>> ELSE <<>>
    BY <1>0, <1>1, <2>1 DEF MongodbQual
  <2> QED BY <1>1, <2>2, WritesIn, WritesNothing
<1>2. CASE ~q.arr
  <2> DEFINE a == Atom(ColumnOf(q), q.op, q.val)
             b == Atom(ColumnOf(q), "other", <<q.val>>)
  <2>1. MongodbQual(q) \in {<<>>, <<a>>} \/ (q.op = "<>" /\ MongodbQual(q) = <<b>>)
    BY <1>2, OnIs, Zenon DEF MongodbQual, ColumnOf
  <2>2. Writes(<<a>>, q)
    BY <1>2, WritesSame
  <2>3. q.op = "<>" => Writes(<<b>>, q)
    BY <1>2, WritesOther
  <2> HIDE DEF a, b
  <2> QED BY <2>1, <2>2, <2>3, WritesNothing
<1> QED BY <1>0, <1>1, <1>2

LEMMA DynamodbWrites ==
  ASSUME CellAssumption, NEW q, IsQual(q), Translates("dynamodb", q), ~q.arr
  PROVE  Writes(DynamodbQual(q), q)
<1>1. CASE q.field = "j.x"
  BY <1>1, WritesNothing DEF DynamodbQual, Translates
<1>2. CASE q.field # "j.x"
  <2>1. DynamodbQual(q) = IF q.op = "<>" THEN <<Atom(q.field, "other", <<q.val>>)>> ELSE <<AtomOf(q)>>
    BY <1>2 DEF DynamodbQual
  <2>2. ColumnOf(q) = q.field
    BY <1>2 DEF ColumnOf
  <2> QED BY <1>2, <2>1, <2>2, WritesOther, WritesSame
<1> QED BY <1>1, <1>2

LEMMA EqualCellWrites ==
  ASSUME NEW q, IsQual(q), NEW fields, "j.x" \notin fields
  PROVE  Writes(EqualCell(fields, q), q)
BY WritesNothing, WritesSame DEF EqualCell

LEMMA EqualOrInWrites ==
  ASSUME CellAssumption, NEW q, IsQual(q), NEW fields, "j.x" \notin fields, q.arr => q.useOr
  PROVE  Writes(EqualOrIn(fields, q), q)
<1>1. q.arr \in BOOLEAN
  BY DEF IsQual
<1>2. CASE q.field \in fields /\ q.op = "="
  <2>1. ColumnOf(q) = q.field
    BY <1>2 DEF ColumnOf
  <2> QED BY <1>1, <1>2, <2>1, WritesIn DEF EqualOrIn
<1>3. CASE ~(q.field \in fields /\ q.op = "=")
  BY <1>3, WritesNothing DEF EqualOrIn
<1> QED BY <1>2, <1>3

-----------------------------------------------------------------------------
(* Times.                                                                  *)

LEMMA FloorIs ==
  ASSUME RequestAssumption, NEW x \in Int, NEW m, m = x \div Unit
  PROVE  /\ m \in Int /\ m * Unit \in Int /\ m * Unit <= x /\ x < m * Unit + Unit
         /\ x % Unit = 0 => m * Unit = x
<1>1. Unit \in Nat \ {0}
  BY DEF RequestAssumption
<1> QED BY <1>1

\* A whole time before x is not after the floor of x; one after x is past its unit.
LEMMA WholeTimes ==
  ASSUME RequestAssumption, NEW x \in Int, NEW y \in Int, y % Unit = 0
  PROVE  /\ y <= x => y <= (x \div Unit) * Unit
         /\ y > x => y >= (x \div Unit + 1) * Unit
<1> DEFINE m == x \div Unit
           k == y \div Unit
<1>1. Unit \in Nat /\ Unit # 0
  BY DEF RequestAssumption
<1>2. m \in Int /\ k \in Int /\ k * Unit = y /\ m * Unit <= x /\ x < m * Unit + Unit
  BY FloorIs
<1> HIDE DEF m, k
<1>3. \A a, b \in Int : a <= b => a * Unit <= b * Unit
  BY <1>1
<1>4. (m + 1) * Unit = m * Unit + Unit
  BY <1>1, <1>2
<1>5. ASSUME y <= x PROVE y <= m * Unit
  <2>1. CASE k <= m
    BY <1>2, <1>3, <2>1
  <2>2. CASE k > m
    <3>1. (m + 1) * Unit <= k * Unit
      BY <1>2, <1>3, <2>2
    <3> QED BY <1>1, <1>2, <1>4, <1>5, <3>1
  <2> QED BY <1>2, <2>1, <2>2
<1>6. ASSUME y > x PROVE y >= (m + 1) * Unit
  <2>1. CASE k <= m
    <3>1. k * Unit <= m * Unit
      BY <1>2, <1>3, <2>1
    <3> QED BY <1>1, <1>2, <1>6, <3>1
  <2>2. CASE k > m
    BY <1>2, <1>3, <2>2
  <2> QED BY <1>2, <2>1, <2>2
<1> QED BY <1>5, <1>6 DEF m

LEMMA TimeMeans ==
  ASSUME CellAssumption, NEW q, IsQual(q), Bounding(q), NEW r, IsRow(r), Means(q, r)
  PROVE  /\ q.val \in Int /\ r["t"] \in Int
         /\ q.op = ">"  => r["t"] > q.val
         /\ q.op = ">=" => r["t"] >= q.val
         /\ q.op = "<"  => r["t"] < q.val
         /\ q.op = "<=" => r["t"] <= q.val
         /\ q.op = "="  => r["t"] = q.val
<1>1. q.field = "t" /\ ~q.arr /\ ~IsTest(q.op) /\ ColumnOf(q) = "t"
  BY DEF Bounding, Comparisons, IsTest, ColumnOf
<1>2. q.val \in Int
  BY <1>1 DEF IsQual, Values
<1> DEFINE x == r["t"]
<1>3. Compare(q.op, x, q.val) = TRUE
  BY <1>1 DEF Means
<1>4. x = Null \/ x \in Int
  BY DEF IsRow, Columns, Values
<1> HIDE DEF x
<1>5. x # Null /\ q.val # Null
  <2>1. Null # TRUE
    BY DEF CellAssumption
  <2> QED BY <1>3, <2>1, Zenon DEF Compare
<1>6. /\ q.op = ">"  => x > q.val
      /\ q.op = ">=" => x >= q.val
      /\ q.op = "<"  => x < q.val
      /\ q.op = "<=" => x <= q.val
      /\ q.op = "="  => x = q.val
  BY <1>2, <1>3, <1>4, <1>5 DEF Compare
<1> QED BY <1>2, <1>4, <1>5, <1>6 DEF x

LEMMA HoldsTime ==
  ASSUME CellAssumption, NEW r, r["t"] \in Int, NEW v \in Int
  PROVE  /\ r["t"] >= v => Holds(Atom("t", ">=", v), r)
         /\ r["t"] > v  => Holds(Atom("t", ">", v), r)
         /\ r["t"] <= v => Holds(Atom("t", "<=", v), r)
         /\ r["t"] < v  => Holds(Atom("t", "<", v), r)
         /\ r["t"] = v  => Holds(Atom("t", "=", v), r)
<1> DEFINE x == r["t"]
<1>1. x # Null /\ v # Null /\ x \in Int
  BY DEF CellAssumption
<1>2. \A op : Applies(op, "t") => (Holds(Atom("t", op, v), r) <=> Compare(op, x, v) = TRUE)
  BY HoldsCompare
<1>3. \A op \in {">=", ">", "<=", "<", "="} : Applies(op, "t")
  BY DEF Applies
<1> HIDE DEF x
<1>4. /\ Compare(">=", x, v) = (x >= v) /\ Compare(">", x, v) = (x > v)
      /\ Compare("<=", x, v) = (x <= v) /\ Compare("<", x, v) = (x < v)
      /\ Compare("=", x, v) = (x = v)
  BY <1>1 DEF Compare
<1> QED BY <1>1, <1>2, <1>3, <1>4 DEF x

\* A date that is cut off does not come after it.
LEMMA OrbWrites ==
  ASSUME CellAssumption, RequestAssumption, NEW q, IsQual(q), Translates("orb", q)
  PROVE  Writes(OrbQual(q), q)
<1>0. /\ Bounding(q) /\ q.op \in {"<", "<=", "="} => q.val % Unit = 0
      /\ q.arr /\ ~q.useOr => q.val # <<>>
  BY DEF Translates
<1>1. CASE Bounding(q) /\ q.op # "<>"
  <2> DEFINE floor == (q.val \div Unit) * Unit
             a == Atom("t", q.op, floor)
  <2>1. OrbQual(q) = <<a>>
    BY <1>1 DEF OrbQual, Bounding
  <2>2. ASSUME NEW r, IsRow(r), Means(q, r) PROVE Holds(a, r)
    <3>1. /\ q.val \in Int /\ r["t"] \in Int
          /\ q.op = ">"  => r["t"] > q.val
          /\ q.op = ">=" => r["t"] >= q.val
          /\ q.op = "<"  => r["t"] < q.val
          /\ q.op = "<=" => r["t"] <= q.val
          /\ q.op = "="  => r["t"] = q.val
      BY <1>1, <2>2, TimeMeans
    <3>2. floor \in Int /\ floor <= q.val /\ (q.val % Unit = 0 => floor = q.val)
      BY <3>1, FloorIs
    <3> HIDE DEF floor
    <3>3. q.op \in {"=", "<", "<=", ">", ">="}
      BY <1>1 DEF Bounding, Comparisons
    <3>4. q.op \in {"<", "<=", "="} => floor = q.val
      BY <1>0, <1>1, <3>2
    <3> QED BY <3>1, <3>2, <3>3, <3>4, HoldsTime
  <2> HIDE DEF a
  <2> QED BY <2>1, <2>2, WritesAtom
<1>2. CASE ~(Bounding(q) /\ q.op # "<>")
  <2>1. OrbQual(q) = EqualOrIn({"s"}, q)
    BY <1>2 DEF OrbQual, Bounding
  <2>2. CASE q.arr => q.useOr
    BY <2>1, <2>2, EqualOrInWrites
  <2>3. CASE q.arr /\ ~q.useOr
    <3>1. CASE q.field = "s" /\ q.op = "="
      <4>1. OrbQual(q) = <<Atom("s", "in", q.val)>>
        BY <2>1, <2>3, <3>1 DEF EqualOrIn
      <4>2. ASSUME NEW r, Means(q, r) PROVE Holds(Atom("s", "in", q.val), r)
        <5>1. q.val \in Seq(Values("s")) /\ q.val # <<>>
          BY <1>0, <2>3, <3>1 DEF IsQual
        <5>2. 1 \in DOMAIN q.val
          BY <5>1
        <5>3. Compare("=", r["s"], q.val[1]) = TRUE
          BY <2>3, <3>1, <4>2, <5>2 DEF Means, ColumnOf
        <5>4. r["s"] \in Range(q.val)
          BY <5>2, <5>3, CompareEqual, ZenonT(40) DEF Range
        <5> QED BY <5>4, HoldsOther
      <4> QED BY <4>1, <4>2, WritesAtom
    <3>2. CASE ~(q.field = "s" /\ q.op = "=")
      BY <2>1, <3>2, WritesNothing DEF EqualOrIn
    <3> QED BY <3>1, <3>2
  <2> QED BY <2>2, <2>3
<1> QED BY <1>1, <1>2

LEMMA PaddleWrites ==
  ASSUME CellAssumption, RequestAssumption, NEW q, IsQual(q)
  PROVE  Writes(PaddleQual(q), q)
<1> DEFINE floor == (q.val \div Unit) * Unit
           a == Atom("t", ">=", floor)
           b == Atom("t", "<", floor + Unit)
<1>0. q.arr \in BOOLEAN
  BY DEF IsQual
<1>1. CASE Bounding(q) /\ q.op # "<>"
  <2>1. q.op \in {"=", "<", "<=", ">", ">="} /\ q.field = "t" /\ ~q.arr
    BY <1>1 DEF Bounding, Comparisons
  <2>2. ASSUME NEW r, IsRow(r), Means(q, r)
        PROVE  /\ q.op \in {">", ">=", "="} => Holds(a, r)
               /\ q.op \in {"<", "<=", "="} => Holds(b, r)
    <3>1. /\ q.val \in Int /\ r["t"] \in Int
          /\ q.op = ">"  => r["t"] > q.val
          /\ q.op = ">=" => r["t"] >= q.val
          /\ q.op = "<"  => r["t"] < q.val
          /\ q.op = "<=" => r["t"] <= q.val
          /\ q.op = "="  => r["t"] = q.val
      BY <1>1, <2>2, TimeMeans
    <3>2. floor \in Int /\ floor <= q.val /\ q.val < floor + Unit /\ Unit \in Nat
      BY <3>1, FloorIs, RequestAssumption
    <3> HIDE DEF floor
    <3>3. q.op \in {">", ">=", "="} => r["t"] >= floor
      BY <3>1, <3>2
    <3>4. floor + Unit \in Int /\ (q.op \in {"<", "<=", "="} => r["t"] < floor + Unit)
      BY <3>1, <3>2
    <3> QED BY <3>1, <3>2, <3>3, <3>4, HoldsTime
  <2>3. CASE q.op \in {">", ">="}
    <3>1. PaddleQual(q) = <<a>>
      BY <2>1, <2>3 DEF PaddleQual
    <3> HIDE DEF a
    <3> QED BY <2>2, <2>3, <3>1, WritesAtom
  <2>4. CASE q.op \in {"<", "<="}
    <3>1. PaddleQual(q) = <<b>>
      BY <2>1, <2>4 DEF PaddleQual
    <3> HIDE DEF b
    <3> QED BY <2>2, <2>4, <3>1, WritesAtom
  <2>5. CASE q.op = "="
    <3>1. PaddleQual(q) = <<a>> \o <<b>>
      BY <2>1, <2>5 DEF PaddleQual
    <3> HIDE DEF a, b
    <3> QED BY <2>2, <2>5, <3>1, WritesTwo
  <2> QED BY <2>1, <2>3, <2>4, <2>5
<1>2. CASE ~(Bounding(q) /\ q.op # "<>")
  <2>1. ~(q.field = "t" /\ ~q.arr /\ q.op \in {">", ">=", "<", "<=", "="})
    BY <1>2 DEF Bounding, Comparisons
  <2>2. PaddleQual(q) = IF q.arr /\ (~q.useOr \/ q.val = <<>>) THEN <<>> ELSE EqualOrIn({"k", "s"}, q)
    BY <2>1 DEF PaddleQual
  <2> QED BY <1>0, <2>2, WritesNothing, EqualOrInWrites
<1> QED BY <1>1, <1>2

-----------------------------------------------------------------------------
(* Texts.                                                                  *)

LEMMA WithinSelf ==
  ASSUME NEW S, NEW x \in Seq(S)
  PROVE  Within(x, x)
<1>1. Len(x) \in Nat /\ 0 \in 0..(Len(x) - Len(x)) /\ 0 + 1 = 1 /\ 0 + Len(x) = Len(x)
  OBVIOUS
<1>2. SubSeq(x, 1, Len(x)) = x
  OBVIOUS
<1>3. SubSeq(x, 0 + 1, 0 + Len(x)) = x
  BY <1>1, <1>2
<1> QED BY <1>1, <1>3 DEF Within

LEMMA PrefixWithin ==
  ASSUME NEW S, NEW x \in Seq(S), NEW y \in Seq(S), IsPrefix(x, y)
  PROVE  Within(x, y)
<1>1. Len(x) \in Nat /\ Len(y) \in Nat /\ Len(x) <= Len(y) /\ SubSeq(x, 1, Len(x)) = SubSeq(y, 1, Len(x))
  BY DEF IsPrefix
<1>2. SubSeq(x, 1, Len(x)) = x
  OBVIOUS
<1>3. 0 \in 0..(Len(y) - Len(x)) /\ 0 + 1 = 1 /\ 0 + Len(x) = Len(x)
  BY <1>1
<1>4. SubSeq(y, 0 + 1, 0 + Len(x)) = x
  BY <1>1, <1>2, <1>3
<1> QED BY <1>3, <1>4 DEF Within

\* A cell that a text is compared to is a text, and so is what is compared.
LEMMA TextMeans ==
  ASSUME CellAssumption, NEW q, IsQual(q), ~q.arr, q.op \in {"~~", "!~~", "~", "!~"},
         NEW r, IsRow(r), Means(q, r), NEW x, x = r[ColumnOf(q)]
  PROVE  /\ q.val \in Seq(Int) /\ x \in Seq(Int) /\ x # Null
         /\ q.op = "~~" => IsPrefix(q.val, x)
         /\ q.op = "!~" => ~Within(q.val, x)
<1>1. ~IsTest(q.op)
  BY DEF IsTest
<1>2. Applies(q.op, ColumnOf(q)) /\ q.val \in Values(ColumnOf(q))
  BY <1>1 DEF IsQual
<1>3. ColumnOf(q) \in {"s", "j"}
  BY <1>2 DEF Applies
<1>4. Values(ColumnOf(q)) = Seq(Int)
  BY <1>3 DEF Values
<1>5. Compare(q.op, x, q.val) = TRUE
  BY <1>1 DEF Means
<1>6. x = Null \/ x \in Seq(Int)
  BY <1>3, <1>4 DEF IsRow, Columns
<1>7. x # Null /\ q.val # Null
  <2>1. Null # TRUE
    BY DEF CellAssumption
  <2> QED BY <1>5, <2>1, Zenon DEF Compare
<1>8. q.op = "~~" => IsPrefix(q.val, x)
  BY <1>5, <1>7, Zenon DEF Compare
<1>9. q.op = "!~" => ~Within(q.val, x)
  BY <1>5, <1>7 DEF Compare
<1> QED BY <1>2, <1>4, <1>6, <1>7, <1>8, <1>9

LEMMA CqlWrites ==
  ASSUME CellAssumption, NEW q, IsQual(q), Translates("tencent_cls", q)
  PROVE  Writes(CqlQual(q), q)
<1> DEFINE f == ColumnOf(q)
           text == f \in {"s", "j"}
           same == Atom(f, q.op, q.val)
           within == Atom(f, "contains", q.val)
           other == Atom(f, "other", <<q.val>>)
<1>0. q.arr \in BOOLEAN /\ f = (IF q.field = "j.x" THEN "j" ELSE q.field)
  BY DEF IsQual, ColumnOf
<1>1. CASE f = "t" \/ q.arr
  <2>1. CqlQual(q) = <<>>
    BY <1>0, <1>1 DEF CqlQual, Comparisons
  <2> QED BY <2>1, WritesNothing
<1>2. CASE f # "t" /\ ~q.arr
  <2>0. On(f, q) = same
    BY <1>0, OnIs
  <2>1. text => q.op \notin {"<>", "!~~"}
    <3>1. q.field \in {"s", "j.x"} => q.op \notin {"<>", "!~~"}
      BY <1>2 DEF Translates
    <3>2. q.field # "j"
      BY DEF IsQual
    <3> QED BY <1>0, <3>1, <3>2
  <2>2. q.op = "!~~" => text
    BY <1>2 DEF IsQual, Applies, IsTest
  <2>3. \/ CqlQual(q) \in {<<>>, <<same>>}
        \/ (q.op = "~~" \/ (q.op = "=" /\ text)) /\ CqlQual(q) = <<within>>
        \/ q.op = "<>" /\ CqlQual(q) = <<other>>
    <3>1. CASE IsTest(q.op)
      <4>1. CqlQual(q) = IF q.val = Word THEN <<On(f, q)>> ELSE <<>>
        <5>1. CASE q.op = "is"
          BY <1>0, <1>2, <5>1 DEF CqlQual, Comparisons
        <5>2. CASE q.op = "is not"
          BY <1>0, <1>2, <5>2 DEF CqlQual, Comparisons
        <5> QED BY <3>1, <5>1, <5>2 DEF IsTest
      <4> QED BY <2>0, <4>1
    <3>2. CASE q.op = "~~" \/ (q.op = "=" /\ text)
      <4>1. CqlQual(q) = <<within>>
        <5>1. CASE q.op = "~~"
          BY <1>0, <1>2, <5>1 DEF CqlQual, Comparisons
        <5>2. CASE q.op = "=" /\ text
          BY <1>0, <1>2, <5>2 DEF CqlQual, Comparisons
        <5> QED BY <3>2, <5>1, <5>2
      <4> QED BY <3>2, <4>1
    <3>3. CASE q.op = "<>"
      <4>1. CqlQual(q) = <<other>>
        BY <1>0, <1>2, <2>1, <3>3 DEF CqlQual, Comparisons
      <4> QED BY <3>3, <4>1
    <3>4. CASE ~IsTest(q.op) /\ q.op \notin {"~~", "<>", "!~~"} /\ ~(q.op = "=" /\ text)
      <4>1. CqlQual(q) \in {<<>>, <<On(f, q)>>}
        BY <1>0, <1>2, <3>4 DEF CqlQual, IsTest, Comparisons
      <4> QED BY <2>0, <4>1
    <3> QED BY <2>1, <2>2, <3>1, <3>2, <3>3, <3>4
  <2>4. Writes(<<same>>, q)
    BY <1>2, WritesSame
  <2>5. q.op = "<>" => Writes(<<other>>, q)
    BY <1>2, WritesOther
  <2>6. ASSUME q.op = "~~" \/ (q.op = "=" /\ text) PROVE Writes(<<within>>, q)
    <3>1. ASSUME NEW r, IsRow(r), Means(q, r) PROVE Holds(within, r)
      <4>1. CASE q.op = "~~"
        <5>1. q.val \in Seq(Int) /\ r[f] \in Seq(Int) /\ r[f] # Null /\ IsPrefix(q.val, r[f])
          BY <1>2, <3>1, <4>1, TextMeans
        <5> QED BY <5>1, PrefixWithin, HoldsOther
      <4>2. CASE q.op = "=" /\ text
        <5>1. q.val \in Seq(Int)
          BY <1>2, <4>2 DEF IsQual, IsTest, Values
        <5>2. Compare("=", r[f], q.val) = TRUE
          BY <1>2, <3>1, <4>2 DEF Means, IsTest
        <5>3. r[f] = q.val /\ r[f] # Null
          BY <5>2, CompareEqual
        <5> QED BY <5>1, <5>3, WithinSelf, HoldsOther
      <4> QED BY <2>6, <4>1, <4>2
    <3> QED BY <3>1, WritesAtom
  <2> HIDE DEF same, within, other, text
  <2> QED BY <2>3, <2>4, <2>5, <2>6, WritesNothing
<1> QED BY <1>0, <1>1, <1>2

LEMMA LabelWrites ==
  ASSUME CellAssumption, NEW q, IsQual(q), Translates("prometheus", q)
  PROVE  Writes(LabelMatcher(q), q)
<1> DEFINE f == ColumnOf(q)
           same == Atom(f, q.op, q.val)
           other == Atom(f, "other", <<q.val>>)
<1>0. q.arr \in BOOLEAN /\ f = IF q.field = "j.x" THEN "j" ELSE q.field
  BY DEF IsQual, ColumnOf
<1>1. CASE q.field \notin {"s", "j.x"} \/ q.arr
  BY <1>1, WritesNothing DEF LabelMatcher
<1>2. CASE q.field \in {"s", "j.x"} /\ ~q.arr
  <2>1. q.op # "~"
    BY <1>2 DEF Translates
  <2>2. \/ LabelMatcher(q) \in {<<>>, <<same>>}
        \/ q.op \in {"<>", "!~"} /\ LabelMatcher(q) = <<other>>
    <3>1. CASE q.op = "="
      BY <1>0, <1>2, <3>1 DEF LabelMatcher
    <3>2. CASE q.op \in {"<>", "!~"}
      BY <1>0, <1>2, <3>2 DEF LabelMatcher
    <3>3. CASE q.op \notin {"=", "<>", "!~"}
      BY <1>2, <2>1, <3>3 DEF LabelMatcher
    <3> QED BY <3>1, <3>2, <3>3
  <2>3. Writes(<<same>>, q)
    BY <1>2, WritesSame
  <2>4. ASSUME q.op \in {"<>", "!~"} PROVE Writes(<<other>>, q)
    <3>1. CASE q.op = "<>"
      BY <1>2, <3>1, WritesOther
    <3>2. CASE q.op = "!~"
      <4>1. ASSUME NEW r, IsRow(r), Means(q, r) PROVE Holds(other, r)
        <5>1. q.val \in Seq(Int) /\ ~Within(q.val, r[f])
          BY <1>2, <3>2, <4>1, TextMeans
        <5>2. r[f] # q.val
          BY <5>1, WithinSelf
        <5>3. Range(<<q.val>>) = {q.val}
          BY DEF Range
        <5> QED BY <5>2, <5>3, HoldsOther
      <4> QED BY <4>1, WritesAtom
    <3> QED BY <2>4, <3>1, <3>2
  <2> HIDE DEF same, other
  <2> QED BY <2>2, <2>3, <2>4, WritesNothing
<1> QED BY <1>1, <1>2

-----------------------------------------------------------------------------
(* Requests by key, requests without a limit, and requests that stop.      *)

LEMMA LeastIn ==
  ASSUME NEW T, T \subseteq Nat, T # {}
  PROVE  Min(T) \in T
<1>1. \E x \in T : \A y \in T : x <= y
  BY LeastMember
<1> QED BY <1>1 DEF Min

LEMMA GreatestIn ==
  ASSUME NEW n \in Nat, NEW T, T \subseteq 1..n, T # {}
  PROVE  Max(T) \in T
<1> DEFINE D == {n - x : x \in T}
<1>1. D \subseteq Nat /\ D # {}
  <2>1. \A x \in 1..n : n - x \in Nat
    OBVIOUS
  <2> QED BY <2>1
<1>2. PICK d \in D : \A e \in D : d <= e
  BY <1>1, LeastMember
<1>3. PICK x \in T : d = n - x
  BY <1>2
<1>4. ASSUME NEW y \in T PROVE x >= y
  <2>1. n - x <= n - y
    BY <1>2, <1>3
  <2> QED BY <2>1
<1> QED BY <1>3, <1>4 DEF Max

LEMMA FilteredIs ==
  ASSUME NEW g, NEW asked, asked = Filtered(g)
  PROVE  asked.groups = g /\ asked.max = All /\ asked.echo = {} /\ asked.order = <<>>
BY DEF Filtered, Request

LEMMA PagedIs ==
  ASSUME NEW g, NEW l, NEW asked, asked = Paged(g, l)
  PROVE  asked.groups = g /\ asked.max = RealLimit(l) /\ asked.echo = {} /\ asked.order = <<>>
BY DEF Paged, Request

LEMMA FreeKeeps ==
  ASSUME NEW u, NEW s, NEW asked, asked.max = All, asked.echo = {},
         Complete(u, ExtractQuals(s.where), asked)
  PROVE  AskKeeps(u, s, asked)
BY DEF AskKeeps, Truthful

LEMMA StopKeeps ==
  ASSUME CellAssumption, RequestAssumption, NEW u, NEW s, Answerable(u, s), u \in Stopping,
         NEW asked, asked.max = All \/ asked.max = RealLimit(ExtractLimit(s)), asked.order = <<>>,
         Truthful(u, asked), Complete(u, ExtractQuals(s.where), asked)
  PROVE  AskKeeps(u, s, asked)
BY StopsRight DEF AskKeeps

LEMMA AllFound ==
  ASSUME NEW u, NEW qs, NEW asked, asked.groups = Everything
  PROVE  Complete(u, qs, asked)
<1>1. 1 \in DOMAIN asked.groups /\ asked.groups[1] = <<>>
  BY DEF Everything
<1>2. \A r : HoldsAll(<<>>, r)
  BY DEF HoldsAll
<1> QED BY <1>1, <1>2 DEF Complete, Finds

IsKey(q) == q.field = "k" /\ q.op = "=" /\ ~q.arr

KeyAtom(q) == Atom("k", "=", q.val)

LEMMA KeyHolds ==
  ASSUME CellAssumption, NEW qs, AreQuals(qs), NEW i \in DOMAIN qs, IsKey(qs[i]), NEW r, Met(qs, r)
  PROVE  Holds(KeyAtom(qs[i]), r) /\ r["k"] = qs[i].val
<1> DEFINE q == qs[i]
<1>1. IsQual(q) /\ Means(q, r)
  BY DEF AreQuals, Met
<1> HIDE DEF q
<1>2. IsKey(q)
  BY DEF q
<1>3. q.field = "k" /\ q.op = "=" /\ ~q.arr /\ KeyAtom(q) = AtomOf(q) /\ q.field # "j.x"
  BY <1>2 DEF AtomOf, KeyAtom, IsKey
<1>4. Holds(AtomOf(q), r)
  BY <1>1, <1>3, HoldsAtomOf
<1>5. Compare("=", r["k"], q.val) = TRUE
  BY <1>1, <1>3 DEF Means, IsTest, ColumnOf
<1>6. r["k"] = q.val
  BY <1>5, CompareEqual
<1> QED BY <1>3, <1>4, <1>6 DEF q

LEMMA KeyFound ==
  ASSUME CellAssumption, NEW u, NEW qs, AreQuals(qs), NEW i \in DOMAIN qs, IsKey(qs[i]),
         NEW asked, OneGroup(asked, <<KeyAtom(qs[i])>>)
  PROVE  Complete(u, qs, asked)
<1> DEFINE a == KeyAtom(qs[i])
<1>1. \A r : Met(qs, r) => Holds(a, r)
  BY KeyHolds
<1> HIDE DEF a
<1>2. OneGroup(asked, <<a>>)
  BY DEF a
<1>3. \A r : HoldsAll(<<a>>, r) <=> Holds(a, r)
  BY HoldsOne
<1> QED BY <1>1, <1>2, <1>3, OneGroupFinds DEF Complete

-----------------------------------------------------------------------------
(* The wrappers of APIs.                                                   *)

LEMMA EveryAsked ==
  ASSUME StatementAssumption, CellAssumption, NEW u \in Wrappers,
         NEW qs, AreQuals(qs), NEW ss, ss = [i \in DOMAIN qs |-> ss[i]],
         \A i \in DOMAIN qs : Writes(ss[i], qs[i]),
         NEW asked, asked.groups = <<FlattenSeq(ss)>>
  PROVE  Complete(u, qs, asked)
<1>1. OneGroup(asked, FlattenSeq(ss))
  BY DEF OneGroup
<1> QED BY <1>1, EveryKeeps

LEMMA IcebergKeeps ==
  ASSUME StatementAssumption, CellAssumption, NEW u \in Wrappers, u = "iceberg",
         NEW s, Answerable(u, s), NEW asked, asked = Iceberg(ExtractQuals(s.where))
  PROVE  AskKeeps(u, s, asked)
<1> DEFINE qs == ExtractQuals(s.where)
           ss == [i \in DOMAIN qs |-> IcebergQual(qs[i])]
<1>1. AreQuals(qs) /\ \A i \in DOMAIN qs : Translates("iceberg", qs[i])
  BY AskedQuals
<1>2. asked = Iceberg(qs)
  OBVIOUS
<1> HIDE DEF qs
<1>3. asked.groups = <<FlattenSeq(ss)>> /\ asked.max = All /\ asked.echo = {}
  BY <1>2, FilteredIs DEF Iceberg, Every
<1>4. \A i \in DOMAIN qs : Writes(ss[i], qs[i])
  BY <1>1, IcebergWrites DEF AreQuals
<1>5. ss = [i \in DOMAIN qs |-> ss[i]]
  OBVIOUS
<1> HIDE DEF ss
<1>6. Complete(u, qs, asked)
  BY <1>1, <1>3, <1>4, <1>5, EveryAsked
<1> QED BY <1>3, <1>6, FreeKeeps DEF qs

LEMMA SlackKeeps ==
  ASSUME StatementAssumption, CellAssumption, NEW u \in Wrappers,
         NEW s, Answerable(u, s), NEW asked, asked = Slack(ExtractQuals(s.where))
  PROVE  AskKeeps(u, s, asked)
<1> DEFINE qs == ExtractQuals(s.where)
           ss == [i \in DOMAIN qs |-> EqualCell({"s"}, qs[i])]
<1>1. AreQuals(qs)
  BY AskedQuals
<1>2. asked = Slack(qs)
  OBVIOUS
<1> HIDE DEF qs
<1>3. asked.groups = <<FlattenSeq(ss)>> /\ asked.max = All /\ asked.echo = {}
  BY <1>2, FilteredIs DEF Slack, Every
<1>4. \A i \in DOMAIN qs : Writes(ss[i], qs[i])
  BY <1>1, EqualCellWrites DEF AreQuals
<1>5. ss = [i \in DOMAIN qs |-> ss[i]]
  OBVIOUS
<1> HIDE DEF ss
<1>6. Complete(u, qs, asked)
  BY <1>1, <1>3, <1>4, <1>5, EveryAsked
<1> QED BY <1>3, <1>6, FreeKeeps DEF qs

LEMMA LangfuseKeeps ==
  ASSUME StatementAssumption, CellAssumption, RequestAssumption, NEW u \in Wrappers, u \in Stopping,
         NEW s, Answerable(u, s), NEW asked,
         asked = Langfuse(ExtractQuals(s.where), ExtractLimit(s))
  PROVE  AskKeeps(u, s, asked)
<1> DEFINE qs == ExtractQuals(s.where)
           l  == ExtractLimit(s)
           ss == [i \in DOMAIN qs |-> LangfuseQual(qs[i])]
<1>1. AreQuals(qs)
  BY AskedQuals
<1>2. asked = Langfuse(qs, l)
  OBVIOUS
<1> HIDE DEF qs, l
<1>3. /\ asked.groups = <<FlattenSeq(ss)>> /\ asked.max = RealLimit(l) /\ asked.echo = {}
      /\ asked.order = <<>>
  BY <1>2 DEF Langfuse, Every, Request
<1>4. ASSUME NEW q, IsQual(q) PROVE Writes(LangfuseQual(q), q)
  BY <1>4, WritesSame, EqualCellWrites DEF LangfuseQual
<1>5. \A i \in DOMAIN qs : Writes(ss[i], qs[i])
  BY <1>1, <1>4 DEF AreQuals
<1>6. ss = [i \in DOMAIN qs |-> ss[i]]
  OBVIOUS
<1> HIDE DEF ss
<1>7. Complete(u, qs, asked) /\ Truthful(u, asked)
  BY <1>1, <1>3, <1>5, <1>6, EveryAsked DEF Truthful
<1> QED BY <1>3, <1>7, StopKeeps DEF qs, l

\* The first qual on the id with a value to be equal to, when there is one.
LEMMA ByIdIs ==
  ASSUME NEW qs, AreQuals(qs), NEW list, NEW asked, asked = ById(qs, list)
  PROVE  \/ asked = list
         \/ \E i \in DOMAIN qs : IsKey(qs[i]) /\ asked = Filtered(<<<<KeyAtom(qs[i])>>>>)
<1> DEFINE ids == Cells(qs, {"k"}, {"="})
           i   == Min(ids)
<1>1. ids \subseteq DOMAIN qs /\ \A j \in ids : IsKey(qs[j])
  BY DEF Cells, IsKey
<1>2. ids \subseteq Nat
  <2>1. DOMAIN qs \subseteq Nat
    BY DEF AreQuals
  <2> QED BY <1>1, <2>1
<1>3. asked = IF ids = {} THEN list ELSE Filtered(<<<<KeyAtom(qs[i])>>>>)
  BY DEF ById, ByKey, KeyAtom
<1> HIDE DEF ids
<1>4. ids # {} => i \in ids
  BY <1>2, LeastIn
<1> HIDE DEF i
<1> QED BY <1>1, <1>3, <1>4

LEMMA KeyKeeps ==
  ASSUME CellAssumption, NEW u, NEW s, NEW qs, qs = ExtractQuals(s.where), AreQuals(qs),
         NEW i \in DOMAIN qs, IsKey(qs[i]), NEW asked, asked = Filtered(<<<<KeyAtom(qs[i])>>>>)
  PROVE  AskKeeps(u, s, asked)
<1> DEFINE g == <<KeyAtom(qs[i])>>
<1>1. asked = Filtered(<<g>>)
  OBVIOUS
<1> HIDE DEF g
<1>2. asked.groups = <<g>> /\ asked.max = All /\ asked.echo = {}
  BY <1>1, FilteredIs
<1>3. OneGroup(asked, <<KeyAtom(qs[i])>>)
  BY <1>2 DEF OneGroup, g
<1>4. Complete(u, qs, asked)
  BY <1>3, KeyFound
<1> QED BY <1>2, <1>4, FreeKeeps

LEMMA ByIdKeeps ==
  ASSUME CellAssumption, RequestAssumption, NEW u, NEW s, Answerable(u, s),
         NEW list, NEW asked, asked = ById(ExtractQuals(s.where), list), AskKeeps(u, s, list)
  PROVE  AskKeeps(u, s, asked)
<1> DEFINE qs == ExtractQuals(s.where)
<1>1. AreQuals(qs)
  BY AskedQuals
<1>2. asked = ById(qs, list)
  OBVIOUS
<1> HIDE DEF qs
<1>3. CASE asked = list
  BY <1>3
<1>4. CASE \E i \in DOMAIN qs : IsKey(qs[i]) /\ asked = Filtered(<<<<KeyAtom(qs[i])>>>>)
  BY <1>1, <1>4, KeyKeeps DEF qs
<1> QED BY <1>1, <1>2, <1>3, <1>4, ByIdIs

LEMMA AllKeeps ==
  ASSUME NEW u, NEW s, NEW asked, asked = Filtered(Everything)
  PROVE  AskKeeps(u, s, asked)
<1>1. asked.groups = Everything /\ asked.max = All /\ asked.echo = {}
  BY FilteredIs
<1> QED BY <1>1, AllFound, FreeKeeps

LEMMA HubspotKeeps ==
  ASSUME CellAssumption, RequestAssumption, NEW u, u \in Stopping, NEW s, Answerable(u, s),
         NEW asked, asked = Hubspot(ExtractQuals(s.where), ExtractLimit(s))
  PROVE  AskKeeps(u, s, asked)
<1> DEFINE l == ExtractLimit(s)
           list == Paged(Everything, l)
<1>1. /\ list.groups = Everything /\ list.max = RealLimit(l) /\ list.echo = {}
      /\ list.order = <<>>
  BY PagedIs
<1>2. asked = ById(ExtractQuals(s.where), list)
  BY DEF Hubspot
<1> HIDE DEF list
<1>3. Truthful(u, list) /\ Complete(u, ExtractQuals(s.where), list)
  BY <1>1, AllFound DEF Truthful
<1>4. AskKeeps(u, s, list)
  BY <1>1, <1>3, StopKeeps
<1> QED BY <1>2, <1>4, ByIdKeeps

LEMMA OrbKeeps ==
  ASSUME StatementAssumption, CellAssumption, RequestAssumption, NEW u \in Wrappers,
         u = "orb", u \in Stopping, NEW s, Answerable(u, s),
         NEW asked, asked = Orb(ExtractQuals(s.where), ExtractLimit(s))
  PROVE  AskKeeps(u, s, asked)
<1> DEFINE qs == ExtractQuals(s.where)
           l  == ExtractLimit(s)
           ss == [i \in DOMAIN qs |-> OrbQual(qs[i])]
           list == Paged(Every(qs, OrbQual), l)
<1>1. AreQuals(qs) /\ \A i \in DOMAIN qs : Translates("orb", qs[i])
  BY AskedQuals
<1>2. asked = ById(qs, list)
  BY DEF Orb
<1> HIDE DEF qs, l
<1>3. /\ list.groups = <<FlattenSeq(ss)>> /\ list.max = RealLimit(l) /\ list.echo = {}
      /\ list.order = <<>>
  BY PagedIs DEF Every
<1>4. \A i \in DOMAIN qs : Writes(ss[i], qs[i])
  BY <1>1, OrbWrites DEF AreQuals
<1>5. ss = [i \in DOMAIN qs |-> ss[i]]
  OBVIOUS
<1> HIDE DEF ss, list
<1>6. Complete(u, qs, list) /\ Truthful(u, list)
  BY <1>1, <1>3, <1>4, <1>5, EveryAsked DEF Truthful
<1>7. AskKeeps(u, s, list)
  BY <1>3, <1>6, StopKeeps DEF qs, l
<1> QED BY <1>2, <1>7, ByIdKeeps DEF qs

LEMMA PaddleKeeps ==
  ASSUME StatementAssumption, CellAssumption, RequestAssumption, NEW u \in Wrappers,
         NEW s, Answerable(u, s), NEW asked, asked = Paddle(ExtractQuals(s.where))
  PROVE  AskKeeps(u, s, asked)
<1> DEFINE qs == ExtractQuals(s.where)
           ss == [i \in DOMAIN qs |-> PaddleQual(qs[i])]
           list == Filtered(Every(qs, PaddleQual))
<1>1. AreQuals(qs)
  BY AskedQuals
<1>2. asked = ById(qs, list)
  BY DEF Paddle
<1> HIDE DEF qs
<1>3. list.groups = <<FlattenSeq(ss)>> /\ list.max = All /\ list.echo = {}
  BY FilteredIs DEF Every
<1>4. \A i \in DOMAIN qs : Writes(ss[i], qs[i])
  BY <1>1, PaddleWrites DEF AreQuals
<1>5. ss = [i \in DOMAIN qs |-> ss[i]]
  OBVIOUS
<1> HIDE DEF ss, list
<1>6. Complete(u, qs, list)
  BY <1>1, <1>3, <1>4, <1>5, EveryAsked
<1>7. AskKeeps(u, s, list)
  BY <1>3, <1>6, FreeKeeps DEF qs
<1> QED BY <1>2, <1>7, ByIdKeeps DEF qs

LEMMA StripeKeeps ==
  ASSUME StatementAssumption, CellAssumption, RequestAssumption, NEW u \in Wrappers,
         u \in Stopping, NEW s, Answerable(u, s),
         NEW asked, asked = Stripe(ExtractQuals(s.where), ExtractLimit(s))
  PROVE  AskKeeps(u, s, asked)
<1> DEFINE qs == ExtractQuals(s.where)
           l  == ExtractLimit(s)
           ss == [i \in DOMAIN qs |-> EqualCell({"s", "b"}, qs[i])]
<1>1. AreQuals(qs)
  BY AskedQuals
<1>2. asked = Stripe(qs, l)
  OBVIOUS
<1> HIDE DEF qs, l
<1>3. CASE Len(qs) = 1 /\ Cells(qs, {"k"}, {"="}) # {}
  <2>1. DOMAIN qs = {1}
    BY <1>1, <1>3 DEF AreQuals
  <2>2. IsKey(qs[1])
    BY <1>3, <2>1 DEF Cells, IsKey
  <2>3. Min({1}) = 1
    <3>1. Min({1}) \in {1}
      BY LeastIn
    <3> QED BY <3>1
  <2>4. asked = Filtered(<<<<KeyAtom(qs[1])>>>>)
    BY <1>2, <1>3, <2>3 DEF Stripe, ByKey, KeyAtom
  <2> QED BY <1>1, <2>1, <2>2, <2>4, KeyKeeps DEF qs
<1>4. CASE ~(Len(qs) = 1 /\ Cells(qs, {"k"}, {"="}) # {})
  <2>1. asked = Paged(<<FlattenSeq(ss)>>, l)
    BY <1>2, <1>4 DEF Stripe, Every
  <2>2. /\ asked.groups = <<FlattenSeq(ss)>> /\ asked.max = RealLimit(l) /\ asked.echo = {}
        /\ asked.order = <<>>
    BY <2>1, PagedIs
  <2>3. \A i \in DOMAIN qs : Writes(ss[i], qs[i])
    BY <1>1, EqualCellWrites DEF AreQuals
  <2>4. ss = [i \in DOMAIN qs |-> ss[i]]
    OBVIOUS
  <2> HIDE DEF ss
  <2>5. Complete(u, qs, asked) /\ Truthful(u, asked)
    BY <1>1, <2>2, <2>3, <2>4, EveryAsked DEF Truthful
  <2> QED BY <2>2, <2>5, StopKeeps DEF qs, l
<1> QED BY <1>3, <1>4

LEMMA NotionKeeps ==
  ASSUME CellAssumption, RequestAssumption, NEW u, u = "notion", NEW s, Answerable(u, s),
         NEW asked, asked = Notion(ExtractQuals(s.where))
  PROVE  AskKeeps(u, s, asked)
<1> DEFINE qs == ExtractQuals(s.where)
           ids == {i \in DOMAIN qs : qs[i].field = "k"}
           i  == Min(ids)
<1>1. AreQuals(qs) /\ \A j \in DOMAIN qs : qs[j].field = "k" /\ ~qs[j].arr => qs[j].op = "="
  BY AskedQuals, ZenonT(40) DEF Translates
<1>2. asked = Notion(qs)
  OBVIOUS
<1> HIDE DEF qs
<1>3. ids \subseteq Nat
  <2>1. DOMAIN qs \subseteq Nat
    BY <1>1 DEF AreQuals
  <2> QED BY <2>1
<1>4. asked = IF ids = {} \/ qs[i].arr THEN Filtered(Everything) ELSE Filtered(<<<<KeyAtom(qs[i])>>>>)
  BY <1>2 DEF Notion, ByKey, KeyAtom
<1>5. ids # {} => i \in ids
  <2> HIDE DEF ids
  <2> QED BY <1>3, LeastIn
<1>6. CASE ids = {} \/ qs[i].arr
  BY <1>4, <1>6, AllKeeps
<1>7. CASE ~(ids = {} \/ qs[i].arr)
  <2>1. i \in DOMAIN qs /\ IsKey(qs[i])
    BY <1>1, <1>5, <1>7 DEF IsKey
  <2> HIDE DEF i
  <2>2. asked = Filtered(<<<<KeyAtom(qs[i])>>>>)
    BY <1>4, <1>7
  <2> QED BY <1>1, <2>1, <2>2, KeyKeeps DEF qs
<1> QED BY <1>6, <1>7

LEMMA InfuraKeeps ==
  ASSUME CellAssumption, RequestAssumption, NEW u, u = "infura", NEW s, Answerable(u, s),
         NEW asked, asked = Infura(ExtractQuals(s.where))
  PROVE  AskKeeps(u, s, asked)
<1> DEFINE qs == ExtractQuals(s.where)
           n  == Len(qs)
           numbers == {i \in DOMAIN qs : qs[i].field = "k" /\ ~qs[i].arr /\ qs[i].val # Word}
           i  == Max(numbers)
<1>1. /\ AreQuals(qs)
      /\ \A j \in DOMAIN qs : qs[j].field = "k" /\ ~qs[j].arr => qs[j].op = "="
      /\ numbers # {}
  BY AskedQuals DEF Translates, Answerable, Bounded
<1>2. asked = Infura(qs)
  OBVIOUS
<1> HIDE DEF qs
<1>3. n \in Nat /\ DOMAIN qs = 1..n
  BY <1>1 DEF AreQuals
<1>4. numbers \subseteq 1..n
  BY <1>3
<1>5. asked = Filtered(<<<<KeyAtom(qs[i])>>>>)
  BY <1>1, <1>2 DEF Infura, KeyAtom
<1>6. i \in numbers
  <2> HIDE DEF numbers, n
  <2> QED BY <1>1, <1>3, <1>4, GreatestIn
<1>7. i \in DOMAIN qs /\ IsKey(qs[i])
  BY <1>1, <1>6 DEF IsKey
<1> HIDE DEF i
<1> QED BY <1>1, <1>5, <1>7, KeyKeeps DEF qs

-----------------------------------------------------------------------------
(* A query with a parameter: the clauses but those of the parameter.       *)

LEMMA JoinSeq ==
  ASSUME NEW S, NEW parts \in Seq(Seq(S)), \A i \in DOMAIN parts : parts[i] # <<>>
  PROVE  JoinAnd(parts) \in Seq(Seq(S))
<1>1. PICK f : JoinAnd(parts) = f[Len(parts)] /\ Joins(parts, f, Len(parts))
  BY JoinIs
<1>2. Len(parts) \in Nat /\ DOMAIN parts = 1..Len(parts)
  OBVIOUS
<1> DEFINE Has == {k \in Nat : k <= Len(parts) => f[k] \in Seq(Seq(S)) /\ f[k] # <<>>}
<1>3. 0 \in Has
  BY <1>1, EverythingIs DEF Joins
<1>4. ASSUME NEW k \in Nat, k \in Has PROVE k + 1 \in Has
  <2> SUFFICES ASSUME NEW m, m = k + 1, m <= Len(parts)
               PROVE  f[m] \in Seq(Seq(S)) /\ f[m] # <<>>
    OBVIOUS
  <2>1. m \in 1..Len(parts) /\ m - 1 = k /\ k <= Len(parts) /\ parts[m] \in Seq(S) /\ parts[m] # <<>>
    BY <1>2, SMTT(30)
  <2>2. f[k] \in Seq(Seq(S)) /\ f[k] # <<>>
    BY <1>4, <2>1
  <2>3. f[m] = And(f[k], parts[m])
    BY <1>1, <2>1 DEF Joins
  <2> HIDE DEF Has
  <2>4. IsAnd(S, f[k], Len(f[k]), parts[m], Len(parts[m]), And(f[k], parts[m]))
    BY <2>1, <2>2, AndIs
  <2>5. And(f[k], parts[m]) \in Seq(Seq(S)) /\ And(f[k], parts[m]) # <<>>
    BY ONLY <2>4 DEF IsAnd
  <2> QED BY <2>3, <2>5
<1>5. Nat \subseteq Has
  <2> HIDE DEF Has
  <2> QED BY <1>3, <1>4, Inductive
<1>6. f[Len(parts)] \in Seq(Seq(S))
  BY <1>2, <1>5
<1> QED BY <1>1, <1>6

LEMMA SqlGroups ==
  ASSUME NEW ms, IsDeparsed(ms), NEW order, NEW l, NEW guarded, NEW asked,
         asked = Sql(ms, order, l, guarded), asked # Refused
  PROVE  \E S : asked.groups \in Seq(Seq(S))
<1> DEFINE ps == SqlParts(ms)
<1>1. PICK S : /\ ps \in Seq(Seq(S)) /\ Len(ps) = Len(ms) /\ DOMAIN ps = DOMAIN ms
               /\ \A i \in DOMAIN ms : ps[i] = Deparse(ms[i]) /\ ps[i] \in Seq(S)
  BY SqlPartsAre
<1>2. asked.groups = Where(ps) /\ ~Malformed(ps, guarded)
  BY DEF Sql, Request
<1> HIDE DEF ps
<1>3. CASE ps = <<<<>>>>
  BY <1>2, <1>3, EverythingIs DEF Where
<1>4. CASE ps # <<<<>>>>
  <2>1. ASSUME NEW i \in DOMAIN ps, ps[i] = <<>> PROVE FALSE
    <3>1. Len(ps) = 1
      BY <1>2, <2>1 DEF Malformed
    <3>2. i = 1 /\ ps = <<ps[1]>>
      BY <1>1, <2>1, <3>1
    <3> QED BY <1>4, <2>1, <3>2
  <2>2. JoinAnd(ps) \in Seq(Seq(S))
    BY <1>1, <2>1, JoinSeq
  <2> QED BY <1>2, <1>4, <2>2 DEF Where
<1> QED BY <1>3, <1>4

\* Every group with one more condition.
LEMMA EachAppended ==
  ASSUME NEW rest, NEW S, rest.groups \in Seq(Seq(S)), NEW a, NEW asked,
         asked.groups = [i \in DOMAIN rest.groups |-> Append(rest.groups[i], a)], NEW r
  PROVE  Finds(asked, r) <=> Finds(rest, r) /\ Holds(a, r)
<1> DEFINE gs == rest.groups
           T == S \cup {a}
<1>1. \A i \in DOMAIN gs : gs[i] \in Seq(S)
  OBVIOUS
<1>2. \A g \in Seq(S) : g \in Seq(T)
  OBVIOUS
<1>3. a \in T
  OBVIOUS
<1> HIDE DEF T
<1>4. \A i \in DOMAIN gs : HoldsAll(Append(gs[i], a), r) <=> HoldsAll(gs[i], r) /\ Holds(a, r)
  BY <1>1, <1>2, <1>3, HoldsAppend
<1>5. DOMAIN asked.groups = DOMAIN gs /\ \A i \in DOMAIN gs : asked.groups[i] = Append(gs[i], a)
  OBVIOUS
<1> HIDE DEF gs
<1>6. Finds(asked, r) <=> \E i \in DOMAIN gs : HoldsAll(gs[i], r) /\ Holds(a, r)
  BY <1>4, <1>5 DEF Finds
<1>7. Finds(rest, r) <=> \E i \in DOMAIN gs : HoldsAll(gs[i], r)
  BY DEF Finds, gs
<1> QED BY <1>6, <1>7

\* The quals of the other columns.
Rest(qs) == Only(qs, {q \in Range(qs) : q.field # "k"})

LEMMA RestQuals ==
  ASSUME NEW qs, AreQuals(qs), NEW ms, ms = Rest(qs)
  PROVE  /\ AreQuals(ms) /\ Range(ms) = {q \in Range(qs) : q.field # "k"}
         /\ \A r : Met(qs, r) => Met(ms, r)
<1> DEFINE T == {q \in Range(qs) : q.field # "k"}
<1>1. ms \in Seq(Range(qs)) /\ Range(ms) = Range(qs) \cap T
  BY OnlyHas DEF AreQuals, Rest
<1>2. Range(ms) = T
  BY <1>1
<1>3. \A i \in DOMAIN ms : \E j \in DOMAIN qs : ms[i] = qs[j]
  BY <1>1 DEF Range
<1>4. ms \in Seq(Range(ms))
  BY <1>1, OwnSeq
<1>5. AreQuals(ms)
  BY <1>3, <1>4 DEF AreQuals
<1>6. \A r : Met(qs, r) => Met(ms, r)
  BY <1>3 DEF Met
<1> QED BY <1>2, <1>5, <1>6

\* What is asked is what the rest asks and the parameter besides.
IsParams(qs, i, order, l, rest, asked) ==
  /\ i \in DOMAIN qs /\ IsKey(qs[i])
  /\ rest = Sql(Rest(qs), order, l, TRUE) /\ rest # Refused
  /\ asked.groups = [j \in DOMAIN rest.groups |-> Append(rest.groups[j], KeyAtom(qs[i]))]
  /\ asked.echo = {[field |-> "k", val |-> qs[i].val]}
  /\ asked.order = order /\ asked.max = RealLimit(l) /\ ~Negative(RealLimit(l))

LEMMA ParamsAre ==
  ASSUME NEW qs, AreQuals(qs), \A i \in DOMAIN qs : Translates("clickhouse_params", qs[i]),
         NEW ss, NEW l, NEW asked, asked = ClickhouseParams(qs, ss, l), asked # Refused
  PROVE  \E i, rest : IsParams(qs, i, SortDeparse(ss), l, rest, asked)
<1> DEFINE params == {i \in DOMAIN qs : qs[i].field = "k"}
           i == Min(params)
           value == qs[i].val
           rest == Sql(Rest(qs), SortDeparse(ss), l, TRUE)
           more == [rest EXCEPT !.echo = {[field |-> "k", val |-> value]},
                                !.groups = [j \in DOMAIN @ |-> Append(@[j], Atom("k", "=", value))]]
<1>1. asked = IF params = {} \/ qs[i].arr THEN Refused ELSE IF rest = Refused THEN Refused ELSE more
  BY DEF ClickhouseParams, Rest
<1>2. params # {} /\ ~qs[i].arr /\ rest # Refused /\ asked = more
  BY <1>1
<1>3. params \subseteq Nat
  BY DEF AreQuals
<1>4. i \in params
  <2> HIDE DEF params
  <2> QED BY <1>2, <1>3, LeastIn
<1>5. i \in DOMAIN qs /\ IsKey(qs[i])
  BY <1>2, <1>4 DEF Translates, IsKey
<1> DEFINE groups == Where(SqlParts(Rest(qs)))
           max == RealLimit(l)
<1>6. rest = [groups |-> groups, order |-> SortDeparse(ss), max |-> max, more |-> FALSE, echo |-> {}]
      /\ ~Negative(max)
  BY <1>2 DEF Sql, Request
<1> HIDE DEF i, rest, groups, max
<1>7. /\ asked.groups = [j \in DOMAIN rest.groups |-> Append(rest.groups[j], Atom("k", "=", value))]
      /\ asked.echo = {[field |-> "k", val |-> value]} /\ asked.order = SortDeparse(ss)
      /\ asked.max = max
  BY <1>2, <1>6
<1>8. IsParams(qs, i, SortDeparse(ss), l, rest, asked)
  BY <1>2, <1>5, <1>6, <1>7 DEF IsParams, KeyAtom, rest, max
<1> QED BY <1>8

LEMMA KeySaid ==
  ASSUME CellAssumption, NEW f, NEW v, NEW r, Holds(Atom(f, "=", v), r)
  PROVE  r[f] = v
<1>1. Applies("=", f)
  BY DEF Applies
<1>2. Compare("=", r[f], v) = TRUE
  BY <1>1, HoldsCompare
<1> QED BY <1>2, CompareEqual

LEMMA ParamsFind ==
  ASSUME StatementAssumption, CellAssumption, NEW u \in Wrappers, NEW qs, AreQuals(qs),
         NEW i, NEW order, NEW l, NEW rest, NEW asked, IsParams(qs, i, order, l, rest, asked),
         NEW r \in Table[u]
  PROVE  /\ Met(qs, r) => Finds(asked, r)
         /\ Finds(asked, r) => Holds(KeyAtom(qs[i]), r)
         /\ Finds(asked, r) /\ (\A j \in DOMAIN qs : ~qs[j].arr) => Met(Rest(qs), r)
<1> DEFINE ms == Rest(qs)
<1>1. /\ AreQuals(ms) /\ Range(ms) = {q \in Range(qs) : q.field # "k"}
      /\ \A x : Met(qs, x) => Met(ms, x)
  BY RestQuals
<1>2. rest = Sql(ms, order, l, TRUE) /\ rest # Refused
  BY DEF IsParams
<1> HIDE DEF ms
<1>3. AreRewritten(ms, ms) /\ IsDeparsed(ms)
  BY <1>1, SelfRewritten, RewrittenDeparsed
<1>4. SqlAsks(ms, order, l, rest) /\ rest.groups = Where(SqlParts(ms))
  BY <1>2, SqlIs
<1>5. \A j \in DOMAIN ms : PartHolds(ms[j], r) <=> Means(ms[j], r)
  <2> SUFFICES ASSUME NEW j \in DOMAIN ms PROVE PartHolds(ms[j], r) <=> Means(ms[j], r)
    OBVIOUS
  <2> DEFINE m == ms[j]
  <2>1. IsQual(m) /\ m.field # "j.x" /\ (m.arr => m.useOr) /\ IsRow(r)
    BY <1>1, <1>4, TableRows DEF AreQuals, SqlAsks
  <2> HIDE DEF m
  <2>2. PartHolds(m, r) <=> Means(m, r)
    BY <2>1, PartMeans, RewrittenSelf
  <2> QED BY <2>2 DEF m
<1>6. PICK S : rest.groups \in Seq(Seq(S))
  BY <1>2, <1>3, SqlGroups
<1>7. Finds(asked, r) <=> Finds(rest, r) /\ Holds(KeyAtom(qs[i]), r)
  <2> DEFINE a == KeyAtom(qs[i])
  <2>1. asked.groups = [j \in DOMAIN rest.groups |-> Append(rest.groups[j], a)]
    BY DEF IsParams
  <2> HIDE DEF a
  <2>2. Finds(asked, r) <=> Finds(rest, r) /\ Holds(a, r)
    BY <1>6, <2>1, EachAppended
  <2> QED BY <2>2 DEF a
<1>8. ASSUME Met(qs, r) PROVE Finds(asked, r)
  <2>1. Finds(rest, r)
    BY <1>1, <1>3, <1>4, <1>5, <1>8, SqlFinds DEF Met
  <2>2. Holds(KeyAtom(qs[i]), r)
    BY <1>8, KeyHolds DEF IsParams
  <2> QED BY <1>7, <2>1, <2>2
<1>9. ASSUME Finds(asked, r), \A j \in DOMAIN qs : ~qs[j].arr PROVE Met(ms, r)
  <2>1. \A j \in DOMAIN ms : ~ms[j].arr
    <3>1. \A j \in DOMAIN ms : ms[j] \in Range(qs)
      BY <1>1 DEF Range
    <3> QED BY <1>9, <3>1 DEF Range
  <2>2. \A j \in DOMAIN ms : PartHolds(ms[j], r)
    BY <1>3, <1>4, <1>7, <1>9, <2>1, SqlExact
  <2> QED BY <1>5, <2>2 DEF Met
<1> QED BY <1>7, <1>8, <1>9 DEF ms

LEMMA ParamsKeep ==
  ASSUME StatementAssumption, CellAssumption, RequestAssumption, NEW u \in Wrappers,
         u = "clickhouse_params", u \in Sorting, NEW s, Answerable(u, s), NEW asked,
         asked = ClickhouseParams(ExtractQuals(s.where), ExtractSorts(s.sort), ExtractLimit(s)),
         asked # Refused
  PROVE  AskKeeps(u, s, asked)
<1> DEFINE qs == ExtractQuals(s.where)
           ss == ExtractSorts(s.sort)
           l  == ExtractLimit(s)
<1>1. AreQuals(qs) /\ \A i \in DOMAIN qs : Translates("clickhouse_params", qs[i])
  BY AskedQuals
<1>2. asked = ClickhouseParams(qs, ss, l)
  OBVIOUS
<1> HIDE DEF qs, ss, l
<1>3. PICK i, rest : IsParams(qs, i, SortDeparse(ss), l, rest, asked)
  BY <1>1, <1>2, ParamsAre
<1>4. i \in DOMAIN qs /\ IsKey(qs[i])
  BY <1>3 DEF IsParams
<1>5. \A r \in Table[u] :
        /\ Met(qs, r) => Finds(asked, r)
        /\ Finds(asked, r) => Holds(KeyAtom(qs[i]), r)
        /\ Finds(asked, r) /\ (\A j \in DOMAIN qs : ~qs[j].arr) => Met(Rest(qs), r)
  BY <1>1, <1>3, ParamsFind
<1>6. Complete(u, qs, asked)
  BY <1>5 DEF Complete
<1>7. \A r \in Table[u] : Finds(asked, r) => r["k"] = qs[i].val
  BY <1>5, KeySaid DEF KeyAtom
<1>8. Truthful(u, asked)
  BY <1>3, <1>7 DEF Truthful, IsParams
<1>9. ASSUME Exact(u, s.where) PROVE AsAsked(u, s, qs, asked)
  <2>1. /\ Len(qs) = Len(s.where) /\ \A j \in DOMAIN qs : ~qs[j].arr
        /\ \A j, k \in DOMAIN qs : qs[j].field = "k" /\ qs[k].field = "k" => j = k
    BY <1>9 DEF Exact, qs
  <2>2. ASSUME NEW r \in Table[u], Finds(asked, r), NEW j \in DOMAIN qs PROVE Means(qs[j], r)
    <3>1. CASE qs[j].field = "k"
      <4> DEFINE q == qs[i]
      <4>1. j = i /\ IsQual(q) /\ IsKey(q)
        BY <1>1, <1>4, <2>1, <3>1 DEF IsKey, AreQuals
      <4>2. Holds(KeyAtom(q), r)
        BY <1>5, <2>2
      <4> HIDE DEF q
      <4>3. ~q.arr /\ q.field # "j.x" /\ KeyAtom(q) = AtomOf(q)
        BY <4>1 DEF IsKey, KeyAtom, AtomOf
      <4>4. Means(q, r)
        BY <4>1, <4>2, <4>3, HoldsAtomOf
      <4> QED BY <4>1, <4>4 DEF q
    <3>2. CASE qs[j].field # "k"
      <4>1. Met(Rest(qs), r)
        BY <1>5, <2>1, <2>2
      <4>2. qs[j] \in Range(Rest(qs))
        BY <1>1, <3>2, RestQuals DEF Range
      <4> QED BY <4>1, <4>2 DEF Met, Range
    <3> QED BY <3>1, <3>2
  <2> QED BY <2>1, <2>2 DEF AsAsked, Met
<1>10. /\ asked.order = SortDeparse(ss) /\ asked.max = RealLimit(l) /\ ~Negative(RealLimit(l))
  BY <1>3 DEF IsParams
<1>11. /\ DOMAIN asked.order = DOMAIN ss
       /\ \A j \in DOMAIN ss : asked.order[j] =
            [col |-> ss[j].col, desc |-> ss[j].desc, nulls |-> NullsOf(u, ss[j])]
  <2> DEFINE order == asked.order
  <2>1. order = SortDeparse(ss) /\ u \notin {"mysql", "mssql", "mongodb", "duckdb"}
    BY <1>10
  <2> HIDE DEF order
  <2>2. /\ DOMAIN order = DOMAIN ss
        /\ \A j \in DOMAIN ss : order[j] =
             [col |-> ss[j].col, desc |-> ss[j].desc, nulls |-> NullsOf(u, ss[j])]
    BY ONLY <2>1, OrdersAre
  <2> QED BY <2>2 DEF order
<1>12. asked.max # All => Limits(u, s, asked)
  BY <1>9, <1>10, <1>11, SortsRight DEF qs, ss, l
<1> QED BY <1>6, <1>8, <1>12 DEF AskKeeps, qs

-----------------------------------------------------------------------------
(* What the rows are made to say, and what is asked by a list of keys.     *)

\* Each of the conditions made of the quals holds of what is found.
LEMMA EveryFound ==
  ASSUME NEW qs, AreQuals(qs), NEW ss, ss = [i \in DOMAIN qs |-> ss[i]],
         \A i \in DOMAIN qs : Writes(ss[i], qs[i]), NEW asked, asked.groups = <<FlattenSeq(ss)>>,
         NEW r, Finds(asked, r)
  PROVE  \A i \in DOMAIN qs : HoldsAll(ss[i], r)
<1> DEFINE g == FlattenSeq(ss)
<1>1. OneGroup(asked, g)
  BY DEF OneGroup
<1> HIDE DEF g
<1>2. HoldsAll(g, r)
  BY <1>1, OneGroupFinds
<1>3. \A i \in DOMAIN qs : ss[i] \in Seq(Range(ss[i]))
  BY DEF Writes
<1> QED BY <1>2, <1>3, EveryFinds DEF g

LEMMA DynamodbKeeps ==
  ASSUME StatementAssumption, CellAssumption, RequestAssumption, NEW u \in Wrappers,
         u = "dynamodb", u \in Stopping, NEW s, Answerable(u, s), NEW asked,
         asked = Dynamodb(ExtractQuals(s.where), ExtractLimit(s)), asked # Refused
  PROVE  AskKeeps(u, s, asked)
<1> DEFINE qs == ExtractQuals(s.where)
           l  == ExtractLimit(s)
           ss == [i \in DOMAIN qs |-> DynamodbQual(qs[i])]
<1>1. AreQuals(qs) /\ \A i \in DOMAIN qs : Translates("dynamodb", qs[i])
  BY AskedQuals
<1>2. asked = Dynamodb(qs, l)
  OBVIOUS
<1> HIDE DEF qs, l
<1>3. DynamodbAccepts(qs) /\ asked = Request(Every(qs, DynamodbQual), <<>>, RealLimit(l), FALSE, {})
  BY <1>2 DEF Dynamodb
<1>4. /\ asked.groups = <<FlattenSeq(ss)>> /\ asked.max = RealLimit(l) /\ asked.echo = {}
      /\ asked.order = <<>>
  BY <1>3 DEF Every, Request
<1>5. \A i \in DOMAIN qs : ~qs[i].arr
  BY <1>3 DEF DynamodbAccepts
<1>6. \A i \in DOMAIN qs : Writes(ss[i], qs[i])
  BY <1>1, <1>5, DynamodbWrites DEF AreQuals
<1>7. ss = [i \in DOMAIN qs |-> ss[i]]
  OBVIOUS
<1> HIDE DEF ss
<1>8. Complete(u, qs, asked) /\ Truthful(u, asked)
  BY <1>1, <1>4, <1>6, <1>7, EveryAsked DEF Truthful
<1> QED BY <1>4, <1>8, StopKeeps DEF qs, l

LEMMA S3vectorsKeeps ==
  ASSUME StatementAssumption, CellAssumption, RequestAssumption, NEW u \in Wrappers,
         u = "s3vectors", u \in Stopping, NEW s, Answerable(u, s), NEW asked,
         asked = S3vectors(ExtractQuals(s.where), ExtractLimit(s)), asked # Refused
  PROVE  AskKeeps(u, s, asked)
<1> DEFINE qs == ExtractQuals(s.where)
           l  == ExtractLimit(s)
           q  == qs[1]
           keys == IF q.arr THEN q.val ELSE <<q.val>>
           g == <<Atom("k", "in", keys)>>
<1>1. AreQuals(qs)
  BY AskedQuals
<1>2. asked = S3vectors(qs, l) /\ l = ExtractLimit(s)
  OBVIOUS
<1> HIDE DEF qs, l
<1>3. \/ qs = <<>> /\ asked = Request(Everything, <<>>, l.count, FALSE, {})
      \/ /\ Len(qs) = 1 /\ q.field = "k" /\ q.op = "=" /\ (q.arr => q.useOr)
         /\ asked = Request(<<g>>, <<>>, l.count, FALSE, {})
  <2>1. CASE qs = <<>>
    <3>1. Len(qs) # 1
      BY <2>1
    <3> QED BY <1>2, <2>1, <3>1 DEF S3vectors
  <2>2. CASE qs # <<>>
    BY <1>2, <2>2 DEF S3vectors
  <2> QED BY <2>1, <2>2
<1> HIDE DEF g
<1>4. /\ asked.order = <<>> /\ asked.max = l.count /\ asked.echo = {}
      /\ asked.groups = Everything \/ asked.groups = <<g>>
  BY <1>3 DEF Request
<1>5. Truthful(u, asked)
  BY <1>4 DEF Truthful
<1>6. Complete(u, qs, asked)
  <2>1. CASE asked.groups = Everything
    BY <2>1, AllFound
  <2>2. CASE asked.groups = <<g>> /\ asked.groups # Everything
    <3>1. Len(qs) = 1 /\ q.field = "k" /\ q.op = "=" /\ (q.arr => q.useOr)
      BY <1>3, <2>2 DEF Request
    <3>2. 1 \in DOMAIN qs /\ IsQual(q)
      BY <1>1, <3>1 DEF AreQuals
    <3> HIDE DEF q
    <3>3. Writes(g, q)
      <4>1. ColumnOf(q) = q.field /\ q.arr \in BOOLEAN
        BY <3>1, <3>2 DEF ColumnOf, IsQual
      <4> QED BY <3>1, <3>2, <4>1, WritesIn DEF g
    <3>4. \A r \in Table[u] : Met(qs, r) => HoldsAll(g, r)
      BY <3>2, <3>3, TableRows DEF Writes, Met, q
    <3>5. OneGroup(asked, g)
      BY <2>2 DEF OneGroup
    <3> QED BY <3>4, <3>5, OneGroupFinds DEF Complete
  <2> QED BY <1>4, <2>1, <2>2
<1>7. ASSUME asked.max # All PROVE Limits(u, s, asked)
  <2>1. l.count # All /\ l.count = s.count /\ Limitable(u, s) /\ l.count \in 0..MaxInt
    BY <1>2, <1>4, <1>7, LimitIs
  <2>2. s.where = <<>> /\ s.sort = <<>> /\ s.offset = 0
    BY <2>1 DEF Limitable
  <2>3. s.offset + s.count = s.count
    BY <2>1, <2>2, RequestAssumption
  <2> QED BY <1>2, <1>4, <2>1, <2>2, <2>3 DEF Limits, SameOrder
<1> QED BY <1>5, <1>6, <1>7 DEF AskKeeps, qs

LEMMA LogflareKeeps ==
  ASSUME StatementAssumption, CellAssumption, RequestAssumption, NEW u \in Wrappers,
         NEW s, Answerable(u, s), NEW asked, asked = Logflare(ExtractQuals(s.where)),
         asked # Refused
  PROVE  AskKeeps(u, s, asked)
<1> DEFINE qs == ExtractQuals(s.where)
           params == {i \in DOMAIN qs : qs[i].field = "k"}
           ss == [i \in DOMAIN qs |-> IF qs[i].field = "k" THEN <<AtomOf(qs[i])>> ELSE <<>>]
           plain == Filtered(<<FlattenSeq(ss)>>)
           echo == {[field |-> "k", val |-> qs[i].val] : i \in params}
<1>1. AreQuals(qs)
  BY AskedQuals
<1>2. asked = Logflare(qs)
  OBVIOUS
<1> HIDE DEF qs
<1>3. params = Cells(qs, {"k"}, {"="}) /\ asked = [plain EXCEPT !.echo = echo]
  BY <1>2 DEF Logflare, Every
<1>4. \A i \in params : IsKey(qs[i])
  BY <1>3 DEF Cells, IsKey
<1>5. asked.groups = <<FlattenSeq(ss)>> /\ asked.max = All /\ asked.echo = echo
  BY <1>3 DEF Filtered, Request
<1>6. ASSUME NEW i \in DOMAIN qs PROVE Writes(ss[i], qs[i])
  <2> DEFINE q == qs[i]
  <2>1. IsQual(q)
    BY <1>1 DEF AreQuals
  <2>2. q.field = "k" => IsKey(q)
    BY <1>4
  <2> HIDE DEF q
  <2>3. Writes(IF q.field = "k" THEN <<AtomOf(q)>> ELSE <<>>, q)
    BY <2>1, <2>2, WritesSame, WritesNothing DEF IsKey
  <2> QED BY <2>3 DEF q
<1>7. ss = [i \in DOMAIN qs |-> ss[i]] /\ \A i \in params : ss[i] = <<AtomOf(qs[i])>>
  OBVIOUS
<1> HIDE DEF ss, params
<1>8. Complete(u, qs, asked)
  BY <1>1, <1>5, <1>6, <1>7, EveryAsked
<1>9. ASSUME NEW r, Finds(asked, r), NEW i \in params PROVE r["k"] = qs[i].val
  <2>1. i \in DOMAIN qs
    BY DEF params
  <2>2. HoldsAll(ss[i], r)
    BY <1>1, <1>5, <1>6, <1>7, <1>9, <2>1, EveryFound
  <2>3. Holds(AtomOf(qs[i]), r)
    BY <1>7, <2>2, HoldsOne
  <2>4. AtomOf(qs[i]) = Atom("k", "=", qs[i].val)
    BY <1>4 DEF AtomOf, IsKey
  <2> QED BY <2>3, <2>4, KeySaid
<1>10. Truthful(u, asked)
  BY <1>5, <1>9 DEF Truthful
<1> QED BY <1>5, <1>8, <1>10 DEF AskKeeps, qs

LEMMA OpenapiKeeps ==
  ASSUME StatementAssumption, CellAssumption, RequestAssumption, NEW u \in Wrappers,
         u \in Stopping, NEW s, Answerable(u, s),
         NEW asked, asked = Openapi(ExtractQuals(s.where), ExtractLimit(s))
  PROVE  AskKeeps(u, s, asked)
<1> DEFINE qs == ExtractQuals(s.where)
           l  == ExtractLimit(s)
           ids == Cells(qs, {"k"}, {"="})
           params == Cells(qs, {"v", "b", "s"}, {"="})
           ss == [i \in DOMAIN qs |-> EqualCell({"v", "b", "s"}, qs[i])]
<1>1. AreQuals(qs)
  BY AskedQuals
<1>2. asked = Openapi(qs, l) /\ l = ExtractLimit(s)
  OBVIOUS
<1> HIDE DEF qs, l
<1>3. CASE ids # {}
  <2> DEFINE i == Min(ids)
             g == <<KeyAtom(qs[i])>>
             echo == {[field |-> "k", val |-> qs[i].val]}
  <2>1. ids \subseteq Nat
    <3>1. DOMAIN qs \subseteq Nat
      BY <1>1 DEF AreQuals
    <3> QED BY <3>1 DEF Cells
  <2>2. i \in ids
    <3> HIDE DEF ids
    <3> QED BY <1>3, <2>1, LeastIn
  <2>3. i \in DOMAIN qs /\ IsKey(qs[i])
    BY <2>2 DEF Cells, IsKey
  <2>4. asked = [Filtered(<<g>>) EXCEPT !.echo = {[field |-> qs[j].field, val |-> qs[j].val] : j \in {i}}]
    BY <1>2, <1>3 DEF Openapi, ByKey, KeyAtom
  <2> HIDE DEF i, g
  <2>5. {[field |-> qs[j].field, val |-> qs[j].val] : j \in {i}} = echo
    BY <2>3 DEF IsKey
  <2>6. asked.groups = <<g>> /\ asked.max = All /\ asked.echo = echo
    BY <2>4, <2>5 DEF Filtered, Request
  <2>7. OneGroup(asked, <<KeyAtom(qs[i])>>)
    BY <2>6 DEF OneGroup, g
  <2>8. Complete(u, qs, asked)
    BY <1>1, <2>3, <2>7, KeyFound
  <2>9. ASSUME NEW r, Finds(asked, r) PROVE r["k"] = qs[i].val
    <3> DEFINE a == KeyAtom(qs[i])
    <3>1. HoldsAll(<<a>>, r)
      BY <2>7, <2>9, OneGroupFinds
    <3>2. Holds(a, r)
      BY <3>1, HoldsOne
    <3> QED BY <3>2, KeySaid DEF KeyAtom
  <2>10. Truthful(u, asked)
    BY <2>6, <2>9 DEF Truthful
  <2> QED BY <2>6, <2>8, <2>10 DEF AskKeeps, qs
<1>4. CASE ids = {}
  <2> DEFINE plain == Paged(<<FlattenSeq(ss)>>, l)
             echo == {[field |-> qs[i].field, val |-> qs[i].val] : i \in params}
  <2>1. asked = [plain EXCEPT !.echo = echo]
    BY <1>2, <1>4 DEF Openapi, Every
  <2>2. /\ asked.groups = <<FlattenSeq(ss)>> /\ asked.max = RealLimit(l) /\ asked.echo = echo
        /\ asked.order = <<>>
    BY <2>1 DEF Paged, Request
  <2>3. \A i \in DOMAIN qs : Writes(ss[i], qs[i])
    BY <1>1, EqualCellWrites DEF AreQuals
  <2>4. ss = [i \in DOMAIN qs |-> ss[i]]
    OBVIOUS
  <2>5. ASSUME NEW i \in params
        PROVE  i \in DOMAIN qs /\ ss[i] = <<Atom(qs[i].field, "=", qs[i].val)>>
    BY DEF Cells, EqualCell, AtomOf
  <2> HIDE DEF ss, params
  <2>6. Complete(u, qs, asked)
    BY <1>1, <2>2, <2>3, <2>4, EveryAsked
  <2>7. ASSUME NEW r, Finds(asked, r), NEW i \in params PROVE r[qs[i].field] = qs[i].val
    <3>1. HoldsAll(ss[i], r)
      BY <1>1, <2>2, <2>3, <2>4, <2>5, <2>7, EveryFound
    <3>2. Holds(Atom(qs[i].field, "=", qs[i].val), r)
      BY <2>5, <3>1, HoldsOne
    <3> QED BY <3>2, KeySaid
  <2>8. Truthful(u, asked)
    <3>1. ASSUME NEW r, Finds(asked, r), NEW e \in asked.echo PROVE r[e.field] = e.val
      <4>1. PICK i \in params : e = [field |-> qs[i].field, val |-> qs[i].val]
        BY <2>2, <3>1
      <4> QED BY <2>7, <3>1, <4>1
    <3> QED BY <3>1 DEF Truthful
  <2> QED BY <1>2, <2>2, <2>6, <2>8, StopKeeps DEF qs
<1> QED BY <1>3, <1>4

-----------------------------------------------------------------------------
(* Filters that nothing else passes.                                       *)

Tells(g, q) == \A r : IsRow(r) /\ HoldsAll(g, r) => Means(q, r)

LEMMA TellsAtom ==
  ASSUME NEW q, NEW a, \A r : IsRow(r) /\ Holds(a, r) => Means(q, r)
  PROVE  Tells(<<a>>, q)
<1>1. \A r : HoldsAll(<<a>>, r) => Holds(a, r)
  BY HoldsOne
<1> DEFINE g == <<a>>
<1>2. \A r : HoldsAll(g, r) => Holds(a, r)
  BY <1>1
<1> HIDE DEF g
<1>3. Tells(g, q)
  BY <1>2 DEF Tells
<1> QED BY <1>3 DEF g

LEMMA EveryTells ==
  ASSUME StatementAssumption, CellAssumption, NEW u \in Wrappers,
         NEW qs, AreQuals(qs), NEW ss, ss = [i \in DOMAIN qs |-> ss[i]],
         \A i \in DOMAIN qs : Writes(ss[i], qs[i]) /\ Tells(ss[i], qs[i]),
         NEW r \in Table[u], HoldsAll(FlattenSeq(ss), r)
  PROVE  Met(qs, r)
<1>1. \A i \in DOMAIN qs : ss[i] \in Seq(Range(ss[i]))
  BY DEF Writes
<1>2. \A i \in DOMAIN qs : HoldsAll(ss[i], r)
  BY <1>1, EveryFinds
<1>3. IsRow(r)
  BY TableRows
<1> QED BY <1>2, <1>3 DEF Tells, Met

LEMMA TellsSame ==
  ASSUME NEW q, IsQual(q), ~q.arr
  PROVE  Tells(<<Atom(ColumnOf(q), q.op, q.val)>>, q)
<1> DEFINE a == Atom(ColumnOf(q), q.op, q.val)
<1>1. \A r : Holds(a, r) => Means(q, r)
  BY HoldsMeans
<1> HIDE DEF a
<1>2. Tells(<<a>>, q)
  BY <1>1, TellsAtom
<1> QED BY <1>2 DEF a

LEMMA TellsIn ==
  ASSUME NEW q, IsQual(q), q.arr, q.useOr, q.op = "="
  PROVE  Tells(<<Atom(q.field, "in", q.val)>>, q)
<1> DEFINE a == Atom(q.field, "in", q.val)
<1>1. ASSUME NEW r, Holds(a, r) PROVE Means(q, r)
  <2>1. r[q.field] \in Range(q.val)
    BY <1>1, HoldsOther
  <2>2. PICK i \in DOMAIN q.val : r[q.field] = q.val[i]
    BY <2>1 DEF Range
  <2>3. r[q.field] # Null /\ q.val[i] # Null
    BY <2>1, <2>2 DEF IsQual
  <2>4. Compare("=", r[q.field], q.val[i]) = TRUE
    BY <2>2, <2>3 DEF Compare
  <2>5. ColumnOf(q) = q.field
    BY DEF IsQual, ColumnOf
  <2> QED BY <2>4, <2>5 DEF Means
<1> HIDE DEF a
<1>2. Tells(<<a>>, q)
  BY <1>1, TellsAtom
<1> QED BY <1>2 DEF a

LEMMA MongodbTells ==
  ASSUME NEW q, IsQual(q),
         IF ~q.arr THEN q.op \in Comparisons \ {"<>"} \/ NullTest(q) ELSE q.useOr /\ q.op = "="
  PROVE  Tells(MongodbQual(q), q)
<1>1. CASE ~q.arr
  <2>1. MongodbQual(q) = <<Atom(ColumnOf(q), q.op, q.val)>>
    <3>1. CASE q.op \in Comparisons \ {"<>"}
      <4>1. q.op \notin {"is", "is not", "<>"}
        BY <3>1 DEF Comparisons
      <4> QED BY <1>1, <3>1, <4>1, OnIs DEF MongodbQual
    <3>2. CASE NullTest(q)
      <4>1. q.op \in {"is", "is not"} /\ q.op # "<>" /\ q.op \notin Comparisons
        BY <3>2 DEF Comparisons, NullTest
      <4> QED BY <1>1, <3>2, <4>1, OnIs DEF MongodbQual, NullTest
    <3> QED BY <1>1, <3>1, <3>2
  <2> QED BY <1>1, <2>1, TellsSame
<1>2. CASE q.arr
  <2>1. q.field # "j.x" /\ q.useOr /\ q.op = "="
    BY <1>2 DEF IsQual
  <2>2. MongodbQual(q) = <<Atom(q.field, "in", q.val)>>
    BY <1>2, <2>1 DEF MongodbQual
  <2> QED BY <1>2, <2>1, <2>2, TellsIn
<1>3. q.arr \in BOOLEAN
  BY DEF IsQual
<1> QED BY <1>1, <1>2, <1>3

LEMMA MongodbKeeps ==
  ASSUME StatementAssumption, CellAssumption, RequestAssumption, NEW u \in Wrappers,
         u = "mongodb", u \in Sorting, NEW s, Answerable(u, s), NEW asked,
         asked = Mongodb(ExtractQuals(s.where), ExtractSorts(s.sort), ExtractLimit(s))
  PROVE  AskKeeps(u, s, asked)
<1> DEFINE qs == ExtractQuals(s.where)
           ss == ExtractSorts(s.sort)
           l  == ExtractLimit(s)
           gs == [i \in DOMAIN qs |-> MongodbQual(qs[i])]
<1>1. AreQuals(qs) /\ \A i \in DOMAIN qs : Translates("mongodb", qs[i])
  BY AskedQuals
<1>2. asked = Mongodb(qs, ss, l)
  OBVIOUS
<1> HIDE DEF qs, ss, l
<1>3. /\ asked.groups = <<FlattenSeq(gs)>> /\ asked.max = RealLimit(l) /\ asked.echo = {}
      /\ asked.order = SortWithout(ss, "low")
  BY <1>2 DEF Mongodb, Every, Request
<1>4. \A i \in DOMAIN qs : Writes(gs[i], qs[i])
  BY <1>1, MongodbWrites DEF AreQuals
<1>5. gs = [i \in DOMAIN qs |-> gs[i]] /\ \A i \in DOMAIN qs : gs[i] = MongodbQual(qs[i])
  OBVIOUS
<1> HIDE DEF gs
<1>6. Complete(u, qs, asked) /\ Truthful(u, asked)
  BY <1>1, <1>3, <1>4, <1>5, EveryAsked DEF Truthful
<1>7. ASSUME Exact(u, s.where) PROVE AsAsked(u, s, qs, asked)
  <2>1. /\ Len(qs) = Len(s.where)
        /\ \A i \in DOMAIN qs :
             IF ~qs[i].arr THEN qs[i].op \in Comparisons \ {"<>"} \/ NullTest(qs[i])
             ELSE qs[i].useOr /\ qs[i].op = "="
    BY <1>7 DEF Exact, qs
  <2>2. \A i \in DOMAIN qs : Tells(gs[i], qs[i])
    BY <1>1, <1>5, <2>1, MongodbTells DEF AreQuals
  <2> DEFINE g == FlattenSeq(gs)
  <2>3. OneGroup(asked, g)
    BY <1>3 DEF OneGroup
  <2> HIDE DEF g
  <2>4. \A r : Finds(asked, r) => HoldsAll(g, r)
    BY <2>3, OneGroupFinds
  <2>5. \A r \in Table[u] : Finds(asked, r) => Met(qs, r)
    BY <1>1, <1>4, <1>5, <2>2, <2>4, EveryTells DEF g
  <2>6. \A i \in DOMAIN qs : qs[i].arr => qs[i].useOr
    BY <2>1
  <2> QED BY <2>1, <2>5, <2>6 DEF AsAsked
<1>8. /\ DOMAIN asked.order = DOMAIN ss
      /\ \A j \in DOMAIN ss : asked.order[j] =
           [col |-> ss[j].col, desc |-> ss[j].desc, nulls |-> NullsOf(u, ss[j])]
  <2> DEFINE order == asked.order
  <2>1. order = SortWithout(ss, "low") /\ u \in {"mysql", "mssql", "mongodb"}
    BY <1>3
  <2> HIDE DEF order
  <2>2. /\ DOMAIN order = DOMAIN ss
        /\ \A j \in DOMAIN ss : order[j] =
             [col |-> ss[j].col, desc |-> ss[j].desc, nulls |-> NullsOf(u, ss[j])]
    BY ONLY <2>1, OrdersAre
  <2> QED BY <2>2 DEF order
<1>9. asked.max # All => Limits(u, s, asked)
  BY <1>3, <1>7, <1>8, SortsRight DEF qs, ss, l
<1> QED BY <1>6, <1>9 DEF AskKeeps, qs

-----------------------------------------------------------------------------
(* Ranges of times.                                                        *)

\* What a bound makes of the range so far, for logs and for metrics.
Step(kind, range, q) == IF kind = "logs" THEN ExtractTsRange(range, q) ELSE PrometheusTime(range, q)

\* f[i] is the range after the first i quals.
Ranges(kind, qs, f, n) ==
  /\ f[0] = Range0
  /\ \A i \in 1..n : f[i] = IF Bounding(qs[i]) THEN Step(kind, f[i - 1], qs[i]) ELSE f[i - 1]

LEMMA RangesExist ==
  ASSUME NEW kind, NEW qs, NEW n \in Nat
  PROVE  \E f : f = [i \in 0..n |-> f[i]] /\ Ranges(kind, qs, f, n)
<1> DEFINE Has == {k \in Nat : \E f : f = [i \in 0..k |-> f[i]] /\ Ranges(kind, qs, f, k)}
<1>1. 0 \in Has
  <2> DEFINE e == [i \in 0..0 |-> Range0]
  <2>1. e[0] = Range0 /\ e = [i \in 0..0 |-> e[i]]
    OBVIOUS
  <2>2. Ranges(kind, qs, e, 0)
    BY <2>1 DEF Ranges
  <2> HIDE DEF e
  <2> QED BY <2>1, <2>2
<1>2. ASSUME NEW k \in Nat, k \in Has PROVE k + 1 \in Has
  <2> SUFFICES ASSUME NEW m, m = k + 1
               PROVE  \E f : f = [i \in 0..m |-> f[i]] /\ Ranges(kind, qs, f, m)
    OBVIOUS
  <2>2. PICK f : f = [i \in 0..k |-> f[i]] /\ Ranges(kind, qs, f, k)
    BY <1>2
  <2> DEFINE last == IF Bounding(qs[m]) THEN Step(kind, f[k], qs[m]) ELSE f[k]
             g == [i \in 0..m |-> IF i = m THEN last ELSE f[i]]
  <2> HIDE DEF last
  <2>3. /\ g = [i \in 0..m |-> g[i]] /\ g[m] = last /\ \A i \in 0..m : i # m => g[i] = f[i]
    OBVIOUS
  <2> HIDE DEF g
  <2>4. g[0] = Range0
    BY <2>2, <2>3 DEF Ranges
  <2>5. ASSUME NEW i \in 1..m
        PROVE  g[i] = IF Bounding(qs[i]) THEN Step(kind, g[i - 1], qs[i]) ELSE g[i - 1]
    <3>1. CASE i = m
      <4>1. g[i - 1] = f[k]
        BY <2>3, <3>1
      <4> QED BY <2>3, <3>1, <4>1 DEF last
    <3>2. CASE i # m
      <4>1. g[i] = f[i] /\ g[i - 1] = f[i - 1] /\ i \in 1..k
        BY <2>3, <3>2
      <4> QED BY <2>2, <4>1 DEF Ranges
    <3> QED BY <3>1, <3>2
  <2>6. Ranges(kind, qs, g, m)
    BY <2>4, <2>5 DEF Ranges
  <2> QED BY <2>3, <2>6
<1>3. Nat \subseteq Has
  <2> HIDE DEF Has
  <2> QED BY <1>1, <1>2, Inductive
<1> QED BY <1>3

\* The recursive definition of Bounds is the last of such ranges.
LEMMA RangeChosen ==
  ASSUME NEW kind, NEW qs, NEW n \in Nat, NEW range,
         LET E(f) == f = [i \in 0..n |-> IF i = 0 THEN Range0
                                         ELSE IF Bounding(qs[i]) THEN Step(kind, f[i - 1], qs[i])
                                              ELSE f[i - 1]]
         IN  range = (CHOOSE f : E(f))[n]
  PROVE  \E f : range = f[n] /\ Ranges(kind, qs, f, n)
<1> DEFINE E(f) == f = [i \in 0..n |-> IF i = 0 THEN Range0
                                       ELSE IF Bounding(qs[i]) THEN Step(kind, f[i - 1], qs[i])
                                            ELSE f[i - 1]]
           ch == CHOOSE f : E(f)
<1>1. range = ch[n]
  OBVIOUS
<1>2. \E f : E(f)
  <2>1. PICK f : f = [i \in 0..n |-> f[i]] /\ Ranges(kind, qs, f, n)
    <3> HIDE DEF E
    <3> QED BY RangesExist
  <2>2. ASSUME NEW i \in 0..n
        PROVE  f[i] = IF i = 0 THEN Range0
                      ELSE IF Bounding(qs[i]) THEN Step(kind, f[i - 1], qs[i]) ELSE f[i - 1]
    <3>1. i # 0 => i \in 1..n
      OBVIOUS
    <3> QED BY <2>1, <3>1, Zenon DEF Ranges
  <2>3. E(f)
    BY <2>1, <2>2, Zenon
  <2> QED BY <2>3, Zenon
<1>3. E(ch)
  BY <1>2, Zenon
<1> HIDE DEF ch
<1>4. Ranges(kind, qs, ch, n)
  <2>1. \A i \in 0..n : ch[i] = IF i = 0 THEN Range0
                                ELSE IF Bounding(qs[i]) THEN Step(kind, ch[i - 1], qs[i]) ELSE ch[i - 1]
    BY <1>3, Zenon
  <2>2. 0 \in 0..n /\ \A i \in 1..n : i \in 0..n /\ i # 0
    OBVIOUS
  <2> QED BY <2>1, <2>2, Zenon DEF Ranges
<1> QED BY <1>1, <1>4

LEMMA LogsRange ==
  ASSUME NEW qs, NEW n \in Nat, n = Len(qs), NEW range, range = Bounds(qs, ExtractTsRange)
  PROVE  \E f : range = f[n] /\ Ranges("logs", qs, f, n)
<1>1. range = (CHOOSE f : f = [i \in 0..n |-> IF i = 0 THEN Range0
                                 ELSE IF Bounding(qs[i]) THEN ExtractTsRange(f[i - 1], qs[i])
                                      ELSE f[i - 1]])[n]
  BY DEF Bounds
<1>2. range = (CHOOSE f : f = [i \in 0..n |-> IF i = 0 THEN Range0
                                 ELSE IF Bounding(qs[i]) THEN Step("logs", f[i - 1], qs[i])
                                      ELSE f[i - 1]])[n]
  BY <1>1 DEF Step
<1> QED BY <1>2, RangeChosen

LEMMA MetricsRange ==
  ASSUME NEW qs, NEW n \in Nat, n = Len(qs), NEW range, range = Bounds(qs, PrometheusTime)
  PROVE  \E f : range = f[n] /\ Ranges("metrics", qs, f, n)
<1>1. range = (CHOOSE f : f = [i \in 0..n |-> IF i = 0 THEN Range0
                                 ELSE IF Bounding(qs[i]) THEN PrometheusTime(f[i - 1], qs[i])
                                      ELSE f[i - 1]])[n]
  BY DEF Bounds
<1>2. range = (CHOOSE f : f = [i \in 0..n |-> IF i = 0 THEN Range0
                                 ELSE IF Bounding(qs[i]) THEN Step("metrics", f[i - 1], qs[i])
                                      ELSE f[i - 1]])[n]
  BY <1>1 DEF Step
<1> QED BY <1>2, RangeChosen

From(x, t) == x = All \/ (x \in Int /\ x * Unit <= t)
To(kind, x, t) == x = All \/ (x \in Int /\ IF kind = "logs" THEN t < x * Unit ELSE t <= x * Unit)

\* The time is within the range.
Covers(kind, range, t) ==
  /\ range = [from |-> range.from, to |-> range.to]
  /\ From(range.from, t) /\ To(kind, range.to, t)

LEMMA LogsStep ==
  ASSUME CellAssumption, RequestAssumption, NEW q, IsQual(q), Bounding(q), Translates("tencent_cls", q),
         NEW r, IsRow(r), Means(q, r), r["t"] % Unit = 0, NEW range, Covers("logs", range, r["t"])
  PROVE  Covers("logs", ExtractTsRange(range, q), r["t"])
<1> DEFINE t == r["t"]
           ms == q.val \div Unit
           a == range.from
           b == range.to
<1>1. /\ q.val \in Int /\ t \in Int
      /\ q.op = ">"  => t > q.val
      /\ q.op = ">=" => t >= q.val
      /\ q.op = "<"  => t < q.val
      /\ q.op = "<=" => t <= q.val
      /\ q.op = "="  => t = q.val
  BY TimeMeans
<1>2. /\ ms \in Int /\ ms * Unit \in Int /\ ms * Unit <= q.val /\ q.val < ms * Unit + Unit
      /\ q.val % Unit = 0 => ms * Unit = q.val
  BY <1>1, FloorIs
<1>3. t > q.val => t >= (ms + 1) * Unit
  BY <1>1, WholeTimes
<1>4. q.op = "<" => q.val % Unit = 0
  BY DEF Translates
<1>5. range = [from |-> a, to |-> b] /\ From(a, t) /\ To("logs", b, t)
  BY DEF Covers
<1>6. Unit \in Nat /\ (ms + 1) * Unit = ms * Unit + Unit /\ ms + 1 \in Int
  BY <1>2, RequestAssumption
<1>7. q.op \in {"=", "<>", "<", "<=", ">", ">="}
  BY DEF Bounding, Comparisons
<1>8. ExtractTsRange(range, q) =
        CASE q.op = ">=" -> [from |-> ms, to |-> b]
          [] q.op = ">"  -> [from |-> ms + 1, to |-> b]
          [] q.op = "<=" -> [from |-> a, to |-> ms + 1]
          [] q.op = "<"  -> [from |-> a, to |-> ms]
          [] q.op = "="  -> [from |-> ms, to |-> ms + 1]
          [] OTHER -> [from |-> a, to |-> b]
  BY <1>5, <1>7 DEF ExtractTsRange
<1> HIDE DEF ms, a, b, t
<1>9. /\ q.op \in {">=", "="} => From(ms, t)
      /\ q.op = ">" => From(ms + 1, t)
      /\ q.op \in {"<=", "="} => To("logs", ms + 1, t)
      /\ q.op = "<" => To("logs", ms, t)
  BY <1>1, <1>2, <1>3, <1>4, <1>6 DEF From, To
<1>10. \A x, y : From(x, t) /\ To("logs", y, t) => Covers("logs", [from |-> x, to |-> y], t)
  BY DEF Covers
<1>11. Covers("logs", ExtractTsRange(range, q), t)
  BY <1>5, <1>7, <1>8, <1>9, <1>10
<1> QED BY <1>11 DEF t

LEMMA MetricsStep ==
  ASSUME CellAssumption, RequestAssumption, NEW q, IsQual(q), Bounding(q),
         NEW r, IsRow(r), Means(q, r), r["t"] % Unit = 0, NEW range, Covers("metrics", range, r["t"])
  PROVE  Covers("metrics", PrometheusTime(range, q), r["t"])
<1> DEFINE t == r["t"]
           secs == q.val \div Unit
           a == range.from
           b == range.to
<1>1. /\ q.val \in Int /\ t \in Int
      /\ q.op = ">"  => t > q.val
      /\ q.op = ">=" => t >= q.val
      /\ q.op = "<"  => t < q.val
      /\ q.op = "<=" => t <= q.val
      /\ q.op = "="  => t = q.val
  BY TimeMeans
<1>2. secs \in Int /\ secs * Unit \in Int /\ secs * Unit <= q.val
  BY <1>1, FloorIs
<1>3. t <= q.val => t <= secs * Unit
  BY <1>1, WholeTimes
<1>4. range = [from |-> a, to |-> b] /\ From(a, t) /\ To("metrics", b, t)
  BY DEF Covers
<1>5. q.op \in {"=", "<>", "<", "<=", ">", ">="}
  BY DEF Bounding, Comparisons
<1>6. PrometheusTime(range, q) =
        CASE q.op \in {">=", ">"} -> [from |-> secs, to |-> b]
          [] q.op \in {"<=", "<"} -> [from |-> a, to |-> secs]
          [] q.op = "="           -> [from |-> secs, to |-> secs]
          [] OTHER -> [from |-> a, to |-> b]
  BY <1>4, <1>5 DEF PrometheusTime
<1> HIDE DEF secs, a, b, t
<1>7. /\ q.op \in {">=", ">", "="} => From(secs, t)
      /\ q.op \in {"<=", "<", "="} => To("metrics", secs, t)
  BY <1>1, <1>2, <1>3 DEF From, To
<1>8. \A x, y : From(x, t) /\ To("metrics", y, t) => Covers("metrics", [from |-> x, to |-> y], t)
  BY DEF Covers
<1>9. Covers("metrics", PrometheusTime(range, q), t)
  <2>1. CASE q.op \in {">=", ">"}
    BY <1>4, <1>6, <1>7, <1>8, <2>1
  <2>2. CASE q.op \in {"<=", "<"}
    BY <1>4, <1>6, <1>7, <1>8, <2>2
  <2>3. CASE q.op = "="
    BY <1>4, <1>6, <1>7, <1>8, <2>3
  <2>4. CASE q.op = "<>"
    BY <1>4, <1>6, <1>8, <2>4
  <2> QED BY <1>5, <2>1, <2>2, <2>3, <2>4
<1> QED BY <1>9 DEF t

\* A row that meets all quals has its time within the range of all.
LEMMA RangesCover ==
  ASSUME CellAssumption, RequestAssumption, NEW kind \in {"logs", "metrics"}, NEW qs, AreQuals(qs),
         kind = "logs" => \A i \in DOMAIN qs : Translates("tencent_cls", qs[i]),
         NEW n \in Nat, n = Len(qs), NEW f, Ranges(kind, qs, f, n),
         NEW r, IsRow(r), Met(qs, r), r["t"] % Unit = 0
  PROVE  Covers(kind, f[n], r["t"])
<1> DEFINE t == r["t"]
           Has == {k \in Nat : k <= n => Covers(kind, f[k], t)}
<1>0. DOMAIN qs = 1..n
  BY DEF AreQuals
<1>1. 0 \in Has
  <2>1. Covers(kind, Range0, t)
    BY DEF Covers, Range0, From, To
  <2> QED BY <2>1 DEF Ranges
<1>2. ASSUME NEW k \in Nat, k \in Has PROVE k + 1 \in Has
  <2> SUFFICES ASSUME NEW m, m = k + 1, m <= n PROVE Covers(kind, f[m], t)
    OBVIOUS
  <2>1. m \in 1..n /\ m - 1 = k /\ Covers(kind, f[k], t)
    BY <1>2
  <2>2. f[m] = IF Bounding(qs[m]) THEN Step(kind, f[k], qs[m]) ELSE f[k]
    BY <2>1 DEF Ranges
  <2> DEFINE q == qs[m]
  <2>3. IsQual(q) /\ Means(q, r) /\ (kind = "logs" => Translates("tencent_cls", q))
    BY <1>0, <2>1 DEF AreQuals, Met
  <2> HIDE DEF q, Has
  <2>4. CASE Bounding(q) /\ kind = "logs"
    BY <2>1, <2>2, <2>3, <2>4, LogsStep DEF Step, q
  <2>5. CASE Bounding(q) /\ kind = "metrics"
    BY <2>1, <2>2, <2>3, <2>5, MetricsStep DEF Step, q
  <2>6. CASE ~Bounding(q)
    BY <2>1, <2>2, <2>6 DEF q
  <2> QED BY <2>4, <2>5, <2>6
<1>3. Nat \subseteq Has
  <2> HIDE DEF Has
  <2> QED BY <1>1, <1>2, Inductive
<1> QED BY <1>3

\* A bound other than "<>" bounds the range.
LEMMA RangeBounded ==
  ASSUME CellAssumption, RequestAssumption, NEW qs, AreQuals(qs), NEW n \in Nat, n = Len(qs),
         NEW f, Ranges("metrics", qs, f, n),
         \E i \in DOMAIN qs : Bounding(qs[i]) /\ qs[i].op # "<>"
  PROVE  f[n] # Range0
<1> DEFINE Some(k) == \E i \in 1..k : Bounding(qs[i]) /\ qs[i].op # "<>"
           Is(x) == x = [from |-> x.from, to |-> x.to]
           Has == {k \in Nat : k <= n => Is(f[k]) /\ (Some(k) => f[k] # Range0)}
<1>0. DOMAIN qs = 1..n
  BY DEF AreQuals
<1>1. 0 \in Has
  <2>1. Is(Range0)
    BY DEF Range0
  <2> QED BY <2>1 DEF Ranges
<1>2. ASSUME NEW k \in Nat, k \in Has PROVE k + 1 \in Has
  <2> SUFFICES ASSUME NEW m, m = k + 1, m <= n PROVE Is(f[m]) /\ (Some(m) => f[m] # Range0)
    OBVIOUS
  <2>1. m \in 1..n /\ m - 1 = k /\ Is(f[k]) /\ (Some(k) => f[k] # Range0)
    BY <1>2
  <2> DEFINE q == qs[m]
             secs == q.val \div Unit
             x == f[k]
             a == x.from
             b == x.to
  <2>2. f[m] = IF Bounding(q) THEN PrometheusTime(x, q) ELSE x
    BY <2>1 DEF Ranges, Step
  <2>3. IsQual(q)
    BY <1>0, <2>1 DEF AreQuals
  <2>4. Some(m) <=> Some(k) \/ (Bounding(q) /\ q.op # "<>")
    <3>1. \A i : i \in 1..m <=> i \in 1..k \/ i = m
      BY <2>1
    <3> QED BY <3>1
  <2>5. x = [from |-> a, to |-> b]
    BY <2>1
  <2>6. Bounding(q) => secs # All
    <3>1. Bounding(q) => q.val \in Int
      BY <2>3 DEF Bounding, Comparisons, IsQual, IsTest, ColumnOf, Values
    <3>2. Bounding(q) => secs \in Int
      BY <3>1, FloorIs
    <3> QED BY <3>2 DEF CellAssumption
  <2> HIDE DEF q, secs, x, a, b, Has
  <2>7. CASE ~Bounding(q)
    BY <2>1, <2>2, <2>4, <2>7 DEF x
  <2>8. CASE Bounding(q)
    <3>1. q.op \in {"=", "<>", "<", "<=", ">", ">="}
      BY <2>8 DEF Bounding, Comparisons
    <3>2. PrometheusTime(x, q) =
            CASE q.op \in {">=", ">"} -> [from |-> secs, to |-> b]
              [] q.op \in {"<=", "<"} -> [from |-> a, to |-> secs]
              [] q.op = "="           -> [from |-> secs, to |-> secs]
              [] OTHER -> [from |-> a, to |-> b]
      BY <2>5, <3>1 DEF PrometheusTime, secs
    <3>3. \A c, d : Is([from |-> c, to |-> d]) /\ (c # All \/ d # All => [from |-> c, to |-> d] # Range0)
      BY DEF Range0
    <3> HIDE DEF Is
    <3>4. CASE q.op = "<>"
      <4>1. f[m] = x
        BY <2>2, <2>5, <2>8, <3>2, <3>4
      <4> QED BY <2>1, <2>4, <3>4, <4>1 DEF x
    <3>5. CASE q.op # "<>"
      <4>1. \/ f[m] = [from |-> secs, to |-> b] \/ f[m] = [from |-> a, to |-> secs]
            \/ f[m] = [from |-> secs, to |-> secs]
        BY <2>2, <2>8, <3>1, <3>2, <3>5
      <4> QED BY <2>6, <2>8, <3>3, <4>1
    <3> QED BY <3>4, <3>5
  <2> QED BY <2>7, <2>8
<1>3. Nat \subseteq Has
  <2> HIDE DEF Has
  <2> QED BY <1>1, <1>2, Inductive
<1>4. Some(n)
  BY <1>0
<1> HIDE DEF Some, Is
<1> QED BY <1>3, <1>4

\* Conditions before those that are made of the quals.
LEMMA GroupFinds ==
  ASSUME NEW g, g \in Seq(Range(g)), NEW h, h \in Seq(Range(h)),
         NEW asked, asked.groups = <<g \o h>>, NEW r
  PROVE  Finds(asked, r) <=> HoldsAll(g, r) /\ HoldsAll(h, r)
<1> DEFINE c == g \o h
<1>1. HoldsAll(c, r) <=> HoldsAll(g, r) /\ HoldsAll(h, r)
  BY CatHolds
<1> HIDE DEF c
<1>2. OneGroup(asked, c)
  BY DEF OneGroup, c
<1> QED BY <1>1, <1>2, OneGroupFinds

LEMMA TwoSeq ==
  ASSUME NEW a, NEW b, NEW g, g = <<a, b>>
  PROVE  g \in Seq(Range(g)) /\ \A r : HoldsAll(g, r) <=> Holds(a, r) /\ Holds(b, r)
<1>1. a \in Range(g) /\ b \in Range(g) /\ DOMAIN g = {1, 2} /\ g[1] = a /\ g[2] = b
  BY DEF Range
<1>2. g \in Seq(Range(g))
  BY <1>1
<1>3. ASSUME NEW r PROVE HoldsAll(g, r) <=> Holds(a, r) /\ Holds(b, r)
  BY <1>1 DEF HoldsAll
<1> QED BY <1>2, <1>3

\* The times of the range, or of the last hour.
LogsTimes(range) ==
  <<Atom("t", ">=", IF range.from = All THEN Hour ELSE range.from * Unit),
    Atom("t", "<", IF range.to = All THEN Now ELSE range.to * Unit)>>

LEMMA LogsTimed ==
  ASSUME CellAssumption, RequestAssumption, NEW r, r["t"] \in Hour..(Now - 1),
         NEW range, Covers("logs", range, r["t"])
  PROVE  HoldsAll(LogsTimes(range), r)
<1> DEFINE t == r["t"]
           from == IF range.from = All THEN Hour ELSE range.from * Unit
           to == IF range.to = All THEN Now ELSE range.to * Unit
<1>1. Hour \in Nat /\ Now \in Nat /\ Unit \in Nat /\ t \in Int
  BY RequestAssumption DEF RequestAssumption
<1>2. from \in Int /\ t >= from
  BY <1>1 DEF Covers, From
<1>3. to \in Int /\ t < to
  BY <1>1 DEF Covers, To
<1> HIDE DEF from, to
<1>4. Holds(Atom("t", ">=", from), r) /\ Holds(Atom("t", "<", to), r)
  BY <1>1, <1>2, <1>3, HoldsTime
<1> DEFINE g == <<Atom("t", ">=", from), Atom("t", "<", to)>>
<1>5. HoldsAll(g, r)
  <2> HIDE DEF g
  <2> QED BY <1>4, TwoSeq DEF g
<1> QED BY <1>5 DEF LogsTimes, from, to

LEMMA TencentAsks ==
  ASSUME StatementAssumption, CellAssumption, RequestAssumption, NEW u \in Wrappers,
         u = "tencent_cls", NEW s, Answerable(u, s), NEW qs, qs = ExtractQuals(s.where),
         NEW asked, asked = TencentCls(qs)
  PROVE  /\ asked.max = All /\ asked.echo = {} /\ Complete(u, qs, asked)
         /\ \A r : Finds(asked, r) => HoldsAll(FlattenSeq([i \in DOMAIN qs |-> CqlQual(qs[i])]), r)
<1> DEFINE range == Bounds(qs, ExtractTsRange)
           times == LogsTimes(range)
           n  == Len(qs)
           ss == [i \in DOMAIN qs |-> CqlQual(qs[i])]
           g  == FlattenSeq(ss)
<1>1. AreQuals(qs) /\ \A i \in DOMAIN qs : Translates("tencent_cls", qs[i])
  BY AskedQuals
<1>2. n \in Nat
  BY <1>1 DEF AreQuals
<1>3. \A r \in Table[u] : r["t"] \in Hour..(Now - 1) /\ r["t"] % Unit = 0 /\ IsRow(r)
  <2>1. \A r \in Table[u] : r["t"] \in Hour..Now /\ r["t"] % Unit = 0 /\ r["t"] < Now
    BY DEF Answerable, Timed
  <2>2. Hour \in Nat /\ Now \in Nat
    BY DEF RequestAssumption
  <2> QED BY <2>1, <2>2, TableRows
<1>4. asked = Filtered(<<times \o g>>)
  BY DEF TencentCls, LogsTimes, Every
<1>5. PICK f : range = f[n] /\ Ranges("logs", qs, f, n)
  <2> HIDE DEF range, n
  <2> QED BY <1>2, LogsRange DEF range, n
<1> HIDE DEF range
<1>6. \A i \in DOMAIN qs : Writes(ss[i], qs[i])
  BY <1>1, CqlWrites DEF AreQuals
<1>7. ss = [i \in DOMAIN qs |-> ss[i]]
  OBVIOUS
<1>8. times \in Seq(Range(times))
  BY TwoSeq DEF LogsTimes
<1> HIDE DEF ss, n, times
<1>9. g \in Seq(Range(g))
  BY <1>1, <1>6, <1>7, EverySeq DEF Writes
<1>10. ASSUME NEW r \in Table[u], Met(qs, r) PROVE HoldsAll(times, r) /\ HoldsAll(g, r)
  <2>1. HoldsAll(g, r)
    BY <1>1, <1>6, <1>7, <1>10, EveryWrites
  <2>2. Covers("logs", range, r["t"])
    BY <1>1, <1>2, <1>3, <1>5, <1>10, RangesCover DEF n
  <2>3. HoldsAll(times, r)
    BY <1>3, <2>2, LogsTimed DEF times
  <2> QED BY <2>1, <2>3
<1> HIDE DEF g
<1>11. asked.groups = <<times \o g>> /\ asked.max = All /\ asked.echo = {}
  BY <1>4, FilteredIs
<1>12. \A r : Finds(asked, r) <=> HoldsAll(times, r) /\ HoldsAll(g, r)
  BY <1>8, <1>9, <1>11, GroupFinds
<1>13. Complete(u, qs, asked)
  BY <1>10, <1>12 DEF Complete
<1> QED BY <1>11, <1>12, <1>13 DEF g, ss

LEMMA TencentKeeps ==
  ASSUME StatementAssumption, CellAssumption, RequestAssumption, NEW u \in Wrappers,
         u = "tencent_cls", NEW s, Answerable(u, s), NEW asked,
         asked = TencentCls(ExtractQuals(s.where))
  PROVE  AskKeeps(u, s, asked)
<1> DEFINE qs == ExtractQuals(s.where)
<1>1. asked.max = All /\ asked.echo = {} /\ Complete(u, qs, asked)
  <2> HIDE DEF qs
  <2> QED BY TencentAsks DEF qs
<1> QED BY <1>1, FreeKeeps

LEMMA CqlTells ==
  ASSUME NEW q, IsQual(q), ~q.arr, q.field \in {"k", "v", "b"},
         q.op \in Comparisons \ {"<>"} \/ NullTest(q)
  PROVE  Tells(CqlQual(q), q)
<1>1. ColumnOf(q) = q.field /\ q.field \notin {"j.x", "s", "j", "t"}
  BY DEF ColumnOf
<1>2. CqlQual(q) = <<On(q.field, q)>>
  <2>1. CASE q.op \in Comparisons \ {"<>"}
    <3>1. q.op \in {"=", "<", "<=", ">", ">="}
      BY <2>1 DEF Comparisons
    <3> QED BY <1>1, <3>1 DEF CqlQual, Comparisons
  <2>2. CASE NullTest(q)
    <3>1. q.op \in {"is", "is not"} /\ q.val = Word
      BY <2>2 DEF NullTest
    <3> QED BY <1>1, <3>1 DEF CqlQual, Comparisons
  <2> QED BY <2>1, <2>2
<1>3. On(q.field, q) = Atom(ColumnOf(q), q.op, q.val)
  BY <1>1, OnIs
<1> QED BY <1>2, <1>3, TellsSame

LEMMA TencentAggregateRight ==
  ASSUME StatementAssumption, CellAssumption, RequestAssumption, NEW u \in Wrappers,
         u = "tencent_cls", NEW s, Answerable(u, s),
         UpperPath(s, ExtractQuals(s.where), u \in Aggregating), NEW asked,
         asked = TencentAggregate(ExtractQuals(s.where))
  PROVE  AggregateKeeps(u, s, asked)
<1> DEFINE qs == ExtractQuals(s.where)
           ss == [i \in DOMAIN qs |-> CqlQual(qs[i])]
           g  == FlattenSeq(ss)
<1>1. AreQuals(qs) /\ \A i \in DOMAIN qs : Translates("tencent_cls", qs[i])
  BY AskedQuals
<1>2. Exact(u, s.where)
  BY DEF Answerable, UpperPath
<1>3. /\ Len(qs) = Len(s.where)
      /\ \A i \in DOMAIN qs :
           /\ ~qs[i].arr /\ qs[i].field \in {"k", "v", "b"}
           /\ qs[i].op \in Comparisons \ {"<>"} \/ NullTest(qs[i])
  BY <1>2 DEF Exact
<1>4. asked = TencentCls(qs)
  BY DEF TencentAggregate
<1> HIDE DEF qs
<1>5. /\ asked.max = All /\ asked.echo = {} /\ Complete(u, qs, asked)
      /\ \A r : Finds(asked, r) => HoldsAll(g, r)
  BY <1>4, TencentAsks DEF qs
<1>6. \A i \in DOMAIN qs : Writes(ss[i], qs[i]) /\ Tells(ss[i], qs[i])
  BY <1>1, <1>3, CqlWrites, CqlTells DEF AreQuals
<1>7. ss = [i \in DOMAIN qs |-> ss[i]]
  OBVIOUS
<1> HIDE DEF ss
<1>8. \A r \in Table[u] : HoldsAll(g, r) => Met(qs, r)
  BY <1>1, <1>6, <1>7, EveryTells
<1>9. AsAsked(u, s, qs, asked)
  BY <1>3, <1>5, <1>8 DEF AsAsked
<1> QED BY <1>5, <1>9 DEF AggregateKeeps, qs

\* The times of the range, or of the last hour, both ends included.
MetricsTimes(range) ==
  <<Atom("t", ">=", IF range.from = All THEN Hour ELSE range.from * Unit),
    Atom("t", "<=", IF range.to = All THEN Now ELSE range.to * Unit)>>

LEMMA MetricsTimed ==
  ASSUME CellAssumption, RequestAssumption, NEW r, r["t"] \in Hour..Now,
         NEW range, Covers("metrics", range, r["t"])
  PROVE  HoldsAll(MetricsTimes(range), r)
<1> DEFINE t == r["t"]
           from == IF range.from = All THEN Hour ELSE range.from * Unit
           to == IF range.to = All THEN Now ELSE range.to * Unit
<1>1. Hour \in Nat /\ Now \in Nat /\ Unit \in Nat /\ t \in Int
  BY RequestAssumption DEF RequestAssumption
<1>2. from \in Int /\ t >= from
  BY <1>1 DEF Covers, From
<1>3. to \in Int /\ t <= to
  BY <1>1 DEF Covers, To
<1> HIDE DEF from, to
<1>4. Holds(Atom("t", ">=", from), r) /\ Holds(Atom("t", "<=", to), r)
  BY <1>1, <1>2, <1>3, HoldsTime
<1> DEFINE g == <<Atom("t", ">=", from), Atom("t", "<=", to)>>
<1>5. HoldsAll(g, r)
  <2> HIDE DEF g
  <2> QED BY <1>4, TwoSeq DEF g
<1> QED BY <1>5 DEF MetricsTimes, from, to

LEMMA PrometheusKeeps ==
  ASSUME StatementAssumption, CellAssumption, RequestAssumption, NEW u \in Wrappers,
         u = "prometheus", NEW s, Answerable(u, s), NEW asked,
         asked = Prometheus(ExtractQuals(s.where)), asked # Refused
  PROVE  AskKeeps(u, s, asked)
<1> DEFINE qs == ExtractQuals(s.where)
           names == Cells(qs, {"k"}, {"="})
           last == Max(names)
           key == KeyAtom(qs[last])
           range == Bounds(qs, PrometheusTime)
           times == MetricsTimes(range)
           n  == Len(qs)
           ss == [i \in DOMAIN qs |-> LabelMatcher(qs[i])]
           g  == FlattenSeq(ss)
<1>1. /\ AreQuals(qs) /\ \A i \in DOMAIN qs : Translates("prometheus", qs[i])
      /\ \E i \in DOMAIN qs : Bounding(qs[i]) /\ qs[i].op # "<>"
  BY AskedQuals DEF Answerable, Bounded
<1>2. asked = Prometheus(qs)
  OBVIOUS
<1> HIDE DEF qs
<1>3. n \in Nat /\ DOMAIN qs = 1..n
  BY <1>1 DEF AreQuals
<1>4. \A r \in Table[u] : r["t"] \in Hour..Now /\ r["t"] % Unit = 0 /\ IsRow(r)
  BY TableRows DEF Answerable, Timed
<1>5. PICK f : range = f[n] /\ Ranges("metrics", qs, f, n)
  <2> HIDE DEF range, n
  <2> QED BY <1>3, MetricsRange DEF range, n
<1>6. range # Range0
  <2> HIDE DEF range, n
  <2> QED BY <1>1, <1>3, <1>5, RangeBounded DEF n
<1>7. names # {}
  BY <1>2 DEF Prometheus
<1>8. asked = Filtered(<<(<<key>> \o times) \o g>>)
  <2>1. asked = Filtered(<<<<Atom("k", "=", qs[last].val)>> \o times \o Every(qs, LabelMatcher)[1]>>)
    BY <1>2, <1>6, <1>7 DEF Prometheus, MetricsTimes
  <2> QED BY <2>1 DEF Every, KeyAtom
<1> HIDE DEF range
<1>9. last \in names
  <2>1. names \subseteq 1..n
    BY <1>3 DEF Cells
  <2> HIDE DEF names, n
  <2> QED BY <1>3, <1>7, <2>1, GreatestIn
<1>10. last \in DOMAIN qs /\ IsKey(qs[last])
  BY <1>9 DEF Cells, IsKey
<1>11. \A i \in DOMAIN qs : Writes(ss[i], qs[i])
  BY <1>1, LabelWrites DEF AreQuals
<1>12. ss = [i \in DOMAIN qs |-> ss[i]]
  OBVIOUS
<1>13. times \in Seq(Range(times))
  BY TwoSeq DEF MetricsTimes
<1> HIDE DEF ss, n, times, last
<1>14. g \in Seq(Range(g))
  BY <1>1, <1>11, <1>12, EverySeq DEF Writes
<1>15. ASSUME NEW r \in Table[u], Met(qs, r)
       PROVE  Holds(key, r) /\ HoldsAll(times, r) /\ HoldsAll(g, r)
  <2>1. HoldsAll(g, r)
    BY <1>1, <1>11, <1>12, <1>15, EveryWrites
  <2>2. Covers("metrics", range, r["t"])
    <3>1. "metrics" \in {"logs", "metrics"} /\ "metrics" # "logs"
      OBVIOUS
    <3> QED BY <1>1, <1>3, <1>4, <1>5, <1>15, <3>1, RangesCover DEF n
  <2>3. HoldsAll(times, r)
    BY <1>4, <2>2, MetricsTimed DEF times
  <2>4. Holds(key, r)
    BY <1>1, <1>10, <1>15, KeyHolds
  <2> QED BY <2>1, <2>3, <2>4
<1> HIDE DEF g, key
<1> DEFINE one == <<key>>
           head == one \o times
<1>16. one \in Seq(Range(one)) /\ \A r : HoldsAll(one, r) <=> Holds(key, r)
  <2> HIDE DEF one
  <2> QED BY OneSeq DEF one
<1>17. asked.groups = <<head \o g>> /\ asked.max = All /\ asked.echo = {}
  BY <1>8, FilteredIs
<1> HIDE DEF one
<1>18. head \in Seq(Range(head)) /\ \A r : HoldsAll(head, r) <=> HoldsAll(one, r) /\ HoldsAll(times, r)
  <2> HIDE DEF head
  <2> QED BY <1>13, <1>16, CatHolds DEF head
<1> HIDE DEF head
<1>19. \A r : Finds(asked, r) <=> HoldsAll(head, r) /\ HoldsAll(g, r)
  BY <1>14, <1>17, <1>18, GroupFinds
<1>20. Complete(u, qs, asked)
  BY <1>15, <1>16, <1>18, <1>19 DEF Complete
<1> QED BY <1>17, <1>20, FreeKeeps DEF qs

-----------------------------------------------------------------------------
(* From the rows that come back to the rows of the statement.              *)

LEMMA MatchingIs == \A asked, rows : Matching(asked, rows) = {r \in rows : Finds(asked, r)}
BY DEF Matching, Finds, HoldsAll

LEMMA EchoedIs ==
  ASSUME NEW echo, NEW r, IsRow(r), \A e \in echo : r[e.field] = e.val
  PROVE  Echoed(echo, r) = r
<1> DEFINE said(c) == CHOOSE e \in echo : e.field = c
           f == [c \in DOMAIN r |-> IF \E e \in echo : e.field = c THEN said(c).val ELSE r[c]]
<1>1. Echoed(echo, r) = f
  BY DEF Echoed
<1>2. ASSUME NEW c \in DOMAIN r PROVE f[c] = r[c]
  <2>1. CASE \E e \in echo : e.field = c
    <3>1. said(c) \in echo /\ said(c).field = c
      BY <2>1
    <3> HIDE DEF said
    <3>2. said(c).val = r[c]
      BY <3>1
    <3> QED BY <2>1, <3>2
  <2>2. CASE ~\E e \in echo : e.field = c
    BY <2>2
  <2> QED BY <2>1, <2>2
<1>3. r = [c \in DOMAIN r |-> r[c]]
  BY DEF IsRow
<1> QED BY <1>1, <1>2, <1>3

\* Nothing but rows of the table comes back: the first of those asked for, or all.
LEMMA AnswersAre ==
  ASSUME StatementAssumption, CellAssumption, NEW u \in Wrappers, NEW asked, Truthful(u, asked),
         NEW back \in Answers(asked, Table[u]), NEW m, m = Matching(asked, Table[u])
  PROVE  back = m \/ (asked.max # All /\ back \in Firsts(m, asked.order, asked.max))
<1>1. PICK some \in (IF asked.max = All THEN {m} ELSE Firsts(m, asked.order, asked.max))
                      \cup (IF asked.more THEN {m} ELSE {}) :
        back = {Echoed(asked.echo, r) : r \in some}
  BY DEF Answers
<1>2. some = m \/ (asked.max # All /\ some \in Firsts(m, asked.order, asked.max))
  BY <1>1
<1>3. some \subseteq m
  BY <1>2 DEF Firsts, kSubset
<1>4. ASSUME NEW r \in some PROVE Echoed(asked.echo, r) = r
  <2>1. r \in Table[u] /\ Finds(asked, r)
    BY <1>3, MatchingIs
  <2>2. IsRow(r)
    BY <2>1, TableRows
  <2> QED BY <2>1, <2>2, EchoedIs DEF Truthful
<1>5. back = some
  BY <1>1, <1>4
<1> QED BY <1>2, <1>5

LEMMA SelectedIs == \A rows, where : Selected(rows, where) = {r \in rows : Picks(where, r)}
BY DEF Selected, Picks

\* What the request leaves out the clauses leave out too.
LEMMA SelectedSame ==
  ASSUME StatementAssumption, CellAssumption, NEW u \in Wrappers, NEW where, AreClauses(where),
         NEW asked, Complete(u, ExtractQuals(where), asked)
  PROVE  Selected(Matching(asked, Table[u]), where) = Selected(Table[u], where)
<1>1. ASSUME NEW r \in Table[u], Picks(where, r) PROVE Finds(asked, r)
  <2>1. Met(ExtractQuals(where), r)
    BY <1>1, TableRows, QualsOf
  <2> QED BY <2>1 DEF Complete
<1> QED BY <1>1, SelectedIs, MatchingIs

LEMMA ExactlySelected ==
  ASSUME StatementAssumption, CellAssumption, NEW u \in Wrappers, NEW s, AreClauses(s.where),
         NEW asked, Complete(u, ExtractQuals(s.where), asked),
         s.where = <<>> \/ AsAsked(u, s, ExtractQuals(s.where), asked)
  PROVE  /\ Matching(asked, Table[u]) = Selected(Table[u], s.where)
         /\ \A r \in Matching(asked, Table[u]) : Picks(s.where, r)
<1>1. ASSUME NEW r \in Table[u], Finds(asked, r) PROVE Picks(s.where, r)
  <2>1. CASE s.where = <<>>
    BY <2>1 DEF Picks
  <2>2. CASE AsAsked(u, s, ExtractQuals(s.where), asked)
    <3>1. Met(ExtractQuals(s.where), r)
      BY <1>1, <2>2 DEF AsAsked
    <3> QED BY <2>2, <3>1, TableRows, QualsOf DEF AsAsked
  <2> QED BY <2>1, <2>2
<1>2. \A r \in Matching(asked, Table[u]) : Picks(s.where, r)
  BY <1>1, MatchingIs
<1>3. Selected(Matching(asked, Table[u]), s.where) = Matching(asked, Table[u])
  BY <1>2, SelectedIs
<1> QED BY <1>2, <1>3, SelectedSame

LEMMA MinOfTwo ==
  ASSUME NEW x \in Int, NEW y \in Int
  PROVE  Min({x, y}) = IF x <= y THEN x ELSE y
<1> DEFINE m == IF x <= y THEN x ELSE y
<1>1. m \in {x, y} /\ \A z \in {x, y} : m <= z
  OBVIOUS
<1>2. \A z \in {x, y} : (\A t \in {x, y} : z <= t) => z = m
  OBVIOUS
<1> HIDE DEF m
<1>3. Min({x, y}) = m
  BY <1>1, <1>2 DEF Min
<1> QED BY <1>3 DEF m

\* Of the first n rows the first n are all of them.
LEMMA FirstsOfFirsts ==
  ASSUME NEW rows, IsFiniteSet(rows), NEW order, NEW n \in Nat,
         NEW first \in Firsts(rows, order, n), NEW sort, NEW upto \in Firsts(first, sort, n)
  PROVE  upto = first
<1>1. first \subseteq rows /\ Cardinality(first) = Min({n, Cardinality(rows)})
  BY DEF Firsts, kSubset
<1>2. IsFiniteSet(first) /\ Cardinality(rows) \in Nat /\ Cardinality(first) \in Nat
  BY <1>1, FS_Subset, FS_CardinalityType
<1>3. Cardinality(first) <= n
  BY <1>1, <1>2, MinOfTwo
<1>4. upto \subseteq first /\ Cardinality(upto) = Min({n, Cardinality(first)})
  BY DEF Firsts, kSubset
<1>5. Cardinality(upto) = Cardinality(first)
  BY <1>2, <1>3, <1>4, MinOfTwo
<1> QED BY <1>2, <1>4, <1>5, FS_Subset

LEMMA FirstsSame ==
  ASSUME NEW u, NEW rows, rows \subseteq Table[u], NEW order, NEW sort, SameOrder(u, order, sort),
         NEW n
  PROVE  Firsts(rows, order, n) = Firsts(rows, sort, n)
BY DEF Firsts, kSubset, SameOrder

\* A window of the rows that come back is a window of the rows of the table.
LEMMA WindowsKept ==
  ASSUME StatementAssumption, CellAssumption, NEW u \in Wrappers, NEW s, IsStatement(s),
         NEW asked, AskKeeps(u, s, asked), NEW back \in Answers(asked, Table[u]),
         NEW answered \in Windows(Selected(back, s.where), s.sort, s.count, s.offset)
  PROVE  answered \in Windows(Selected(Table[u], s.where), s.sort, s.count, s.offset)
<1> DEFINE m == Matching(asked, Table[u])
<1>1. AreClauses(s.where)
  BY DEF IsStatement, AreClauses
<1>2. back = m \/ (asked.max # All /\ back \in Firsts(m, asked.order, asked.max))
  BY AnswersAre DEF AskKeeps
<1>3. CASE back = m
  BY <1>1, <1>3, SelectedSame DEF AskKeeps
<1>4. CASE asked.max # All /\ back \in Firsts(m, asked.order, asked.max)
  <2>1. Limits(u, s, asked) /\ Complete(u, ExtractQuals(s.where), asked)
    BY <1>4 DEF AskKeeps
  <2>2. m = Selected(Table[u], s.where) /\ \A r \in m : Picks(s.where, r)
    BY <1>1, <2>1, ExactlySelected DEF Limits
  <2> DEFINE n == s.offset + s.count
  <2>3. s.count # All
    BY <2>1 DEF Limits, ExtractLimit, NoLimit
  <2>4. n \in Nat /\ asked.max = n
    BY <2>1, RequestAssumption DEF Limits
  <2> HIDE DEF n
  <2>5. m \subseteq Table[u] /\ IsFiniteSet(m)
    BY TableRows, FS_Subset, MatchingIs
  <2>6. back \in Firsts(m, s.sort, n)
    BY <1>4, <2>1, <2>4, <2>5, FirstsSame DEF Limits
  <2>7. back \subseteq m
    BY <2>6 DEF Firsts, kSubset
  <2>8. Selected(back, s.where) = back
    BY <2>2, <2>7, SelectedIs
  <2>9. answered \in UNION {{upto \ skipped : skipped \in Firsts(upto, s.sort, s.offset)} :
                              upto \in Firsts(back, s.sort, n)}
    BY <2>3, <2>8 DEF Windows, n
  <2>10. PICK upto \in Firsts(back, s.sort, n) :
           answered \in {upto \ skipped : skipped \in Firsts(upto, s.sort, s.offset)}
    BY <2>9
  <2>11. upto = back
    BY ONLY <2>4, <2>5, <2>6, <2>10, FirstsOfFirsts
  <2>12. answered \in UNION {{t \ skipped : skipped \in Firsts(t, s.sort, s.offset)} :
                               t \in Firsts(m, s.sort, n)}
    BY <2>6, <2>10, <2>11
  <2> HIDE DEF m
  <2>13. answered \in Windows(m, s.sort, s.count, s.offset)
    BY <2>3, <2>12 DEF Windows, n
  <2> QED BY <2>2, <2>13
<1> QED BY <1>2, <1>3, <1>4
\* All that comes back for an aggregate is what the clauses select.
LEMMA CountsKept ==
  ASSUME StatementAssumption, CellAssumption, NEW u \in Wrappers, NEW s, IsStatement(s),
         NEW asked, AggregateKeeps(u, s, asked), NEW back \in Answers(asked, Table[u])
  PROVE  back = Selected(Table[u], s.where)
<1>1. AreClauses(s.where)
  BY DEF IsStatement, AreClauses
<1>2. Truthful(u, asked)
  BY DEF AggregateKeeps, Truthful
<1>3. back = Matching(asked, Table[u])
  BY <1>2, AnswersAre DEF AggregateKeeps
<1> QED BY <1>1, <1>3, ExactlySelected DEF AggregateKeeps

LEMMA RowsKept ==
  ASSUME StatementAssumption, CellAssumption, NEW u \in Wrappers, NEW s, IsStatement(s),
         NEW asked, AskKeeps(u, s, asked), NEW back \in Answers(asked, Table[u]), s.agg # "none"
  PROVE  Selected(back, s.where) = Selected(Table[u], s.where)
<1> DEFINE m == Matching(asked, Table[u])
<1>1. AreClauses(s.where)
  BY DEF IsStatement, AreClauses
<1>2. asked.max = All
  BY DEF AskKeeps, Limits, ExtractLimit, NoLimit
<1>3. back = m
  BY <1>2, AnswersAre DEF AskKeeps
<1> QED BY <1>1, <1>3, SelectedSame DEF AskKeeps

-----------------------------------------------------------------------------
(* The statement.                                                          *)

LEMMA AskRight ==
  ASSUME StatementAssumption, CellAssumption, RequestAssumption, NEW u \in Wrappers,
         NEW s, Answerable(u, s), NEW asked,
         asked = Ask(u, ExtractQuals(s.where), ExtractSorts(s.sort), ExtractLimit(s)), asked # Refused
  PROVE  AskKeeps(u, s, asked)
<1> DEFINE qs == ExtractQuals(s.where)
           ss == ExtractSorts(s.sort)
           l  == ExtractLimit(s)
<1>0. asked = Ask(u, qs, ss, l) /\ u \in Known
  BY DEF StatementAssumption
<1> HIDE DEF qs, ss, l
<1>1. CASE u \in Deparsing
  BY <1>1, DeparsingRight
<1>2. CASE u = "clickhouse_params"
  <2>1. asked = ClickhouseParams(qs, ss, l) /\ u \in Sorting
    BY <1>0, <1>2 DEF Ask, Sorting
  <2> QED BY <1>2, <2>1, ParamsKeep DEF qs, ss, l
<1>3. CASE u = "iceberg"
  <2>1. asked = Iceberg(qs)
    BY <1>0, <1>3 DEF Ask
  <2> QED BY <1>3, <2>1, IcebergKeeps DEF qs
<1>4. CASE u = "mongodb"
  <2>1. asked = Mongodb(qs, ss, l) /\ u \in Sorting
    BY <1>0, <1>4 DEF Ask, Sorting
  <2> QED BY <1>4, <2>1, MongodbKeeps DEF qs, ss, l
<1>5. CASE u = "dynamodb"
  <2>1. asked = Dynamodb(qs, l) /\ u \in Stopping
    BY <1>0, <1>5 DEF Ask, Stopping
  <2> QED BY <1>5, <2>1, DynamodbKeeps DEF qs, l
<1>6. CASE u = "s3vectors"
  <2>1. asked = S3vectors(qs, l) /\ u \in Stopping
    BY <1>0, <1>6 DEF Ask, Stopping
  <2> QED BY <1>6, <2>1, S3vectorsKeeps DEF qs, l
<1>7. CASE u = "tencent_cls"
  <2>1. asked = TencentCls(qs)
    BY <1>0, <1>7 DEF Ask
  <2> QED BY <1>7, <2>1, TencentKeeps DEF qs
<1>8. CASE u = "prometheus"
  <2>1. asked = Prometheus(qs)
    BY <1>0, <1>8 DEF Ask
  <2> QED BY <1>8, <2>1, PrometheusKeeps DEF qs
<1>9. CASE u = "logflare"
  <2>1. asked = Logflare(qs)
    BY <1>0, <1>9 DEF Ask
  <2> QED BY <2>1, LogflareKeeps DEF qs
<1>10. CASE u = "hubspot"
  <2>1. asked = Hubspot(qs, l) /\ u \in Stopping
    BY <1>0, <1>10 DEF Ask, Stopping
  <2> QED BY <2>1, HubspotKeeps DEF qs, l
<1>11. CASE u \in {"clerk", "shopify"}
  <2>1. asked = ById(qs, Filtered(Everything))
    BY <1>0, <1>11 DEF Ask, Clerk, Shopify
  <2>2. AskKeeps(u, s, Filtered(Everything))
    BY AllKeeps
  <2> QED BY <2>1, <2>2, ByIdKeeps DEF qs
<1>12. CASE u = "orb"
  <2>1. asked = Orb(qs, l) /\ u \in Stopping
    BY <1>0, <1>12 DEF Ask, Stopping
  <2> QED BY <1>12, <2>1, OrbKeeps DEF qs, l
<1>13. CASE u = "paddle"
  <2>1. asked = Paddle(qs)
    BY <1>0, <1>13 DEF Ask
  <2> QED BY <2>1, PaddleKeeps DEF qs
<1>14. CASE u = "notion"
  <2>1. asked = Notion(qs)
    BY <1>0, <1>14 DEF Ask
  <2> QED BY <1>14, <2>1, NotionKeeps DEF qs
<1>15. CASE u = "infura"
  <2>1. asked = Infura(qs)
    BY <1>0, <1>15 DEF Ask
  <2> QED BY <1>15, <2>1, InfuraKeeps DEF qs
<1>16. CASE u = "langfuse"
  <2>1. asked = Langfuse(qs, l) /\ u \in Stopping
    BY <1>0, <1>16 DEF Ask, Stopping
  <2> QED BY <2>1, LangfuseKeeps DEF qs, l
<1>17. CASE u = "stripe"
  <2>1. asked = Stripe(qs, l) /\ u \in Stopping
    BY <1>0, <1>17 DEF Ask, Stopping
  <2> QED BY <2>1, StripeKeeps DEF qs, l
<1>18. CASE u = "slack"
  <2>1. asked = Slack(qs)
    BY <1>0, <1>18 DEF Ask
  <2> QED BY <2>1, SlackKeeps DEF qs
<1>19. CASE u = "openapi"
  <2>1. asked = Openapi(qs, l) /\ u \in Stopping
    BY <1>0, <1>19 DEF Ask, Stopping
  <2> QED BY <2>1, OpenapiKeeps DEF qs, l
<1>20. CASE u = "airtable"
  <2>1. asked = Filtered(Everything)
    BY <1>0, <1>20 DEF Ask, PushesNothing
  <2> QED BY <2>1, AllKeeps
<1> QED
  BY <1>0, <1>1, <1>2, <1>3, <1>4, <1>5, <1>6, <1>7, <1>8, <1>9, <1>10, <1>11, <1>12, <1>13,
     <1>14, <1>15, <1>16, <1>17, <1>18, <1>19, <1>20 DEF Known, Deparsing

LEMMA AggregateRight ==
  ASSUME StatementAssumption, CellAssumption, RequestAssumption, NEW u \in Wrappers,
         NEW s, Answerable(u, s), UpperPath(s, ExtractQuals(s.where), u \in Aggregating), NEW asked,
         asked = AskAggregate(u, ExtractQuals(s.where)), asked # Refused
  PROVE  AggregateKeeps(u, s, asked)
<1>1. u \in Aggregating
  BY DEF UpperPath
<1>2. CASE u = "tencent_cls"
  <2>1. asked = TencentAggregate(ExtractQuals(s.where))
    BY <1>2 DEF AskAggregate
  <2> QED BY <1>2, <2>1, TencentAggregateRight
<1>3. CASE u \in Deparsing
  BY <1>3, DeparsingAggregateRight
<1> QED BY <1>1, <1>2, <1>3 DEF Aggregating, Deparsing

Planned(u, s, down) == down => UpperPath(s, ExtractQuals(s.where), u \in Aggregating)

Requested(u, s, down) ==
  IF down THEN AskAggregate(u, ExtractQuals(s.where))
  ELSE Ask(u, ExtractQuals(s.where), ExtractSorts(s.sort), ExtractLimit(s))

Returned(u, s, down, asked, back) ==
  \E rows \in Answers(asked, Table[u]) : back = IF down THEN Counts(s.agg, s.grouped, rows) ELSE rows

\* Every phase builds on what the phases before it left.
QueryInv ==
  /\ w \in Wrappers /\ st \in Statements[w] /\ pushed \in BOOLEAN
  /\ phase \in {"parsed", "sized", "planned", "begun", "scanned", "answered", "failed"}
  /\ IF phase = "parsed" THEN quals = <<>> /\ sorts = <<>> /\ lim = NoLimit
     ELSE /\ quals = ExtractQuals(st.where) /\ sorts = ExtractSorts(st.sort)
          /\ lim = ExtractLimit(st)
  /\ IF phase \in {"parsed", "sized"} THEN ~pushed ELSE Planned(w, st, pushed)
  /\ IF phase \in {"begun", "scanned", "answered"}
     THEN req = Requested(w, st, pushed) /\ req # Refused ELSE req = Refused
  /\ phase \in {"scanned", "answered"} => Returned(w, st, pushed, req, got)
  /\ phase = "answered" =>
       IF pushed THEN answer = got
       ELSE IF st.agg = "none"
            THEN answer \in Windows(Selected(got, st.where), st.sort, st.count, st.offset)
            ELSE answer = Counts(st.agg, st.grouped, Selected(got, st.where))

LEMMA QueryInit == Init => QueryInv
BY DEF Init, QueryInv

LEMMA QueryNext == QueryInv /\ [Next]_vars => QueryInv'
<1> SUFFICES ASSUME QueryInv, [Next]_vars PROVE QueryInv'
  OBVIOUS
<1>1. CASE GetForeignRelSize
  BY <1>1 DEF QueryInv, GetForeignRelSize, Planned
<1>2. CASE Plan
  BY <1>2 DEF QueryInv, Plan, Planned
<1>3. CASE BeginScan
  BY <1>3 DEF QueryInv, BeginScan, Planned, Requested
<1>4. CASE IterScan
  BY <1>4 DEF QueryInv, IterScan, Planned, Requested, Returned
<1>5. CASE ExecScan
  BY <1>5 DEF QueryInv, ExecScan, Planned, Requested, Returned
<1>6. CASE UNCHANGED vars
  BY <1>6 DEF QueryInv, vars, Planned, Requested, Returned
<1> QED BY <1>1, <1>2, <1>3, <1>4, <1>5, <1>6 DEF Next

\* QueryInv holds throughout, whatever the statement.
LEMMA QueryInvariant == Spec => []QueryInv
BY QueryInit, QueryNext, PTL DEF Spec

\* What is answered is what Postgres could have answered itself: a pushed-down
\* aggregate because its request finds the selected rows and no others, the rest
\* because Postgres works on rows that miss nothing of what it keeps.
LEMMA AnswerRight ==
  ASSUME StatementAssumption, CellAssumption, RequestAssumption, StatementsAnswerable,
         QueryInv, phase = "answered"
  PROVE  answer \in Reference
<1> DEFINE qs == ExtractQuals(st.where)
           selected == Selected(Table[w], st.where)
<1>1. w \in Wrappers /\ Answerable(w, st) /\ IsStatement(st) /\ pushed \in BOOLEAN
  BY DEF QueryInv, StatementsAnswerable, Answerable
<1>2. req = Requested(w, st, pushed) /\ req # Refused
  BY DEF QueryInv
<1>3. PICK rows \in Answers(req, Table[w]) :
        got = IF pushed THEN Counts(st.agg, st.grouped, rows) ELSE rows
  BY DEF QueryInv, Returned
<1>4. CASE pushed
  <2>1. UpperPath(st, qs, w \in Aggregating)
    BY <1>4 DEF QueryInv, Planned
  <2>2. AggregateKeeps(w, st, req)
    BY <1>1, <1>2, <1>4, <2>1, AggregateRight DEF Requested
  <2>3. rows = selected
    BY <1>1, <1>3, <2>2, CountsKept
  <2>4. st.agg # "none"
    BY <2>1 DEF UpperPath
  <2>5. answer = Counts(st.agg, st.grouped, selected)
    BY <1>3, <1>4, <2>3 DEF QueryInv
  <2> QED BY <2>4, <2>5 DEF Reference
<1>5. CASE ~pushed
  <2>1. AskKeeps(w, st, req)
    BY <1>1, <1>2, <1>5, AskRight DEF Requested
  <2>2. CASE st.agg = "none"
    <3>1. answer \in Windows(Selected(rows, st.where), st.sort, st.count, st.offset)
      BY <1>3, <1>5, <2>2 DEF QueryInv
    <3> QED BY <1>1, <1>3, <2>1, <2>2, <3>1, WindowsKept DEF Reference
  <2>3. CASE st.agg # "none"
    <3>1. answer = Counts(st.agg, st.grouped, Selected(rows, st.where))
      BY <1>3, <1>5, <2>3 DEF QueryInv
    <3>2. Selected(rows, st.where) = selected
      BY <1>1, <1>3, <2>1, <2>3, RowsKept
    <3> QED BY <2>3, <3>1, <3>2 DEF Reference
  <2> QED BY <2>2, <2>3
<1> QED BY <1>1, <1>4, <1>5

\* Pushing down quals, sorts and the limit never changes the rows of a statement
\* (deparse and begin_scan of every wrapper, and the framework's extraction of
\* quals, sort keys and LIMIT from the plan).
THEOREM RowsAreComplete ==
  ASSUME StatementAssumption, CellAssumption, RequestAssumption, StatementsAnswerable
  PROVE  Spec => []RowsComplete
<1>1. QueryInv => RowsComplete
  BY AnswerRight DEF RowsComplete
<1> QED BY <1>1, QueryInvariant, PTL

\* An aggregate computed by the remote side (begin_aggregate_scan) is the one
\* Postgres would have computed: nothing filters its rows again.
THEOREM AggregatesAreExact ==
  ASSUME StatementAssumption, CellAssumption, RequestAssumption, StatementsAnswerable
  PROVE  Spec => []AggregatesExact
<1>1. QueryInv => AggregatesExact
  BY AnswerRight DEF AggregatesExact
<1> QED BY <1>1, QueryInvariant, PTL

\* A qual is about a column and carries a value, or values none of which is NULL.
LEMMA QualTypes ==
  ASSUME NEW where, AreClauses(where), NEW i \in DOMAIN ExtractQuals(where),
         NEW q, q = ExtractQuals(where)[i]
  PROVE  q.field \in Columns \cup {"j.x"} /\ IF q.arr THEN Null \notin Range(q.val) ELSE q.val # Null
<1>1. IsQual(q)
  BY QualsOf DEF AreQuals
<1> QED BY <1>1 DEF IsQual

\* Quals carry values and never NULL, the sort keys are those of the statement,
\* and no wrapper asks for a negative number of rows.
THEOREM RemoteQueryTypes ==
  ASSUME StatementAssumption, CellAssumption, RequestAssumption, StatementsAnswerable
  PROVE  Spec => []TypeOK
<1>1. ASSUME QueryInv PROVE TypeOK
  <2>1. w \in Wrappers /\ Answerable(w, st) /\ IsStatement(st)
    BY <1>1 DEF QueryInv, StatementsAnswerable, Answerable
  <2>2. AreClauses(st.where)
    BY <2>1 DEF IsStatement, AreClauses
  <2>3. ASSUME NEW i \in DOMAIN quals
        PROVE  /\ quals[i].field \in Columns \cup {"j.x"}
               /\ IF quals[i].arr THEN Null \notin Range(quals[i].val) ELSE quals[i].val # Null
    <3>1. CASE phase = "parsed"
      BY <1>1, <3>1, <2>3 DEF QueryInv
    <3>2. CASE phase # "parsed"
      <4>1. quals = ExtractQuals(st.where)
        BY <1>1, <3>2 DEF QueryInv
      <4> DEFINE q == quals[i]
      <4>2. i \in DOMAIN ExtractQuals(st.where) /\ q = ExtractQuals(st.where)[i]
        BY <2>3, <4>1
      <4> HIDE DEF q
      <4>3. q.field \in Columns \cup {"j.x"} /\ IF q.arr THEN Null \notin Range(q.val) ELSE q.val # Null
        BY <2>2, <4>2, QualTypes
      <4> QED BY <4>3 DEF q
    <3> QED BY <3>1, <3>2
  <2>4. Range(sorts) \subseteq Range(st.sort)
    <3>1. CASE phase = "parsed"
      BY <1>1, <3>1 DEF QueryInv, Range
    <3>2. CASE phase # "parsed"
      <4>1. sorts = ExtractSorts(st.sort)
        BY <1>1, <3>2 DEF QueryInv
      <4>2. st.sort \in Seq(Range(st.sort))
        BY <2>1 DEF IsStatement
      <4> QED BY <4>1, <4>2, OnlyHas DEF ExtractSorts
    <3> QED BY <3>1, <3>2
  <2>5. ASSUME req # Refused PROVE req.max = All \/ req.max \in 0..MaxInt
    <3>1. req = Requested(w, st, pushed) /\ pushed \in BOOLEAN /\ Planned(w, st, pushed)
      BY <1>1, <2>5 DEF QueryInv
    <3>2. CASE pushed
      <4>1. AggregateKeeps(w, st, req)
        BY <2>1, <2>5, <3>1, <3>2, AggregateRight DEF Requested, Planned
      <4> QED BY <4>1 DEF AggregateKeeps
    <3>3. CASE ~pushed
      <4>1. AskKeeps(w, st, req)
        BY <2>1, <2>5, <3>1, <3>3, AskRight DEF Requested
      <4> QED BY <4>1 DEF AskKeeps, Limits
    <3> QED BY <3>1, <3>2, <3>3
  <2> QED BY <1>1, <2>3, <2>4, <2>5 DEF QueryInv, TypeOK
<1> QED BY <1>1, QueryInvariant, PTL
=============================================================================
