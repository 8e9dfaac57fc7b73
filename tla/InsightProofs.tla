---------------------------- MODULE InsightProofs ----------------------------
(* What a call makes of a business is consistent: proofs about Insight.       *)
EXTENDS Insight, SequenceTheorems, FiniteSetTheorems, TLAPS

-----------------------------------------------------------------------------
(* Induction, and the items of a list that are kept.                        *)

\* What holds of 0 and of the successor of each number it holds of holds of all.
LEMMA Counting ==
    ASSUME NEW S, 0 \in S, \A n \in Nat : n \in S => n + 1 \in S
    PROVE  \A n \in Nat : n \in S
<1> SUFFICES ASSUME NEW k \in Nat, k \notin S
             PROVE  FALSE
  OBVIOUS
<1> DEFINE T == Nat \ S
<1>1. PICK n \in T : \A m \in T : ~(<<m, n>> \in OpToRel(<, Nat))
  BY NatLessThanWellFounded, WFMin
<1>2. \A m \in T : ~(m < n)
  BY <1>1 DEF OpToRel
<1>3. n # 0 /\ n - 1 \in Nat
  OBVIOUS
<1>4. n - 1 \in S
  BY <1>2, <1>3
<1> QED
  BY <1>3, <1>4

\* The items at some places, among the first i, for every i.
Keeps(s, places, n, f) ==
    f = [i \in 0..n |-> IF i = 0 THEN <<>>
                        ELSE IF i \in places THEN Append(f[i - 1], s[i])
                        ELSE f[i - 1]]

\* There is such a function for each length.
LEMMA KeepsExists ==
    ASSUME NEW s, NEW places, NEW n \in Nat
    PROVE  \E f : Keeps(s, places, n, f)
<1> DEFINE S == {k \in Nat : \E f : Keeps(s, places, k, f)}
<1>1. 0 \in S
  <2> DEFINE f == [i \in 0..0 |-> <<>>]
  <2>1. Keeps(s, places, 0, f)
    BY DEF Keeps
  <2> QED
    BY <2>1
<1>2. ASSUME NEW k \in Nat, k \in S
      PROVE  k + 1 \in S
  <2>1. PICK f : Keeps(s, places, k, f)
    BY <1>2
  <2> DEFINE g == [i \in 0..(k + 1) |->
                     IF i # k + 1 THEN f[i]
                     ELSE IF i \in places THEN Append(f[k], s[i]) ELSE f[k]]
  <2>2. \A i \in 0..k : g[i] = f[i]
    OBVIOUS
  <2>3. g[k + 1] = IF k + 1 \in places THEN Append(f[k], s[k + 1]) ELSE f[k]
    OBVIOUS
  <2>4. \A i \in 0..k : f[i] = IF i = 0 THEN <<>>
                              ELSE IF i \in places THEN Append(f[i - 1], s[i])
                              ELSE f[i - 1]
    BY <2>1 DEF Keeps
  <2>5. \A i \in 0..(k + 1) : g[i] = IF i = 0 THEN <<>>
                                    ELSE IF i \in places THEN Append(g[i - 1], s[i])
                                    ELSE g[i - 1]
    BY <2>2, <2>3, <2>4
  <2>6. g = [i \in 0..(k + 1) |-> g[i]]
    OBVIOUS
  <2> HIDE DEF g
  <2>7. Keeps(s, places, k + 1, g)
    BY <2>5, <2>6 DEF Keeps
  <2> QED
    BY <2>7
<1> HIDE DEF S
<1>3. n \in S
  BY <1>1, <1>2, Counting
<1> QED
  BY <1>3 DEF S

\* r has the items that s has at some places, each of the places once.
Picks(r, s, places) ==
    /\ \A k \in DOMAIN r : \E i \in places : r[k] = s[i]
    /\ \A i \in places : \E k \in DOMAIN r : r[k] = s[i]
    /\ \A j, k \in DOMAIN r : j # k =>
          \E a, b \in places : a # b /\ r[j] = s[a] /\ r[k] = s[b]

\* One more item is picked at a place not picked from yet.
LEMMA PickOne ==
    ASSUME NEW S, NEW x \in Seq(S), NEW s, NEW P, NEW i, i \notin P, s[i] \in S,
           Picks(x, s, P)
    PROVE  Picks(Append(x, s[i]), s, P \cup {i})
<1> DEFINE y == Append(x, s[i])
           m == Len(x)
<1>1. /\ m \in Nat /\ DOMAIN x = 1..m /\ DOMAIN y = 1..(m + 1)
      /\ y[m + 1] = s[i] /\ \A k \in 1..m : y[k] = x[k]
  OBVIOUS
<1>2. \A k \in DOMAIN y : k \in DOMAIN x \/ k = m + 1
  BY <1>1
<1>3. \A k \in DOMAIN x : k \in DOMAIN y /\ y[k] = x[k] /\ k # m + 1
  BY <1>1
<1>4. m + 1 \in DOMAIN y
  BY <1>1
<1> HIDE DEF y, m
<1>5. \A k \in DOMAIN y : \E j \in P \cup {i} : y[k] = s[j]
  BY <1>1, <1>2, <1>3 DEF Picks
<1>6. \A j \in P \cup {i} : \E k \in DOMAIN y : y[k] = s[j]
  BY <1>1, <1>3, <1>4 DEF Picks
<1>7. ASSUME NEW j \in DOMAIN y, NEW k \in DOMAIN y, j # k
      PROVE  \E a, b \in P \cup {i} : a # b /\ y[j] = s[a] /\ y[k] = s[b]
  <2>1. CASE j \in DOMAIN x /\ k \in DOMAIN x
    <3>1. PICK a \in P, b \in P : a # b /\ x[j] = s[a] /\ x[k] = s[b]
      BY <1>7, <2>1 DEF Picks
    <3> QED
      BY <3>1, <2>1, <1>3
  <2>2. CASE j \in DOMAIN x /\ k = m + 1
    <3>1. PICK a \in P : x[j] = s[a]
      BY <2>2 DEF Picks
    <3>2. a # i /\ y[j] = s[a] /\ y[k] = s[i]
      BY <3>1, <2>2, <1>1, <1>3
    <3> QED
      BY <3>2
  <2>3. CASE j = m + 1 /\ k \in DOMAIN x
    <3>1. PICK b \in P : x[k] = s[b]
      BY <2>3 DEF Picks
    <3>2. b # i /\ y[k] = s[b] /\ y[j] = s[i]
      BY <3>1, <2>3, <1>1, <1>3
    <3> QED
      BY <3>2
  <2> QED
    BY <1>2, <1>7, <2>1, <2>2, <2>3
<1>8. Picks(y, s, P \cup {i})
  BY <1>5, <1>6, <1>7 DEF Picks
<1> QED
  BY <1>8 DEF y

\* What is kept of a list is picked of it.
LEMMA KeptIs ==
    ASSUME NEW S, NEW s \in Seq(S), NEW places, NEW f, Keeps(s, places, Len(s), f)
    PROVE  /\ f[Len(s)] \in Seq(S)
           /\ Picks(f[Len(s)], s, places \cap DOMAIN s)
<1> DEFINE n == Len(s)
           at(k) == places \cap (1..k)
           N == {k \in Nat : k <= n => f[k] \in Seq(S) /\ Picks(f[k], s, at(k))}
<1>1. n \in Nat /\ DOMAIN s = 1..n /\ \A i \in 1..n : s[i] \in S
  OBVIOUS
<1>2. \A i \in 0..n : f[i] = IF i = 0 THEN <<>>
                            ELSE IF i \in places THEN Append(f[i - 1], s[i])
                            ELSE f[i - 1]
  BY DEF Keeps
<1> HIDE DEF n
<1>3. 0 \in N
  <2>1. f[0] = <<>> /\ at(0) = {}
    BY <1>1, <1>2
  <2>2. f[0] \in Seq(S) /\ DOMAIN f[0] = {}
    BY <2>1
  <2>3. Picks(f[0], s, at(0))
    BY <2>1, <2>2 DEF Picks
  <2> QED
    BY <2>2, <2>3
<1>4. ASSUME NEW k \in Nat, k \in N
      PROVE  k + 1 \in N
  <2> SUFFICES ASSUME k + 1 <= n
               PROVE  f[k + 1] \in Seq(S) /\ Picks(f[k + 1], s, at(k + 1))
    OBVIOUS
  <2>1. f[k] \in Seq(S) /\ Picks(f[k], s, at(k))
    BY <1>1, <1>4
  <2>2. f[k + 1] = IF k + 1 \in places THEN Append(f[k], s[k + 1]) ELSE f[k]
    <3>1. k + 1 \in 0..n /\ k + 1 # 0 /\ (k + 1) - 1 = k
      BY <1>1
    <3> QED
      BY <3>1, <1>2
  <2>3. s[k + 1] \in S
    BY <1>1
  <2>4. CASE k + 1 \in places
    <3>1. at(k + 1) = at(k) \cup {k + 1} /\ k + 1 \notin at(k)
      BY <2>4
    <3> HIDE DEF at
    <3>2. PICK x : x = f[k]
      OBVIOUS
    <3>3. PICK i : i = k + 1
      OBVIOUS
    <3>4. x \in Seq(S) /\ Picks(x, s, at(k)) /\ s[i] \in S /\ i \notin at(k)
      BY <3>1, <3>2, <3>3, <2>1, <2>3
    <3>5. Picks(Append(x, s[i]), s, at(k) \cup {i})
      BY <3>4, PickOne
    <3>6. Append(x, s[i]) \in Seq(S)
      BY <3>4
    <3>7. f[k + 1] = Append(x, s[i])
      BY <2>2, <2>4, <3>2, <3>3
    <3>8. at(k + 1) = at(k) \cup {i}
      BY <3>1, <3>3
    <3> QED
      BY <3>5, <3>6, <3>7, <3>8
  <2>5. CASE k + 1 \notin places
    <3>1. at(k + 1) = at(k)
      BY <2>5
    <3> HIDE DEF at
    <3> QED
      BY <3>1, <2>1, <2>2, <2>5
  <2> QED
    BY <2>4, <2>5
<1> HIDE DEF N
<1>5. n \in N
  BY <1>1, <1>3, <1>4, Counting
<1>6. f[n] \in Seq(S) /\ Picks(f[n], s, at(n))
  BY <1>1, <1>5 DEF N
<1>7. at(n) = places \cap DOMAIN s
  BY <1>1
<1> HIDE DEF at
<1> QED
  BY <1>6, <1>7 DEF n

\* Only picks the items at the places.
LEMMA OnlyIs ==
    ASSUME NEW S, NEW s \in Seq(S), NEW places
    PROVE  /\ Only(s, places) \in Seq(S)
           /\ Picks(Only(s, places), s, places \cap DOMAIN s)
<1> DEFINE Of(f) == f = [n \in 0..Len(s) |->
                           IF n = 0 THEN <<>>
                           ELSE IF n \in places THEN Append(f[n - 1], s[n])
                           ELSE f[n - 1]]
<1>1. Len(s) \in Nat
  OBVIOUS
<1>2. PICK g : Keeps(s, places, Len(s), g)
  BY <1>1, KeepsExists
<1>3. Of(g)
  BY <1>2 DEF Keeps
<1>4. PICK f : Of(f) /\ Only(s, places) = f[Len(s)]
  BY <1>3 DEF Only
<1>5. Keeps(s, places, Len(s), f)
  BY <1>4 DEF Keeps
<1> QED
  BY <1>4, <1>5, KeptIs

\* OfKinds picks the findings of the kinds.
LEMMA OfKindsIs ==
    ASSUME NEW S, NEW s \in Seq(S), NEW kinds
    PROVE  /\ OfKinds(s, kinds) \in Seq(S)
           /\ Picks(OfKinds(s, kinds), s, {i \in DOMAIN s : s[i].kind \in kinds})
<1> DEFINE places == {i \in DOMAIN s : s[i].kind \in kinds}
           Of(f) == f = [i \in 0..Len(s) |->
                           IF i = 0 THEN <<>>
                           ELSE IF s[i].kind \in kinds THEN Append(f[i - 1], s[i])
                           ELSE f[i - 1]]
<1>1. Len(s) \in Nat /\ DOMAIN s = 1..Len(s)
  OBVIOUS
<1>2. \A i \in 0..Len(s) : i # 0 => (s[i].kind \in kinds <=> i \in places)
  BY <1>1
<1> HIDE DEF places
<1>3. PICK g : Keeps(s, places, Len(s), g)
  BY <1>1, KeepsExists
<1>4. Of(g)
  BY <1>2, <1>3 DEF Keeps
<1>5. PICK f : Of(f) /\ OfKinds(s, kinds) = f[Len(s)]
  BY <1>4 DEF OfKinds
<1>6. Keeps(s, places, Len(s), f)
  BY <1>2, <1>5 DEF Keeps
<1>7. places \cap DOMAIN s = places
  BY DEF places
<1> HIDE DEF Of
<1>8. f[Len(s)] \in Seq(S) /\ Picks(f[Len(s)], s, places)
  BY <1>6, <1>7, KeptIs
<1> QED
  BY <1>5, <1>8 DEF places

-----------------------------------------------------------------------------
(* The findings of a business.                                              *)

Unique(s) == \A i, j \in DOMAIN s : s[i].kind = s[j].kind => i = j

\* The latest of each kind among the first n.
Collects(s, n, f) ==
    f = [i \in 0..n |->
            IF i = 0 THEN <<>>
            ELSE IF s[i].kind \notin Kinds(f[i - 1]) THEN Append(f[i - 1], s[i])
            ELSE [k \in DOMAIN f[i - 1] |->
                    IF f[i - 1][k].kind = s[i].kind THEN s[i] ELSE f[i - 1][k]]]

\* There is such a function for each length.
LEMMA CollectsExists ==
    ASSUME NEW s, NEW n \in Nat
    PROVE  \E f : Collects(s, n, f)
<1> DEFINE Next_(q, o) ==
        IF o.kind \notin Kinds(q) THEN Append(q, o)
        ELSE [k \in DOMAIN q |-> IF q[k].kind = o.kind THEN o ELSE q[k]]
<1> DEFINE S == {k \in Nat : \E f : Collects(s, k, f)}
<1>1. 0 \in S
  <2> DEFINE f == [i \in 0..0 |-> <<>>]
  <2>1. Collects(s, 0, f)
    BY DEF Collects
  <2> QED
    BY <2>1
<1>2. ASSUME NEW k \in Nat, k \in S
      PROVE  k + 1 \in S
  <2>1. PICK f : Collects(s, k, f)
    BY <1>2
  <2> DEFINE g == [i \in 0..(k + 1) |->
                     IF i # k + 1 THEN f[i] ELSE Next_(f[k], s[i])]
  <2>2. \A i \in 0..k : f[i] = IF i = 0 THEN <<>> ELSE Next_(f[i - 1], s[i])
    BY <2>1 DEF Collects
  <2> HIDE DEF Next_
  <2>3. \A i \in 0..k : g[i] = f[i]
    OBVIOUS
  <2>4. g[k + 1] = Next_(f[k], s[k + 1])
    OBVIOUS
  <2>5. \A i \in 0..(k + 1) : g[i] = IF i = 0 THEN <<>> ELSE Next_(g[i - 1], s[i])
    BY <2>2, <2>3, <2>4
  <2>6. g = [i \in 0..(k + 1) |-> g[i]]
    OBVIOUS
  <2> HIDE DEF g
  <2>7. g = [i \in 0..(k + 1) |-> IF i = 0 THEN <<>> ELSE Next_(g[i - 1], s[i])]
    BY <2>5, <2>6
  <2>8. Collects(s, k + 1, g)
    BY <2>7 DEF Collects, Next_
  <2> QED
    BY <2>8
<1> HIDE DEF S
<1>3. n \in S
  BY <1>1, <1>2, Counting
<1> QED
  BY <1>3 DEF S

\* It is made of the sequence's own and holds each kind once.
LEMMA LastPerKindIs ==
    ASSUME NEW S, NEW s \in Seq(S)
    PROVE  LET r == LastPerKind(s)
           IN  /\ r \in Seq(S) /\ Unique(r)
               /\ \A i \in DOMAIN r : \E j \in DOMAIN s : r[i] = s[j]
<1>1. Len(s) \in Nat /\ DOMAIN s = 1..Len(s)
  OBVIOUS
<1>2. \E f : Collects(s, Len(s), f)
  BY <1>1, CollectsExists
<1>3. PICK f : Collects(s, Len(s), f) /\ LastPerKind(s) = f[Len(s)]
  BY <1>2 DEF Collects, LastPerKind
<1> DEFINE P(n) ==
        /\ f[n] \in Seq(S) /\ Unique(f[n])
        /\ \A i \in DOMAIN f[n] : \E j \in 1..n : f[n][i] = s[j]
<1> DEFINE N == {n \in Nat : n <= Len(s) => P(n)}
<1>4. 0 \in N
  <2>1. f[0] = <<>>
    BY <1>1, <1>3 DEF Collects
  <2>2. f[0] \in Seq(S) /\ DOMAIN f[0] = {}
    BY <2>1
  <2>3. Unique(f[0])
    BY <2>2 DEF Unique
  <2> QED
    BY <2>2, <2>3
<1>5. ASSUME NEW n \in Nat, n \in N
      PROVE  n + 1 \in N
  <2> SUFFICES ASSUME n + 1 <= Len(s)
               PROVE  P(n + 1)
    OBVIOUS
  <2> DEFINE q == f[n]
             r == f[n + 1]
             o == s[n + 1]
  <2>1. P(n)
    BY <1>1, <1>5
  <2>2. r = IF o.kind \notin Kinds(q) THEN Append(q, o)
            ELSE [k \in DOMAIN q |-> IF q[k].kind = o.kind THEN o ELSE q[k]]
    <3>1. \A i \in 0..Len(s) : f[i] = IF i = 0 THEN <<>>
              ELSE IF s[i].kind \notin Kinds(f[i - 1]) THEN Append(f[i - 1], s[i])
              ELSE [k \in DOMAIN f[i - 1] |->
                      IF f[i - 1][k].kind = s[i].kind THEN s[i] ELSE f[i - 1][k]]
      BY <1>3 DEF Collects
    <3>2. n + 1 \in 0..Len(s) /\ n + 1 # 0 /\ (n + 1) - 1 = n
      BY <1>1
    <3> HIDE DEF P, N
    <3> QED
      BY <3>1, <3>2
  <2>3. /\ o \in S
        /\ q \in Seq(S) /\ Len(q) \in Nat /\ DOMAIN q = 1..Len(q)
        /\ \A i \in DOMAIN q : q[i] \in S
    BY <1>1, <2>1
  <2>4. \A i \in DOMAIN q : \E j \in 1..(n + 1) : q[i] = s[j]
    BY <2>1
  <2>5. Unique(q)
    BY <2>1
  <2> HIDE DEF q, r, P
  <2>6. CASE o.kind \in Kinds(q)
    <3>1. r = [k \in 1..Len(q) |-> IF q[k].kind = o.kind THEN o ELSE q[k]]
      BY <2>2, <2>3, <2>6
    <3>2. r \in Seq(S) /\ DOMAIN r = DOMAIN q
      <4>1. \A k \in 1..Len(q) : (IF q[k].kind = o.kind THEN o ELSE q[k]) \in S
        BY <2>3
      <4> HIDE DEF o
      <4> QED
        BY <2>3, <3>1, <4>1
    <3>3. \A i \in DOMAIN q : r[i] = IF q[i].kind = o.kind THEN o ELSE q[i]
      BY <2>3, <3>1
    <3>4. \A i \in DOMAIN q : r[i].kind = q[i].kind
      BY <3>3
    <3>5. Unique(r)
      BY <2>5, <3>2, <3>4 DEF Unique
    <3>6. \A i \in DOMAIN r : \E j \in 1..(n + 1) : r[i] = s[j]
      BY <2>4, <3>2, <3>3
    <3> QED
      BY <3>2, <3>5, <3>6 DEF P, r
  <2>7. CASE o.kind \notin Kinds(q)
    <3>1. r = Append(q, o)
      BY <2>2, <2>7
    <3>2. /\ r \in Seq(S) /\ DOMAIN r = 1..(Len(q) + 1)
          /\ r[Len(q) + 1] = o /\ \A i \in DOMAIN q : r[i] = q[i]
      BY <2>3, <3>1
    <3>3. \A k \in DOMAIN r : k \in DOMAIN q \/ k = Len(q) + 1
      BY <2>3, <3>2
    <3>4. \A i \in DOMAIN r : \E j \in 1..(n + 1) : r[i] = s[j]
      BY <2>4, <3>2, <3>3
    <3>5. \A i \in DOMAIN q : q[i].kind # o.kind
      BY <2>7 DEF Kinds
    <3> HIDE DEF o
    <3>6. \A i, j \in DOMAIN r : r[i].kind = r[j].kind => i = j
      BY <2>5, <3>2, <3>3, <3>5 DEF Unique
    <3>7. Unique(r)
      BY <3>6 DEF Unique
    <3> QED
      BY <3>2, <3>4, <3>7 DEF P, r
  <2> QED
    BY <2>6, <2>7
<1> HIDE DEF N
<1>6. Len(s) \in N
  BY <1>1, <1>4, <1>5, Counting
<1>7. P(Len(s))
  BY <1>1, <1>6 DEF N
<1> QED
  BY <1>1, <1>3, <1>7

\* One finding of each kind is not too many to be kept.
LEMMA UniqueFits ==
    ASSUME NEW K, IsFiniteSet(K), Cardinality(K) <= MaxKept,
           NEW S, \A x \in S : x.kind \in K, NEW s \in Seq(S), Unique(s)
    PROVE  Len(s) <= MaxKept
<1> DEFINE f == [i \in 1..Len(s) |-> s[i].kind]
<1>1. Len(s) \in Nat /\ DOMAIN s = 1..Len(s) /\ \A i \in 1..Len(s) : s[i] \in S
  OBVIOUS
<1>2. f \in [1..Len(s) -> K]
  BY <1>1
<1>3. \A i, j \in 1..Len(s) : f[i] = f[j] => i = j
  BY <1>1 DEF Unique
<1> HIDE DEF f
<1>4. f \in Injection(1..Len(s), K)
  BY <1>2, <1>3 DEF Injection, IsInjective
<1>5. Cardinality(1..Len(s)) <= Cardinality(K)
  BY <1>4, FS_Injection
<1>6. Cardinality(1..Len(s)) = Len(s)
  <2>1. 1 \in Int /\ Len(s) \in Int
    BY <1>1
  <2> QED
    BY <2>1, <1>1, FS_Interval
<1>7. Cardinality(K) \in Nat
  BY FS_CardinalityType
<1> QED
  BY <1>1, <1>5, <1>6, <1>7 DEF MaxKept

\* The kinds of facts and of problems are few enough to be kept.
LEMMA FewKinds ==
    /\ IsFiniteSet(FactKinds) /\ Cardinality(FactKinds) <= MaxKept
    /\ IsFiniteSet(ProblemKinds) /\ Cardinality(ProblemKinds) <= MaxKept
<1> DEFINE f == <<"industry", "business_type", "branches", "employees",
                  "current_workflow", "manual_step", "software", "integration",
                  "reporting", "communication", "website", "crm">>
           g == <<"operational", "technical", "marketing", "sales", "financial",
                  "customer_experience", "time", "quality", "errors", "follow_ups">>
<1>1. /\ IsFiniteSet(1..12) /\ Cardinality(1..12) = 12
      /\ IsFiniteSet(1..10) /\ Cardinality(1..10) = 10
  <2>1. 1 \in Int /\ 10 \in Int /\ 12 \in Int
    OBVIOUS
  <2>2. /\ IsFiniteSet(1..12)
        /\ Cardinality(1..12) = IF 1 > 12 THEN 0 ELSE 12 - 1 + 1
    BY <2>1, FS_Interval, Zenon
  <2>3. /\ IsFiniteSet(1..10)
        /\ Cardinality(1..10) = IF 1 > 10 THEN 0 ELSE 10 - 1 + 1
    BY <2>1, FS_Interval, Zenon
  <2> QED
    BY <2>2, <2>3
<1>2. f \in Surjection(1..12, FactKinds)
  <2>1. f \in [1..12 -> FactKinds]
    BY DEF FactKinds
  <2>2. \A k \in FactKinds : \E i \in 1..12 : f[i] = k
    <3>1. /\ f[1] = "industry" /\ f[2] = "business_type" /\ f[3] = "branches"
          /\ f[4] = "employees" /\ f[5] = "current_workflow" /\ f[6] = "manual_step"
          /\ f[7] = "software" /\ f[8] = "integration" /\ f[9] = "reporting"
          /\ f[10] = "communication" /\ f[11] = "website" /\ f[12] = "crm"
      OBVIOUS
    <3>2. {1, 2, 3, 4, 5, 6, 7, 8, 9, 10, 11, 12} \subseteq 1..12
      OBVIOUS
    <3> HIDE DEF f
    <3> QED
      BY <3>1, <3>2 DEF FactKinds
  <2> QED
    BY <2>1, <2>2 DEF Surjection
<1>3. g \in Surjection(1..10, ProblemKinds)
  <2>1. g \in [1..10 -> ProblemKinds]
    BY DEF ProblemKinds
  <2>2. \A k \in ProblemKinds : \E i \in 1..10 : g[i] = k
    <3>1. /\ g[1] = "operational" /\ g[2] = "technical" /\ g[3] = "marketing"
          /\ g[4] = "sales" /\ g[5] = "financial" /\ g[6] = "customer_experience"
          /\ g[7] = "time" /\ g[8] = "quality" /\ g[9] = "errors"
          /\ g[10] = "follow_ups"
      OBVIOUS
    <3>2. {1, 2, 3, 4, 5, 6, 7, 8, 9, 10} \subseteq 1..10
      OBVIOUS
    <3> HIDE DEF g
    <3> QED
      BY <3>1, <3>2 DEF ProblemKinds
  <2> QED
    BY <2>1, <2>2 DEF Surjection
<1> HIDE DEF f, g
<1>4. IsFiniteSet(FactKinds) /\ Cardinality(FactKinds) <= 12
  BY <1>1, <1>2, FS_Surjection
<1>5. IsFiniteSet(ProblemKinds) /\ Cardinality(ProblemKinds) <= 10
  BY <1>1, <1>3, FS_Surjection
<1>6. Cardinality(FactKinds) \in Nat /\ Cardinality(ProblemKinds) \in Nat
  BY <1>4, <1>5, FS_CardinalityType
<1> QED
  BY <1>4, <1>5, <1>6 DEF MaxKept

\* What a turn leaves of the current findings: one of each kind, with all that
\* the turn says nothing of.
LEMMA ReconcileIs ==
    ASSUME NEW K, IsFiniteSet(K), Cardinality(K) <= MaxKept,
           NEW S, \A x \in S : x.kind \in K, NEW current \in Seq(S), Unique(current),
           NEW incoming \in Seq(S), NEW corrections
    PROVE  LET r == Reconcile(current, incoming, corrections)
           IN  /\ r \in Seq(S) /\ Unique(r)
               /\ \A j \in DOMAIN current :
                      current[j].kind \notin Affected(incoming, corrections) =>
                          \E i \in DOMAIN r : r[i] = current[j]
<1> DEFINE gone == Affected(incoming, corrections)
           kept == Kinds(current) \ gone
           a == OfKinds(current, kept)
           b == LastPerKind(incoming)
           s == a \o b
           places == {i \in DOMAIN current : current[i].kind \in kept}
<1>1. a \in Seq(S) /\ Picks(a, current, places)
  BY OfKindsIs
<1>2. /\ b \in Seq(S) /\ Unique(b)
      /\ \A i \in DOMAIN b : \E j \in DOMAIN incoming : b[i] = incoming[j]
  BY LastPerKindIs
<1>3. \A j \in DOMAIN incoming : incoming[j].kind \in gone
  BY DEF Affected, Kinds
<1>4. \A i \in places : i \in DOMAIN current /\ current[i].kind \notin gone
  OBVIOUS
<1>5. \A i \in DOMAIN current : current[i].kind \notin gone => i \in places
  BY DEF Kinds
<1> HIDE DEF a, b, places, kept, gone
<1>6. /\ s \in Seq(S)
      /\ \A i \in DOMAIN a : i \in DOMAIN s /\ s[i] = a[i]
      /\ \A i \in DOMAIN s : \/ i \in DOMAIN a /\ s[i] = a[i]
                             \/ /\ i \notin DOMAIN a /\ i - Len(a) \in DOMAIN b
                                /\ s[i] = b[i - Len(a)]
  BY <1>1, <1>2
<1>7. Unique(a)
  <2> SUFFICES ASSUME NEW i \in DOMAIN a, NEW j \in DOMAIN a, i # j
               PROVE  a[i].kind # a[j].kind
    BY DEF Unique
  <2>1. PICK k \in places, l \in places : k # l /\ a[i] = current[k] /\ a[j] = current[l]
    BY <1>1 DEF Picks
  <2> QED
    BY <2>1, <1>4 DEF Unique
<1>8. Unique(s)
  <2> SUFFICES ASSUME NEW i \in DOMAIN s, NEW j \in DOMAIN s, s[i].kind = s[j].kind
               PROVE  i = j
    BY DEF Unique
  <2>1. ASSUME NEW x \in DOMAIN a, NEW y \in DOMAIN b
        PROVE  a[x].kind # b[y].kind
    <3>1. PICK k \in places : a[x] = current[k]
      BY <1>1 DEF Picks
    <3>2. PICK l \in DOMAIN incoming : b[y] = incoming[l]
      BY <1>2
    <3> QED
      BY <3>1, <3>2, <1>3, <1>4
  <2> HIDE DEF s
  <2>2. i \in Nat /\ j \in Nat /\ Len(a) \in Nat
    BY <1>1, <1>6
  <2>3. CASE i \in DOMAIN a /\ j \in DOMAIN a
    BY <1>6, <1>7, <2>3 DEF Unique
  <2>4. CASE i \notin DOMAIN a /\ j \notin DOMAIN a
    <3>1. /\ i - Len(a) \in DOMAIN b /\ s[i] = b[i - Len(a)]
          /\ j - Len(a) \in DOMAIN b /\ s[j] = b[j - Len(a)]
      BY <1>6, <2>4
    <3>2. i - Len(a) = j - Len(a)
      BY <1>2, <3>1 DEF Unique
    <3> QED
      BY <2>2, <3>2
  <2>5. CASE i \in DOMAIN a /\ j \notin DOMAIN a
    BY <1>6, <2>1, <2>5
  <2>6. CASE i \notin DOMAIN a /\ j \in DOMAIN a
    BY <1>6, <2>1, <2>6
  <2> QED
    BY <2>3, <2>4, <2>5, <2>6
<1>9. Reconcile(current, incoming, corrections) = Latest(s)
  BY DEF Reconcile, s, a, b, kept, gone
<1> HIDE DEF s
<1>10. Latest(s) = s
  <2>1. Len(s) <= MaxKept
    BY <1>6, <1>8, UniqueFits
  <2> QED
    BY <2>1 DEF Latest
<1>11. \A j \in DOMAIN current : current[j].kind \notin gone =>
           \E i \in DOMAIN s : s[i] = current[j]
  BY <1>1, <1>5, <1>6 DEF Picks
<1> QED
  BY <1>6, <1>8, <1>9, <1>10, <1>11 DEF gone

\* A sequence is the end of another.
EndOf(r, s) == \E d \in Nat : \A i \in DOMAIN r :
                   i + d \in DOMAIN s /\ r[i] = s[i + d]

\* The last k of a sequence, or all of it.
LastOf(s, k) == IF Len(s) <= k THEN s ELSE SubSeq(s, Len(s) - k + 1, Len(s))

\* The last so many of a sequence are its end.
LEMMA LastOfIs ==
    ASSUME NEW S, NEW s \in Seq(S), NEW k \in Nat \ {0}
    PROVE  /\ LastOf(s, k) \in Seq(S)
           /\ EndOf(LastOf(s, k), s)
           /\ Len(LastOf(s, k)) = IF Len(s) <= k THEN Len(s) ELSE k
<1> DEFINE r == LastOf(s, k)
<1>1. Len(s) \in Nat /\ DOMAIN s = 1..Len(s) /\ \A i \in 1..Len(s) : s[i] \in S
  OBVIOUS
<1>2. CASE Len(s) <= k
  <2>1. r = s
    BY <1>2 DEF LastOf
  <2>2. \A i \in DOMAIN s : i + 0 \in DOMAIN s /\ s[i] = s[i + 0]
    BY <1>1
  <2> QED
    BY <1>2, <2>1, <2>2 DEF EndOf
<1>3. CASE Len(s) > k
  <2>1. PICK n \in Nat : n = Len(s)
    BY <1>1
  <2>2. PICK d \in Nat : n = k + d
    <3>1. n - k \in Nat /\ n = k + (n - k)
      BY <1>3, <2>1
    <3> QED
      BY <3>1
  <2>3. r = SubSeq(s, d + 1, n)
    <3>1. n - k + 1 = d + 1
      BY <2>2
    <3> QED
      BY <1>1, <1>3, <2>1, <3>1 DEF LastOf
  <2>4. /\ d + 1 \in Int /\ n \in Int /\ d + 1 <= n /\ n - (d + 1) + 1 = k
        /\ \A i \in (d + 1)..n : s[i] \in S
    BY <1>1, <2>1, <2>2
  <2> HIDE DEF r
  <2>5. /\ SubSeq(s, d + 1, n) \in Seq(S)
        /\ Len(SubSeq(s, d + 1, n)) = IF d + 1 <= n THEN n - (d + 1) + 1 ELSE 0
        /\ \A i \in 1..(n - (d + 1) + 1) : SubSeq(s, d + 1, n)[i] = s[(d + 1) + i - 1]
    BY <2>4, SubSeqProperties
  <2>6. r \in Seq(S) /\ Len(r) = k
    BY <2>3, <2>4, <2>5
  <2>7. DOMAIN r = 1..k
    BY <2>6
  <2>8. \A i \in 1..k : i + d \in 1..n /\ (d + 1) + i - 1 = i + d
    BY <2>2
  <2>9. \A i \in 1..k : r[i] = s[i + d]
    BY <2>3, <2>4, <2>5, <2>8
  <2>10. EndOf(r, s)
    BY <1>1, <2>1, <2>7, <2>8, <2>9 DEF EndOf
  <2> QED
    BY <1>3, <2>6, <2>10 DEF r
<1> QED
  BY <1>1, <1>2, <1>3

\* What is kept of a list is of it, and there is some if it has any.
LEMMA LatestIs ==
    ASSUME NEW S, NEW s \in Seq(S)
    PROVE  /\ Latest(s) \in Seq(S)
           /\ \A i \in DOMAIN Latest(s) : \E j \in DOMAIN s : Latest(s)[i] = s[j]
           /\ Latest(s) = <<>> => s = <<>>
<1>1. Latest(s) = LastOf(s, MaxKept) /\ MaxKept \in Nat \ {0}
  BY DEF Latest, LastOf, MaxKept
<1> DEFINE r == Latest(s)
<1>2. r \in Seq(S) /\ EndOf(r, s) /\ Len(r) = IF Len(s) <= MaxKept THEN Len(s) ELSE MaxKept
  BY <1>1, LastOfIs
<1> HIDE DEF r
<1>3. \A i \in DOMAIN r : \E j \in DOMAIN s : r[i] = s[j]
  BY <1>2 DEF EndOf
<1>4. r = <<>> => s = <<>>
  <2>1. Len(s) \in Nat /\ (Len(s) = 0 => s = <<>>)
    OBVIOUS
  <2>2. r = <<>> => Len(r) = 0
    OBVIOUS
  <2> QED
    BY <1>1, <1>2, <2>1, <2>2
<1> QED
  BY <1>2, <1>3, <1>4 DEF r

\* What a turn leaves of the archive: of what was archived and of what the turn
\* speaks of, and nothing only if there was nothing to archive.
LEMMA ArchiveIs ==
    ASSUME NEW S, NEW archived \in Seq(S), NEW current \in Seq(S),
           NEW incoming, NEW corrections
    PROVE  LET r == Archive(archived, current, incoming, corrections)
           IN  /\ r \in Seq(S)
               /\ \A i \in DOMAIN r : \/ \E j \in DOMAIN archived : r[i] = archived[j]
                                      \/ \E j \in DOMAIN current : r[i] = current[j]
               /\ r = <<>> =>
                      /\ archived = <<>>
                      /\ \A j \in DOMAIN current :
                            current[j].kind \notin Affected(incoming, corrections)
<1> DEFINE gone == Affected(incoming, corrections)
           b == OfKinds(current, gone)
           s == archived \o b
           places == {i \in DOMAIN current : current[i].kind \in gone}
           r == Archive(archived, current, incoming, corrections)
<1>1. b \in Seq(S) /\ Picks(b, current, places)
  BY OfKindsIs
<1>2. \A i \in DOMAIN current : current[i].kind \in gone <=> i \in places
  OBVIOUS
<1>3. places \subseteq DOMAIN current
  OBVIOUS
<1>4. r = Latest(s)
  BY DEF Archive
<1> HIDE DEF b, places, gone
<1>5. /\ s \in Seq(S)
      /\ \A i \in DOMAIN s : \/ i \in DOMAIN archived /\ s[i] = archived[i]
                             \/ i - Len(archived) \in DOMAIN b
                                /\ s[i] = b[i - Len(archived)]
      /\ s = <<>> => archived = <<>> /\ b = <<>>
  BY <1>1
<1> HIDE DEF s, r
<1>6. /\ r \in Seq(S)
      /\ \A i \in DOMAIN r : \E k \in DOMAIN s : r[i] = s[k]
      /\ r = <<>> => s = <<>>
  BY <1>4, <1>5, LatestIs
<1>7. \A i \in DOMAIN b : \E j \in DOMAIN current : b[i] = current[j]
  BY <1>1, <1>3 DEF Picks
<1>8. \A i \in DOMAIN r : \/ \E j \in DOMAIN archived : r[i] = archived[j]
                          \/ \E j \in DOMAIN current : r[i] = current[j]
  <2> TAKE i \in DOMAIN r
  <2>1. PICK k \in DOMAIN s : r[i] = s[k]
    BY <1>6
  <2> QED
    BY <2>1, <1>5, <1>7
<1>9. r = <<>> => /\ archived = <<>>
                  /\ \A j \in DOMAIN current : current[j].kind \notin gone
  <2> SUFFICES ASSUME r = <<>>
               PROVE  archived = <<>> /\ places = {}
    BY <1>2
  <2>1. archived = <<>> /\ b = <<>>
    BY <1>5, <1>6
  <2>2. DOMAIN b = {}
    BY <2>1
  <2> QED
    BY <2>1, <2>2, <1>1 DEF Picks
<1> QED
  BY <1>6, <1>8, <1>9 DEF r, gone

-----------------------------------------------------------------------------
(* The invariant.                                                           *)

\* What is said of a kind, in a turn.
Said(K) == [kind : K, value : Values, source : Nat]

\* One finding of each kind stands, and the replaced ones are findings too.
BusinessOf(b) ==
    /\ b.facts \in Seq(Said(FactKinds)) /\ Unique(b.facts)
    /\ b.problems \in Seq(Said(ProblemKinds)) /\ Unique(b.problems)
    /\ b.archivedFacts \in Seq(Said(FactKinds))
    /\ b.archivedProblems \in Seq(Said(ProblemKinds))

\* What the business is at any time.
BusinessInv == turn \in Nat /\ BusinessOf(business)

\* Nothing was ever taken back.
Kept(b) == b.archivedFacts = <<>> /\ b.archivedProblems = <<>>

\* As long as nothing is taken back, the focus only moves up.
Rank == [lead_handling |-> 1, workflow |-> 2, website_performance |-> 3,
         reporting |-> 4, business_context |-> 5]

\* A priority that will not be asked about again: it is explored, it is about to
\* be, or the focus has moved past it.
Settled(p, s) ==
    \/ p \in s.memory.explored
    \/ p = s.priority /\ s.decision = "ask_one"
    \/ Rank[p] > Rank[s.priority]

\* A steering of a business, and the priorities asked about: nothing is asked
\* about twice because what was asked about is settled.
SteeringOf(b, s, q) ==
    /\ s \in Steerings \cup {None}
    /\ q \in Seq(Priorities)
    /\ s = None => q = <<>>
    /\ s # None =>
          /\ s.priority = PriorityOfFocus[Focus(b.facts, b.problems)]
          /\ s.memory.refused = {} /\ s.memory.deferred = {}
          /\ Kept(b) =>
                /\ s.memory.corrected = {}
                /\ \A i \in DOMAIN q : Settled(q[i], s)
    /\ Kept(b) => IsInjective(q)

\* What steering a business is at any time.
SteeringInv == SteeringOf(business, steering, asked)

-----------------------------------------------------------------------------
(* What a turn makes of the findings.                                       *)

\* The evidence of a turn speaks of that turn.
LEMMA DatedIs ==
    ASSUME NEW K, NEW s \in Seq([kind : K, value : Values]), NEW n \in Nat
    PROVE  Dated(s, n) \in Seq(Said(K))
<1> DEFINE R == [kind : K, value : Values]
<1>1. Len(s) \in Nat /\ DOMAIN s = 1..Len(s)
  OBVIOUS
<1> HIDE DEF R
<1>2. \A i \in 1..Len(s) : s[i] \in R
  <2>1. s \in Seq(R)
    BY DEF R
  <2> QED
    BY <2>1
<1>3. \A i \in 1..Len(s) : [kind |-> s[i].kind, value |-> s[i].value, source |-> n]
                               \in Said(K)
  BY <1>2 DEF Said, R
<1>4. Dated(s, n) = [i \in 1..Len(s) |->
                       [kind |-> s[i].kind, value |-> s[i].value, source |-> n]]
  BY <1>1 DEF Dated
<1> QED
  BY <1>1, <1>3, <1>4

\* The archive holds what was there or was current.
Archives(new, old, current) ==
    \A i \in DOMAIN new : \/ \E j \in DOMAIN old : new[i] = old[j]
                          \/ \E j \in DOMAIN current : new[i] = current[j]

\* The kinds of findings that stand stay if nothing is taken back.
Grows(b, heard) ==
    Kept(heard) => /\ Kept(b)
                   /\ Kinds(b.facts) \subseteq Kinds(heard.facts)
                   /\ Kinds(b.problems) \subseteq Kinds(heard.problems)

\* One kind of findings after a turn: it is what the turn leaves of it, and all
\* that was there if nothing is archived.
LEMMA FindingsAfter ==
    ASSUME NEW K, IsFiniteSet(K), Cardinality(K) <= MaxKept,
           NEW current \in Seq(Said(K)), Unique(current), NEW archived \in Seq(Said(K)),
           NEW incoming \in Seq(Said(K)), NEW corrections
    PROVE  LET now == Reconcile(current, incoming, corrections)
               past == Archive(archived, current, incoming, corrections)
           IN  /\ now \in Seq(Said(K)) /\ Unique(now)
               /\ past \in Seq(Said(K)) /\ Archives(past, archived, current)
               /\ past = <<>> => archived = <<>> /\ Kinds(current) \subseteq Kinds(now)
<1> DEFINE now == Reconcile(current, incoming, corrections)
           past == Archive(archived, current, incoming, corrections)
           gone == Affected(incoming, corrections)
           S == Said(K)
<1>1. \A x \in S : x.kind \in K
  BY DEF Said
<1> HIDE DEF S
<1>2. /\ current \in Seq(S) /\ archived \in Seq(S) /\ incoming \in Seq(S)
  BY DEF S
<1>3. /\ now \in Seq(S) /\ Unique(now)
      /\ \A j \in DOMAIN current : current[j].kind \notin gone =>
             \E i \in DOMAIN now : now[i] = current[j]
  BY <1>1, <1>2, ReconcileIs
<1>4. /\ past \in Seq(S)
      /\ \A i \in DOMAIN past : \/ \E j \in DOMAIN archived : past[i] = archived[j]
                                \/ \E j \in DOMAIN current : past[i] = current[j]
      /\ past = <<>> => /\ archived = <<>>
                        /\ \A j \in DOMAIN current : current[j].kind \notin gone
  BY <1>2, ArchiveIs
<1> HIDE DEF now, past, gone
<1>5. past = <<>> => archived = <<>> /\ Kinds(current) \subseteq Kinds(now)
  <2> SUFFICES ASSUME past = <<>>
               PROVE  archived = <<>> /\ Kinds(current) \subseteq Kinds(now)
    OBVIOUS
  <2>1. ASSUME NEW k \in Kinds(current)
        PROVE  k \in Kinds(now)
    <3>1. PICK j \in DOMAIN current : k = current[j].kind
      BY DEF Kinds
    <3>2. PICK i \in DOMAIN now : now[i] = current[j]
      BY <1>3, <1>4
    <3> QED
      BY <3>1, <3>2 DEF Kinds
  <2> QED
    BY <2>1, <1>4
<1> QED
  BY <1>3, <1>4, <1>5 DEF Archives, S, now, past

\* What a turn makes of the business.
LEMMA FiledIs ==
    ASSUME EvidenceAssumption, BusinessInv, NEW e \in Evidence
    PROVE  LET heard == Filed(e)
           IN  /\ BusinessOf(heard)
               /\ Grows(business, heard)
               /\ Archives(heard.archivedFacts, business.archivedFacts, business.facts)
               /\ Archives(heard.archivedProblems, business.archivedProblems,
                           business.problems)
<1> DEFINE facts == Dated(e.facts, turn + 1)
           problems == Dated(e.problems, turn + 1)
           c == e.corrections
           nf == Reconcile(business.facts, facts, c)
           np == Reconcile(business.problems, problems, c)
           af == Archive(business.archivedFacts, business.facts, facts, c)
           ap == Archive(business.archivedProblems, business.problems, problems, c)
           nu == (business.unknown \cup e.unknown) \ KnownAreas(nf)
           heard == Filed(e)
<1>1. turn + 1 \in Nat /\ BusinessOf(business)
  BY DEF BusinessInv
<1>2. /\ e.facts \in Seq([kind : FactKinds, value : Values])
      /\ e.problems \in Seq([kind : ProblemKinds, value : Values])
  BY DEF EvidenceAssumption
<1>3. facts \in Seq(Said(FactKinds)) /\ problems \in Seq(Said(ProblemKinds))
  BY <1>1, <1>2, DatedIs
<1>4. heard = [facts |-> nf, problems |-> np, unknown |-> nu,
               causes |-> Hypotheses(nf, np), archivedFacts |-> af,
               archivedProblems |-> ap]
  BY DEF Filed, UpdateBusiness
<1> HIDE DEF facts, problems, heard
<1>5. /\ nf \in Seq(Said(FactKinds)) /\ Unique(nf)
      /\ af \in Seq(Said(FactKinds))
      /\ Archives(af, business.archivedFacts, business.facts)
      /\ af = <<>> => /\ business.archivedFacts = <<>>
                      /\ Kinds(business.facts) \subseteq Kinds(nf)
  BY <1>1, <1>3, FewKinds, FindingsAfter DEF BusinessOf
<1>6. /\ np \in Seq(Said(ProblemKinds)) /\ Unique(np)
      /\ ap \in Seq(Said(ProblemKinds))
      /\ Archives(ap, business.archivedProblems, business.problems)
      /\ ap = <<>> => /\ business.archivedProblems = <<>>
                      /\ Kinds(business.problems) \subseteq Kinds(np)
  BY <1>1, <1>3, FewKinds, FindingsAfter DEF BusinessOf
<1> HIDE DEF nf, np, af, ap, nu, c
<1>7. /\ heard.facts = nf /\ heard.problems = np
      /\ heard.archivedFacts = af /\ heard.archivedProblems = ap
  BY <1>4
<1>8. BusinessOf(heard)
  BY <1>5, <1>6, <1>7 DEF BusinessOf
<1>9. Grows(business, heard)
  BY <1>5, <1>6, <1>7 DEF Grows, Kept
<1> QED
  BY <1>5, <1>6, <1>7, <1>8, <1>9 DEF heard

-----------------------------------------------------------------------------
(* Steering asks once.                                                      *)

\* Every focus has its priority, and every priority its rank.
LEMMA FocusIs ==
    ASSUME NEW facts, NEW problems
    PROVE  /\ PriorityOfFocus[Focus(facts, problems)] \in Priorities
           /\ Rank[PriorityOfFocus[Focus(facts, problems)]] =
                  IF "follow_ups" \in Kinds(problems) THEN 1
                  ELSE IF \/ Kinds(facts) \cap {"manual_step", "current_workflow"} # {}
                          \/ "errors" \in Kinds(problems) THEN 2
                  ELSE IF "website" \in Kinds(facts) THEN 3
                  ELSE IF "reporting" \in Kinds(facts) THEN 4 ELSE 5
<1>1. Focus(facts, problems) \in DOMAIN PriorityOfFocus
  BY DEF Focus, PriorityOfFocus
<1>2. PriorityOfFocus[Focus(facts, problems)] \in Priorities
  BY <1>1 DEF Priorities
<1>3. /\ Rank[PriorityOfFocus["lead_management"]] = 1
      /\ Rank[PriorityOfFocus["workflow"]] = 2
      /\ Rank[PriorityOfFocus["website_performance"]] = 3
      /\ Rank[PriorityOfFocus["reporting"]] = 4
      /\ Rank[PriorityOfFocus["business_context"]] = 5
  BY DEF Rank, PriorityOfFocus
<1> QED
  BY <1>2, <1>3 DEF Focus

\* While kinds are only added, the focus never moves down.
LEMMA FocusMovesUp ==
    ASSUME NEW b, NEW heard, Kinds(b.facts) \subseteq Kinds(heard.facts),
           Kinds(b.problems) \subseteq Kinds(heard.problems)
    PROVE  Rank[PriorityOfFocus[Focus(heard.facts, heard.problems)]]
               <= Rank[PriorityOfFocus[Focus(b.facts, b.problems)]]
<1> DEFINE r(c) == Rank[PriorityOfFocus[Focus(c.facts, c.problems)]]
<1>1. \A c \in {b, heard} :
          r(c) = IF "follow_ups" \in Kinds(c.problems) THEN 1
                 ELSE IF \/ Kinds(c.facts) \cap {"manual_step", "current_workflow"} # {}
                         \/ "errors" \in Kinds(c.problems) THEN 2
                 ELSE IF "website" \in Kinds(c.facts) THEN 3
                 ELSE IF "reporting" \in Kinds(c.facts) THEN 4 ELSE 5
  BY FocusIs
<1> HIDE DEF r
<1>2. r(heard) <= r(b)
  BY <1>1
<1> QED
  BY <1>2 DEF r

\* A steering is well formed.
LEMMA SteerIs ==
    ASSUME NEW b, NEW mode, NEW prior \in Steerings \cup {None},
           prior = None \/ prior \in Steerings
    PROVE  Steer(b, mode, prior) \in Steerings
<1> DEFINE priority == PriorityOfFocus[Diagnosis(b).focus]
           memory == Curiosity(b, prior, priority)
           status == DiscoveryStatus(memory, priority, prior)
           pending == IF prior = None THEN None
                      ELSE IF prior.priority = priority THEN None
                      ELSE prior.priority
<1>1. priority \in Priorities
  BY FocusIs DEF Diagnosis
<1> HIDE DEF priority
<1>2. memory \in [explored : SUBSET Priorities, refused : SUBSET Priorities,
                  deferred : SUBSET Priorities, corrected : SUBSET Priorities]
  <2> DEFINE M == [explored : SUBSET Priorities, refused : SUBSET Priorities,
                   deferred : SUBSET Priorities, corrected : SUBSET Priorities]
  <2>1. NoCuriosity \in M
    BY DEF NoCuriosity
  <2>2. prior # None => prior.memory \in M
    BY DEF Steerings
  <2>3. PICK m \in M : m = IF prior = None THEN NoCuriosity ELSE prior.memory
    BY <2>1, <2>2
  <2>4. PICK x \in SUBSET Priorities, y \in SUBSET Priorities :
            memory = [m EXCEPT !.explored = @ \cup x, !.corrected = @ \cup y]
    <3>1. {priority} \in SUBSET Priorities /\ {} \in SUBSET Priorities
      BY <1>1
    <3> QED
      BY <2>3, <3>1 DEF Curiosity
  <2> QED
    BY <2>4
<1> HIDE DEF memory
<1>3. status \in {"blocked", "deferred", "complete", "in_progress", "required"}
  BY DEF DiscoveryStatus
<1>4. pending \in Priorities \cup {None}
  BY DEF Steerings
<1> HIDE DEF status, pending
<1>5. Evolution(memory, priority, prior) \in
          {"blocked", "deferred", "raised", "replaced", "lowered", "unchanged"}
  BY DEF Evolution
<1>6. Budget(memory, priority, mode) \in {"exhausted", "limited", "open"}
  BY DEF Budget
<1>7. QuestionDecision(memory, priority, mode) \in
          {"ask_none", "defer", "wait_for_customer", "ask_one"}
  BY DEF QuestionDecision
<1>8. Readiness(status) \in {"no_action", "ready_for_playbook", "understand_more"}
  BY DEF Readiness
<1>9. Steer(b, mode, prior) =
          [priority |-> priority, memory |-> memory, status |-> status,
           pending |-> pending, evolution |-> Evolution(memory, priority, prior),
           budget |-> Budget(memory, priority, mode),
           decision |-> QuestionDecision(memory, priority, mode),
           readiness |-> Readiness(status)]
  BY DEF Steer, priority, memory, status, pending
<1> QED
  BY <1>1, <1>2, <1>3, <1>4, <1>5, <1>6, <1>7, <1>8, <1>9 DEF Steerings

\* What steering remembers of a turn.
LEMMA CuriosityIs ==
    ASSUME NEW b, NEW prior \in Steerings \cup {None}, NEW p,
           prior # None => prior.memory.refused = {} /\ prior.memory.deferred = {}
    PROVE  LET m == Curiosity(b, prior, p)
           IN  /\ m.refused = {} /\ m.deferred = {}
               /\ prior = None => m.explored = {}
               /\ prior # None =>
                     m.explored = prior.memory.explored \cup
                         (IF prior.priority = p /\ prior.decision = "ask_one"
                          THEN {p} ELSE {})
               /\ Kept(b) /\ (prior # None => prior.memory.corrected = {}) =>
                     m.corrected = {}
<1> DEFINE m == Curiosity(b, prior, p)
           M == [explored : SUBSET Priorities, refused : SUBSET Priorities,
                 deferred : SUBSET Priorities, corrected : SUBSET Priorities]
<1>1. CASE prior = None
  <2>1. m = [NoCuriosity EXCEPT
                !.explored = @ \cup {},
                !.corrected = @ \cup (IF \/ b.archivedFacts # <<>>
                                         \/ b.archivedProblems # <<>>
                                      THEN {p} ELSE {})]
    BY <1>1 DEF Curiosity
  <2>2. /\ m.refused = {} /\ m.deferred = {} /\ m.explored = {}
        /\ Kept(b) => m.corrected = {}
    BY <2>1 DEF NoCuriosity, Kept
  <2> HIDE DEF m
  <2> QED
    BY <1>1, <2>2 DEF m
<1>2. CASE prior # None
  <2>1. PICK k \in M : k = prior.memory
    BY <1>2 DEF Steerings
  <2>2. m = [k EXCEPT
                !.explored = @ \cup
                    (IF prior.priority = p /\ prior.decision = "ask_one"
                     THEN {p} ELSE {}),
                !.corrected = @ \cup (IF \/ b.archivedFacts # <<>>
                                         \/ b.archivedProblems # <<>>
                                      THEN {p} ELSE {})]
    BY <1>2, <2>1 DEF Curiosity
  <2>3. /\ m.refused = k.refused /\ m.deferred = k.deferred
        /\ m.explored = k.explored \cup
               (IF prior.priority = p /\ prior.decision = "ask_one" THEN {p} ELSE {})
        /\ Kept(b) => m.corrected = k.corrected
    BY <2>2 DEF Kept
  <2> HIDE DEF m
  <2> QED
    BY <1>2, <2>1, <2>3 DEF m
<1> QED
  BY <1>1, <1>2

\* A turn on the normal path asks about no priority that was asked about.
LEMMA SteersOn ==
    ASSUME NoneAssumption, NEW b, NEW s, NEW q, SteeringOf(b, s, q),
           NEW heard, Grows(b, heard), NEW mode
    PROVE  LET t == Steer(heard, mode, s)
           IN  SteeringOf(heard, t,
                          IF t.decision = "ask_one" THEN Append(q, t.priority) ELSE q)
<1> DEFINE t == Steer(heard, mode, s)
           p == PriorityOfFocus[Focus(heard.facts, heard.problems)]
           m == Curiosity(heard, s, p)
           q2 == IF t.decision = "ask_one" THEN Append(q, t.priority) ELSE q
<1>1. s \in Steerings \cup {None} /\ q \in Seq(Priorities)
  BY DEF SteeringOf
<1>2. t \in Steerings
  BY <1>1, SteerIs
<1>3. t # None
  BY <1>2 DEF NoneAssumption
<1>4. /\ t.priority = p /\ t.memory = m
      /\ t.decision = QuestionDecision(m, p, mode)
  BY DEF Steer, Diagnosis
<1>5. p \in Priorities
  BY FocusIs
<1> HIDE DEF t, p
<1>6. /\ m.refused = {} /\ m.deferred = {}
      /\ s = None => m.explored = {}
      /\ s # None =>
            m.explored = s.memory.explored \cup
                (IF s.priority = p /\ s.decision = "ask_one" THEN {p} ELSE {})
      /\ Kept(heard) /\ (s # None => s.memory.corrected = {}) => m.corrected = {}
  BY <1>1, CuriosityIs DEF SteeringOf
<1> HIDE DEF m
<1>7. q2 \in Seq(Priorities)
  BY <1>1, <1>4, <1>5
<1>8. ASSUME Kept(heard)
      PROVE  /\ m.corrected = {}
             /\ \A i \in DOMAIN q2 : Settled(q2[i], t)
             /\ IsInjective(q2)
  <2>1. Kept(b)
    BY <1>8 DEF Grows
  <2>2. m.corrected = {}
    BY <1>6, <1>8, <2>1 DEF SteeringOf
  <2>3. t.decision = "ask_one" => p \notin m.explored
    BY <1>4, <1>6, <2>2 DEF QuestionDecision, Complete
  <2>4. /\ \A i \in DOMAIN q : Settled(q[i], t)
        /\ t.decision = "ask_one" => \A i \in DOMAIN q : q[i] # p
    <3>1. CASE s = None
      <4>1. DOMAIN q = {}
        BY <3>1 DEF SteeringOf
      <4> QED
        BY <4>1
    <3>2. CASE s # None
      <4> DEFINE o == PriorityOfFocus[Focus(b.facts, b.problems)]
      <4>1. s.priority = o
        BY <3>2 DEF SteeringOf
      <4>2. Rank[p] <= Rank[o] /\ Rank[p] \in Int /\ Rank[o] \in Int
        <5>1. Kinds(b.facts) \subseteq Kinds(heard.facts) /\ Kinds(b.problems) \subseteq Kinds(heard.problems)
          BY <1>8 DEF Grows
        <5>2. Rank[p] <= Rank[o]
          BY <5>1, FocusMovesUp DEF p
        <5>3. Rank[p] \in Int /\ Rank[o] \in Int
          BY FocusIs DEF p
        <5> QED
          BY <5>2, <5>3
      <4>3. p # o => Rank[p] < Rank[o]
        <5>1. o \in Priorities
          BY FocusIs
        <5>2. \A x, y \in Priorities : Rank[x] = Rank[y] => x = y
          BY DEF Priorities, PriorityOfFocus, Rank
        <5> HIDE DEF o
        <5> QED
          BY <1>5, <4>2, <5>1, <5>2
      <4> HIDE DEF o
      <4>4. ASSUME NEW i \in DOMAIN q
            PROVE  Settled(q[i], t) /\ (t.decision = "ask_one" => q[i] # p)
        <5>1. Settled(q[i], s)
          BY <3>2, <2>1 DEF SteeringOf
        <5>2. \A x \in Priorities : Rank[x] \in Int
          BY DEF Priorities, PriorityOfFocus, Rank
        <5>3. Rank[q[i]] \in Int
          BY <1>1, <5>2
        <5>4. CASE q[i] \in s.memory.explored
          <6>1. q[i] \in m.explored
            BY <1>6, <3>2, <5>4
          <6> QED
            BY <6>1, <2>3, <1>4 DEF Settled
        <5>5. CASE q[i] = o /\ s.decision = "ask_one"
          <6>1. CASE p = o
            <7>1. q[i] \in m.explored
              BY <1>6, <3>2, <4>1, <5>5, <6>1
            <7> QED
              BY <7>1, <2>3, <1>4 DEF Settled
          <6>2. CASE p # o
            BY <6>2, <5>5, <4>2, <4>3, <1>4 DEF Settled
          <6> QED
            BY <6>1, <6>2
        <5>6. CASE Rank[q[i]] > Rank[o]
          <6>1. Rank[q[i]] > Rank[p] /\ q[i] # p
            BY <4>2, <5>3, <5>6
          <6> QED
            BY <6>1, <1>4 DEF Settled
        <5> QED
          BY <4>1, <5>1, <5>4, <5>5, <5>6 DEF Settled
      <4> QED
        BY <4>4
    <3> QED
      BY <3>1, <3>2
  <2>5. IsInjective(q)
    BY <2>1 DEF SteeringOf
  <2>6. CASE t.decision = "ask_one"
    <3>1. q2 = Append(q, p)
      BY <1>4, <2>6
    <3>2. /\ DOMAIN q2 = 1..(Len(q) + 1) /\ q2[Len(q) + 1] = p
          /\ DOMAIN q = 1..Len(q) /\ Len(q) \in Nat
          /\ \A i \in DOMAIN q : q2[i] = q[i]
      BY <1>1, <1>5, <3>1
    <3> HIDE DEF q2
    <3>3. \A i \in DOMAIN q2 : i \in DOMAIN q \/ i = Len(q) + 1
      BY <3>2
    <3>4. Settled(p, t)
      BY <1>4, <2>6 DEF Settled
    <3>5. \A i \in DOMAIN q2 : Settled(q2[i], t)
      BY <2>4, <3>2, <3>3, <3>4
    <3>6. IsInjective(q2)
      BY <2>4, <2>5, <2>6, <3>2, <3>3 DEF IsInjective
    <3> QED
      BY <2>2, <3>5, <3>6
  <2>7. CASE t.decision # "ask_one"
    BY <2>2, <2>4, <2>5, <2>7
  <2> QED
    BY <2>6, <2>7
<1> HIDE DEF q2
<1>9. SteeringOf(heard, t, q2)
  BY <1>2, <1>3, <1>4, <1>6, <1>7, <1>8 DEF SteeringOf, p
<1> QED
  BY <1>9 DEF q2, t

-----------------------------------------------------------------------------
(* The advice fits.                                                         *)

\* A finite set in some order: each of its members stands in it.
LEMMA SetToSeqIs ==
    ASSUME NEW T, IsFiniteSet(T)
    PROVE  /\ SetToSeq(T) \in Seq(T)
           /\ \A x \in T : \E i \in DOMAIN SetToSeq(T) : SetToSeq(T)[i] = x
<1> DEFINE n == Cardinality(T)
           s == SetToSeq(T)
<1>1. n \in Nat /\ ExistsBijection(1..n, T)
  BY FS_CardinalityType
<1>2. \E f \in [1..n -> T] : IsInjective(f)
  BY <1>1 DEF ExistsBijection, Bijection, Injection
<1>3. s \in [1..n -> T] /\ IsInjective(s)
  BY <1>2 DEF SetToSeq
<1> HIDE DEF s
<1>4. s \in Injection(1..n, T)
  BY <1>3 DEF Injection
<1>5. Cardinality(1..n) = n
  <2>1. 1 \in Int /\ n \in Int
    BY <1>1
  <2> HIDE DEF n
  <2> QED
    BY <2>1, <1>1, FS_Interval
<1>6. s \in Surjection(1..n, T)
  BY <1>4, <1>5, FS_Injection
<1> HIDE DEF n
<1>7. \A x \in T : \E i \in DOMAIN s : s[i] = x
  BY <1>3, <1>6 DEF Surjection
<1>8. s \in Seq(T)
  BY <1>1, <1>3
<1> QED
  BY <1>7, <1>8 DEF s

\* Placing a number into a list of numbers gives one.
LEMMA PlacedIs ==
    ASSUME NEW D, NEW o \in Seq(D), NEW n \in D, NEW key
    PROVE  Placed(o, key, n) \in Seq(D)
<1> DEFINE T == {k \in DOMAIN o : ~Below(key[n], key[o[k]])}
           b == Cardinality(T)
           front == SubSeq(o, 1, b)
           back == SubSeq(o, b + 1, Len(o))
<1>1. Len(o) \in Nat /\ DOMAIN o = 1..Len(o) /\ \A i \in 1..Len(o) : o[i] \in D
  OBVIOUS
<1>2. b \in 0..Len(o)
  <2>1. T \subseteq 1..Len(o)
    BY <1>1
  <2>2. IsFiniteSet(1..Len(o)) /\ Cardinality(1..Len(o)) = Len(o)
    <3>1. PICK m \in Nat : m = Len(o)
      BY <1>1
    <3>2. 1 \in Int /\ m \in Int
      OBVIOUS
    <3>3. IsFiniteSet(1..m) /\ Cardinality(1..m) = IF 1 > m THEN 0 ELSE m - 1 + 1
      BY <3>2, FS_Interval
    <3> QED
      BY <3>1, <3>3
  <2> HIDE DEF T
  <2>3. IsFiniteSet(T) /\ Cardinality(T) <= Cardinality(1..Len(o))
    BY <2>1, <2>2, FS_Subset
  <2>4. Cardinality(T) \in Nat
    BY <2>3, FS_CardinalityType
  <2> QED
    BY <2>2, <2>3, <2>4, <1>1
<1>3. Placed(o, key, n) = front \o <<n>> \o back
  BY DEF Placed
<1> HIDE DEF b
<1>4. front \in Seq(D)
  <2>1. /\ 1 \in Int /\ b \in Int /\ \A i \in 1..b : o[i] \in D
    BY <1>1, <1>2
  <2> QED
    BY <2>1, SubSeqProperties
<1>5. back \in Seq(D)
  <2> DEFINE m == Len(o)
  <2>1. b + 1 \in Int /\ m \in Int /\ \A i \in (b + 1)..m : o[i] \in D
    BY <1>1, <1>2
  <2> HIDE DEF m
  <2>2. SubSeq(o, b + 1, m) \in Seq(D)
    BY <2>1, SubSeqProperties
  <2> QED
    BY <2>2 DEF m
<1> HIDE DEF front, back
<1> QED
  BY <1>3, <1>4, <1>5

\* The order of the first n places.
Orders(key, n, f) ==
    f = [k \in 0..n |-> IF k = 0 THEN <<>> ELSE Placed(f[k - 1], key, k)]

\* There is one for each length.
LEMMA OrdersExists ==
    ASSUME NEW key, NEW n \in Nat
    PROVE  \E f : Orders(key, n, f)
<1> DEFINE S == {k \in Nat : \E f : Orders(key, k, f)}
<1>1. 0 \in S
  <2> DEFINE f == [i \in 0..0 |-> <<>>]
  <2>1. Orders(key, 0, f)
    BY DEF Orders
  <2> QED
    BY <2>1
<1>2. ASSUME NEW k \in Nat, k \in S
      PROVE  k + 1 \in S
  <2>1. PICK f : Orders(key, k, f)
    BY <1>2
  <2> DEFINE g == [i \in 0..(k + 1) |->
                     IF i # k + 1 THEN f[i] ELSE Placed(f[k], key, i)]
  <2>2. \A i \in 0..k : g[i] = f[i]
    OBVIOUS
  <2>3. g[k + 1] = Placed(f[k], key, k + 1)
    OBVIOUS
  <2>4. \A i \in 0..k : f[i] = IF i = 0 THEN <<>> ELSE Placed(f[i - 1], key, i)
    BY <2>1 DEF Orders
  <2>5. \A i \in 0..(k + 1) : g[i] = IF i = 0 THEN <<>> ELSE Placed(g[i - 1], key, i)
    BY <2>2, <2>3, <2>4
  <2>6. g = [i \in 0..(k + 1) |-> g[i]]
    OBVIOUS
  <2> HIDE DEF g
  <2>7. Orders(key, k + 1, g)
    BY <2>5, <2>6 DEF Orders
  <2> QED
    BY <2>7
<1> HIDE DEF S
<1>3. n \in S
  BY <1>1, <1>2, Counting
<1> QED
  BY <1>3 DEF S

\* What is sorted is what there was.
LEMMA SortedIs ==
    ASSUME NEW S, NEW s \in Seq(S), NEW key
    PROVE  Sorted(s, key) \in Seq(S)
<1> DEFINE n == Len(s)
           Of(f) == f = [i \in 0..n |-> IF i = 0 THEN <<>> ELSE Placed(f[i - 1], key, i)]
<1>1. n \in Nat /\ DOMAIN s = 1..n /\ \A i \in 1..n : s[i] \in S
  OBVIOUS
<1>2. PICK g : Orders(key, n, g)
  BY <1>1, OrdersExists
<1>3. Of(g)
  BY <1>2 DEF Orders
<1>4. PICK f : Of(f) /\ Sorted(s, key) = [k \in DOMAIN f[n] |-> s[f[n][k]]]
  <2> DEFINE f == CHOOSE f : Of(f)
  <2>1. Of(f)
    BY <1>3
  <2>2. Sorted(s, key) = [k \in DOMAIN f[n] |-> s[f[n][k]]]
    BY DEF Sorted
  <2> QED
    BY <2>1, <2>2
<1>5. \A i \in 0..n : f[i] = IF i = 0 THEN <<>> ELSE Placed(f[i - 1], key, i)
  BY <1>4
<1> HIDE DEF n, Of
<1> DEFINE D == 1..n
           N == {k \in Nat : k <= n => f[k] \in Seq(D)}
<1>6. 0 \in N
  <2>1. f[0] = <<>>
    BY <1>1, <1>5
  <2> HIDE DEF D
  <2>2. f[0] \in Seq(D)
    BY <2>1
  <2> QED
    BY <2>2
<1>7. ASSUME NEW k \in Nat, k \in N
      PROVE  k + 1 \in N
  <2> SUFFICES ASSUME k + 1 <= n
               PROVE  f[k + 1] \in Seq(D)
    OBVIOUS
  <2>1. PICK o \in Seq(D) : o = f[k]
    BY <1>1, <1>7
  <2>2. k + 1 \in 0..n /\ k + 1 # 0 /\ (k + 1) - 1 = k
    BY <1>1
  <2>3. f[k + 1] = Placed(o, key, k + 1)
    BY <1>5, <2>1, <2>2
  <2>4. PICK i \in D : i = k + 1
    BY <1>1
  <2> HIDE DEF D
  <2>5. Placed(o, key, i) \in Seq(D)
    BY PlacedIs
  <2> QED
    BY <2>3, <2>4, <2>5
<1> HIDE DEF N
<1>8. n \in N
  BY <1>1, <1>6, <1>7, Counting
<1>9. PICK o \in Seq(D) : o = f[n]
  BY <1>1, <1>8 DEF N
<1> HIDE DEF D
<1>10. DOMAIN o = 1..Len(o) /\ Len(o) \in Nat /\ \A k \in 1..Len(o) : o[k] \in D
  OBVIOUS
<1>11. Sorted(s, key) = [k \in 1..Len(o) |-> s[o[k]]]
  BY <1>4, <1>9, <1>10 DEF n
<1>12. \A k \in 1..Len(o) : s[o[k]] \in S
  BY <1>1, <1>10 DEF D
<1> QED
  BY <1>10, <1>11, <1>12

\* Every item of Only is one of the list, and is at one of the places.
LEMMA OnlyFrom ==
    ASSUME NEW S, NEW s \in Seq(S), NEW places
    PROVE  /\ Only(s, places) \in Seq(S)
           /\ \A k \in DOMAIN Only(s, places) :
                  \E i \in places \cap DOMAIN s : Only(s, places)[k] = s[i]
BY OnlyIs DEF Picks

\* So is every item of a list without what it says twice.
LEMMA DistinctFrom ==
    ASSUME NEW S, NEW s \in Seq(S)
    PROVE  /\ Distinct(s) \in Seq(S)
           /\ \A k \in DOMAIN Distinct(s) : \E i \in DOMAIN s : Distinct(s)[k] = s[i]
<1>1. PICK places : Distinct(s) = Only(s, places)
  BY DEF Distinct
<1> QED
  BY <1>1, OnlyFrom

\* A topic to ask about is not known, unless it is how happy they are.
LEMMA TopicsAre ==
    ASSUME NEW p, p.topics \in Seq(DiscoveryTopics), NEW input
    PROVE  /\ Topics(p, input) \in Seq(DiscoveryTopics)
           /\ \A k \in DOMAIN Topics(p, input) :
                  \/ Topics(p, input)[k] \notin input.context.known
                  \/ Topics(p, input)[k] = "provider_satisfaction"
<1> DEFINE first == IF input.prospect.objection = "already_have_provider"
                    THEN <<"provider_satisfaction">> ELSE <<>>
           missing == Missing(p.topics, input.context.known)
           all == first \o missing
           t == Topics(p, input)
<1>1. first \in Seq(DiscoveryTopics)
  <2>1. "provider_satisfaction" \in DiscoveryTopics
    BY DEF DiscoveryTopics
  <2> QED
    BY <2>1
<1>2. \A i \in DOMAIN first : first[i] = "provider_satisfaction"
  OBVIOUS
<1>3. /\ missing \in Seq(DiscoveryTopics)
      /\ \A k \in DOMAIN missing : missing[k] \notin input.context.known
  <2> DEFINE places == {i \in DOMAIN p.topics : p.topics[i] \notin input.context.known}
  <2>1. PICK s \in Seq(DiscoveryTopics) : s = p.topics
    OBVIOUS
  <2>2. missing = Only(s, places)
    BY <2>1 DEF Missing
  <2>3. \A i \in places : s[i] \notin input.context.known
    BY <2>1
  <2> HIDE DEF places, missing
  <2> QED
    BY <2>2, <2>3, OnlyFrom
<1>4. t = Distinct(all)
  BY DEF Topics
<1> HIDE DEF first, missing, t
<1>5. /\ all \in Seq(DiscoveryTopics)
      /\ \A k \in DOMAIN all : \/ all[k] \notin input.context.known
                               \/ all[k] = "provider_satisfaction"
  <2>1. /\ all \in Seq(DiscoveryTopics)
        /\ \A i \in DOMAIN all : \/ i \in DOMAIN first /\ all[i] = first[i]
                                 \/ /\ i - Len(first) \in DOMAIN missing
                                    /\ all[i] = missing[i - Len(first)]
    BY <1>1, <1>3
  <2> HIDE DEF all
  <2> QED
    BY <2>1, <1>2, <1>3
<1> HIDE DEF all
<1>6. t \in Seq(DiscoveryTopics) /\ \A k \in DOMAIN t : \E i \in DOMAIN all : t[k] = all[i]
  BY <1>4, <1>5, DistinctFrom
<1> QED
  BY <1>5, <1>6 DEF t

\* What may come later is neither known to them nor advised now.
LEMMA FutureIs ==
    ASSUME NEW p, p.future \in Seq(Nat), NEW input,
           NEW S, NEW candidates \in Seq(S)
    PROVE  LET f == Future(p, input, candidates)
           IN  \A k \in DOMAIN f : IsOpen(f[k], p, input)
<1> DEFINE others == [i \in 1..(Len(candidates) - 1) |-> candidates[i + 1].service]
           possible == Distinct(others \o p.future)
           places == {i \in DOMAIN possible : IsOpen(possible[i], p, input)}
           open == Only(possible, places)
           f == Future(p, input, candidates)
           T == Nat \cup {c.service : c \in S}
<1>1. others \in Seq(T)
  <2>1. PICK n \in Nat : n = Len(candidates)
    OBVIOUS
  <2>2. \A i \in 1..(n - 1) : candidates[i + 1] \in S
    BY <2>1
  <2>3. others = [i \in 1..(n - 1) |-> candidates[i + 1].service]
    BY <2>1
  <2>4. \A i \in 1..(n - 1) : candidates[i + 1].service \in T
    BY <2>2
  <2> HIDE DEF T, others
  <2>5. PICK m \in Nat : 1..(n - 1) = 1..m
    <3>1. n = 0 => 1..(n - 1) = 1..0
      OBVIOUS
    <3>2. n # 0 => n - 1 \in Nat
      OBVIOUS
    <3> QED
      BY <3>1, <3>2
  <2>6. others \in [1..m -> T]
    BY <2>3, <2>4, <2>5
  <2> QED
    BY <2>6
<1>2. PICK g \in Seq(T) : g = p.future
  <2>1. Nat \subseteq T
    OBVIOUS
  <2> HIDE DEF T
  <2> QED
    BY <2>1
<1> HIDE DEF T, others
<1>3. others \o g \in Seq(T)
  BY <1>1
<1>4. possible \in Seq(T)
  <2>1. PICK all \in Seq(T) : all = others \o g
    BY <1>3
  <2> QED
    BY <1>2, <2>1, DistinctFrom
<1>5. f = IF Len(open) <= MaxFuture THEN open ELSE SubSeq(open, 1, MaxFuture)
  BY DEF Future, others
<1> HIDE DEF possible, f
<1>6. /\ open \in Seq(T)
      /\ \A k \in DOMAIN open : \E i \in places : open[k] = possible[i]
  <2>1. PICK s \in Seq(T) : s = possible
    BY <1>4
  <2>2. PICK at : at = places
    OBVIOUS
  <2>3. /\ Only(s, at) \in Seq(T)
        /\ \A k \in DOMAIN Only(s, at) : \E i \in at \cap DOMAIN s : Only(s, at)[k] = s[i]
    BY OnlyFrom
  <2>4. open = Only(s, at)
    BY <2>1, <2>2
  <2> HIDE DEF open, places
  <2> QED
    BY <2>1, <2>2, <2>3, <2>4
<1>7. \A k \in DOMAIN open : IsOpen(open[k], p, input)
  BY <1>6
<1> HIDE DEF open, places
<1>8. \A k \in DOMAIN f : k \in DOMAIN open /\ f[k] = open[k]
  <2>1. CASE Len(open) <= MaxFuture
    BY <1>5, <2>1
  <2>2. CASE ~(Len(open) <= MaxFuture)
    <3>1. f = SubSeq(open, 1, 3)
      BY <1>5, <2>2 DEF MaxFuture
    <3>2. Len(open) > 3 /\ Len(open) \in Nat /\ DOMAIN open = 1..Len(open)
      BY <1>6, <2>2 DEF MaxFuture
    <3>3. DOMAIN f = 1..3 /\ \A k \in 1..3 : f[k] = open[k]
      BY <1>6, <3>1, <3>2
    <3> QED
      BY <3>2, <3>3
  <2> QED
    BY <2>1, <2>2
<1> QED
  BY <1>7, <1>8 DEF f

\* The advice of a turn fits what the turn knows.
Fits(g, input) ==
    /\ \A k \in DOMAIN g.future :
          g.future[k] \notin input.discussed \cup input.context.existing \cup {g.service}
    /\ g.service # None =>
          \E p \in Playbooks : /\ p.service = g.service
                               /\ p.solves \cap input.context.situations # {}
    /\ g.readiness = "ready_for_micro_commitment" =>
          /\ input.problem.impact /\ ~input.prospect.busy
          /\ input.prospect.objection \in {None, "none"} /\ g.primary = None
    /\ g.primary # None =>
          \/ g.primary \notin input.context.known
          \/ g.primary = "provider_satisfaction"

\* It does, whatever the prospect is like.
LEMMA EvaluateIs ==
    ASSUME PlaybooksAssumption, NEW input, input.playbooks = Playbooks
    PROVE  Fits(Evaluate(input), input)
<1> DEFINE C == {p \in Playbooks : IsCandidate(p, input)}
           candidates == RankedPlaybooks(input)
           g == Evaluate(input)
           none == input.context.noFit \/ input.prospect.interested = FALSE
                   \/ candidates = <<>>
<1>1. IsFiniteSet(C)
  BY FS_Subset DEF PlaybooksAssumption
<1>2. candidates \in Seq(C)
  <2> DEFINE key == [i \in DOMAIN SetToSeq(C) |-> Order(SetToSeq(C)[i], input.context)]
  <2>1. candidates = Sorted(SetToSeq(C), key)
    BY DEF RankedPlaybooks
  <2> HIDE DEF C, candidates, key
  <2>2. PICK s \in Seq(C) : s = SetToSeq(C)
    BY <1>1, SetToSeqIs
  <2>3. Sorted(s, key) \in Seq(C)
    BY SortedIs
  <2> QED
    BY <2>1, <2>2, <2>3
<1>3. CASE none
  <2>1. g = NoFit
    BY <1>3 DEF Evaluate
  <2> QED
    BY <2>1 DEF Fits, NoFit
<1>4. CASE ~none
  <2>1. candidates # <<>>
    BY <1>4
  <2>2. PICK best \in C : best = candidates[1]
    <3> HIDE DEF C, candidates
    <3> QED
      BY <1>2, <2>1
  <2> DEFINE readiness == PitchReadiness(best, input)
             future == Future(best, input, candidates)
             primary == PrimaryQuestion(best, input)
  <2>3. /\ g.service = best.service /\ g.readiness = readiness[1]
        /\ g.primary = primary /\ g.future = future
    BY <1>4, <2>2 DEF Evaluate
  <2>4. /\ best \in Playbooks /\ best.topics \in Seq(DiscoveryTopics)
        /\ best.future \in Seq(Nat)
        /\ best.solves \cap input.context.situations # {}
    BY DEF PlaybooksAssumption, IsCandidate, Matched
  <2> HIDE DEF g
  <2>5. \A k \in DOMAIN future : IsOpen(future[k], best, input)
    <3>1. PICK c \in Seq(C) : c = candidates
      BY <1>2
    <3> HIDE DEF C, candidates
    <3> QED
      BY <2>4, <3>1, FutureIs
  <2> HIDE DEF C, candidates
  <2>6. \A k \in DOMAIN g.future :
            g.future[k] \notin input.discussed \cup input.context.existing \cup {g.service}
    BY <2>3, <2>5 DEF IsOpen
  <2>7. readiness[1] = "ready_for_micro_commitment" =>
            /\ input.problem.impact /\ ~input.prospect.busy
            /\ primary = None /\ Objection(input) = None
    BY DEF PitchReadiness
  <2>8. Objection(input) = None => input.prospect.objection \in {None, "none"}
    BY DEF Objection
  <2>9. primary # None => \/ primary \notin input.context.known
                          \/ primary = "provider_satisfaction"
    <3>1. Topics(best, input) # <<>> => 1 \in DOMAIN Topics(best, input)
      BY <2>4, TopicsAre
    <3>2. primary # None =>
              Topics(best, input) # <<>> /\ primary = Topics(best, input)[1]
      BY DEF PrimaryQuestion
    <3> QED
      BY <2>4, <3>1, <3>2, TopicsAre
  <2> HIDE DEF readiness, future, primary
  <2>10. Fits(g, input)
    BY <2>3, <2>4, <2>6, <2>7, <2>8, <2>9 DEF Fits
  <2> QED
    BY <2>10 DEF g
<1> QED
  BY <1>3, <1>4

\* What is advised of a business, to whom, and what was shown as offered.
AdviceOf(g, b, mood, o) ==
    g # None =>
        LET context == Known(b)
        IN  /\ Range(g.future) \cap (o \cup context.existing \cup {g.service}) = {}
            /\ g.service # None =>
                   \E p \in Playbooks : /\ p.service = g.service
                                        /\ p.solves \cap context.situations # {}
            /\ g.readiness = "ready_for_micro_commitment" =>
                   /\ mood.problem.impact /\ ~mood.prospect.busy
                   /\ mood.prospect.objection \in {None, "none"}
                   /\ g.primary = None
            /\ g.primary # None => \/ g.primary \notin context.known
                                   \/ g.primary = "provider_satisfaction"

\* The advice of a turn on the normal path fits, whatever the turn offers.
LEMMA AdvisesWell ==
    ASSUME PlaybooksAssumption, NEW b, NEW mood
    PROVE  AdviceOf(Evaluate(PlaybookInput(b, mood)), b, mood, offered)
<1> DEFINE input == PlaybookInput(b, mood)
           g == Evaluate(input)
<1>1. /\ input.playbooks = Playbooks /\ input.context = Known(b)
      /\ input.problem = mood.problem /\ input.prospect = mood.prospect
      /\ input.discussed = offered
  BY DEF PlaybookInput
<1> HIDE DEF input
<1>2. Fits(g, input)
  BY <1>1, EvaluateIs
<1> HIDE DEF g
<1> QED
  BY <1>1, <1>2 DEF Fits, AdviceOf, Range, input, g

-----------------------------------------------------------------------------
(* The mental model is current.                                             *)

\* A sequence of whatever it holds.
Listed(s) == s \in Seq(Range(s))

\* No two nodes share a key.
KeyedOnce(nodes) == \A m, n \in nodes : m.key = n.key => m = n

\* Every one of them is a node.
AreNodes(nodes) ==
    \A n \in nodes : \E k, v, t, o : n = Node(k, v, t, o)

\* What findings say, as the nodes say it.
SaidOf(name, findings) == {<<<<name, f.kind>>, f.value>> : f \in Range(findings)}

\* What is said of a business now, and what was said of it before.
SaysBoth(b) == SaidOf("fact", b.facts) \cup SaidOf("problem", b.problems)

SaidBoth(b) == SaidOf("fact", b.archivedFacts) \cup SaidOf("problem", b.archivedProblems)

\* What nodes say.
Pairs(nodes) == {<<n.key, n.value>> : n \in nodes}

\* What of it is said of facts and problems.
OfFindings(pairs) == {x \in pairs : x[1][1] \in {"fact", "problem"}}

\* A model, whatever business it is of.
StarOf(m) ==
    /\ IsFiniteSet(m.nodes) /\ IsFiniteSet(m.edges)
    /\ KeyedOnce(m.nodes)
    /\ m.nodes # {} => m.edges = Edges(m.nodes)
    /\ Listed(m.archived) /\ Len(m.archived) <= Limit
    /\ Listed(m.pastEdges) /\ Len(m.pastEdges) <= Limit

\* A model of this business.
ModelOf(m, b) ==
    /\ OfFindings(Pairs(m.nodes)) = SaysBoth(b)
    /\ Len(m.archived) < Limit =>
           SaidBoth(b) \subseteq Pairs(Range(m.archived)) \cup Pairs(m.nodes)

\* What the mental model is at any time.
ModelInv == StarOf(model) /\ ModelOf(model, business)

\* What a function makes of a finite set is finite.
LEMMA ImageIs ==
    ASSUME NEW f, NEW S, IsFiniteSet(S)
    PROVE  IsFiniteSet({f[x] : x \in S})
<1> DEFINE T == {f[x] : x \in S}
           g == [x \in S |-> f[x]]
<1>1. g \in Surjection(S, T)
  BY DEF Surjection
<1> HIDE DEF g, T
<1>2. IsFiniteSet(T)
  BY <1>1, FS_Surjection
<1> QED
  BY <1>2 DEF T

\* There are as many keys as nodes.
LEMMA OneKeyEach ==
    ASSUME NEW nodes, IsFiniteSet(nodes), KeyedOnce(nodes)
    PROVE  Cardinality({n.key : n \in nodes}) = Cardinality(nodes)
<1> DEFINE T == {n.key : n \in nodes}
           g == [n \in nodes |-> n.key]
<1>1. g \in [nodes -> T] /\ \A t \in T : \E n \in nodes : g[n] = t
  OBVIOUS
<1>2. \A m, n \in nodes : g[m] = g[n] => m = n
  BY DEF KeyedOnce
<1> HIDE DEF g, T
<1>3. g \in Bijection(nodes, T)
  BY <1>1, <1>2 DEF Bijection, Injection, Surjection, IsInjective
<1>4. Cardinality(T) = Cardinality(nodes)
  BY <1>3, FS_Bijection DEF ExistsBijection
<1> QED
  BY <1>4 DEF T

\* A sequence is one of what it holds.
LEMMA ListedIs ==
    ASSUME NEW S, NEW s \in Seq(S)
    PROVE  Listed(s)
<1>1. Len(s) \in Nat /\ DOMAIN s = 1..Len(s) /\ \A i \in 1..Len(s) : s[i] \in Range(s)
  BY DEF Range
<1>2. s = [i \in 1..Len(s) |-> s[i]]
  OBVIOUS
<1> QED
  BY <1>1, <1>2 DEF Listed

\* An archive with more put behind it, of which the last are kept: unless it is
\* full, it is all there.
LEMMA ArchivedIs ==
    ASSUME LimitAssumption, NEW s, Listed(s), NEW T, IsFiniteSet(T)
    PROVE  LET r == LastItems(s \o SetToSeq(T))
           IN  /\ Listed(r) /\ Len(r) <= Limit
               /\ Len(r) < Limit => /\ Len(s) < Limit
                                    /\ Range(s) \cup T \subseteq Range(r)
<1> DEFINE S == Range(s) \cup T
           t == SetToSeq(T)
           all == s \o t
           r == LastItems(all)
<1>1. s \in Seq(S)
  <2>1. s \in Seq(Range(s)) /\ Range(s) \subseteq S
    BY DEF Listed
  <2> HIDE DEF S
  <2> QED
    BY <2>1
<1>2. /\ t \in Seq(S) /\ \A x \in T : \E i \in DOMAIN t : t[i] = x
  <2>1. t \in Seq(T) /\ T \subseteq S
    BY SetToSeqIs
  <2>2. \A x \in T : \E i \in DOMAIN t : t[i] = x
    BY SetToSeqIs
  <2> HIDE DEF S, t
  <2> QED
    BY <2>1, <2>2
<1> HIDE DEF t
<1>3. PICK q \in Seq(S) : q = all
  <2> HIDE DEF S
  <2>1. PICK a \in Seq(S), b \in Seq(S) : a = s /\ b = t
    BY <1>1, <1>2
  <2>2. a \o b \in Seq(S)
    BY <2>1
  <2> QED
    BY <2>1, <2>2
<1>4. /\ Len(q) = Len(s) + Len(t)
      /\ \A i \in DOMAIN s : i \in DOMAIN q /\ q[i] = s[i]
      /\ \A i \in DOMAIN t : i + Len(s) \in DOMAIN q /\ q[i + Len(s)] = t[i]
  <2> HIDE DEF S
  <2> QED
    BY <1>1, <1>2, <1>3
<1>5. Len(s) \in Nat /\ Len(t) \in Nat /\ Len(q) \in Nat
  <2> HIDE DEF S
  <2> QED
    BY <1>1, <1>2
<1>6. r = LastOf(q, Limit)
  BY <1>3 DEF LastItems, LastOf
<1> HIDE DEF S, all, r
<1>7. r \in Seq(S) /\ Len(r) = IF Len(q) <= Limit THEN Len(q) ELSE Limit
  BY <1>6, LastOfIs DEF LimitAssumption
<1>8. Listed(r)
  BY <1>7, ListedIs
<1>9. Len(r) <= Limit
  BY <1>5, <1>7 DEF LimitAssumption
<1>10. Len(r) < Limit => r = q /\ Len(s) < Limit
  BY <1>4, <1>5, <1>6, <1>7 DEF LimitAssumption, LastOf
<1>11. Range(s) \cup T \subseteq Range(q)
  BY <1>2, <1>4 DEF Range
<1> QED
  BY <1>8, <1>9, <1>10, <1>11 DEF r, all, t

\* Nodes of one sort: as many as they are, one of each name.
SortOf(nodes, name) ==
    /\ IsFiniteSet(nodes) /\ AreNodes(nodes) /\ KeyedOnce(nodes)
    /\ \A n \in nodes : n.key[1] = name

\* The nodes of findings say what the findings say.
LEMMA FindingNodesAre ==
    ASSUME NEW K, NEW s \in Seq(Said(K)), Unique(s), NEW name
    PROVE  /\ SortOf(FindingNodes(name, s), name)
           /\ Pairs(FindingNodes(name, s)) = SaidOf(name, s)
<1> DEFINE N(i) == Node(<<name, s[i].kind>>, s[i].value, s[i].source, TRUE)
           nodes == FindingNodes(name, s)
           f == [i \in DOMAIN s |-> N(i)]
<1>1. DOMAIN s = 1..Len(s) /\ Len(s) \in Nat
  OBVIOUS
<1>2. nodes = {f[i] : i \in DOMAIN s}
  BY DEF FindingNodes
<1>3. IsFiniteSet(DOMAIN s)
  <2>1. PICK n \in Nat : n = Len(s)
    BY <1>1
  <2>2. 1 \in Int /\ n \in Int
    OBVIOUS
  <2> QED
    BY <1>1, <2>1, <2>2, FS_Interval
<1>4. IsFiniteSet(nodes)
  <2> HIDE DEF f
  <2> QED
    BY <1>2, <1>3, ImageIs
<1>5. \A i \in DOMAIN s : /\ N(i).key = <<name, s[i].kind>>
                          /\ N(i).key[1] = name /\ N(i).key[2] = s[i].kind
                          /\ N(i).value = s[i].value
  BY DEF Node
<1>6. \A n \in nodes : \E i \in DOMAIN s : n = N(i)
  BY DEF FindingNodes
<1>7. AreNodes(nodes)
  <2> SUFFICES ASSUME NEW n \in nodes
               PROVE  \E k, v, t, o : n = Node(k, v, t, o)
    BY DEF AreNodes
  <2>1. PICK i \in DOMAIN s : n = N(i)
    BY <1>6
  <2> QED
    BY <2>1
<1>8. Pairs(nodes) = SaidOf(name, s)
  <2>1. ASSUME NEW x \in Pairs(nodes)
        PROVE  x \in SaidOf(name, s)
    <3>1. PICK n \in nodes : x = <<n.key, n.value>>
      BY DEF Pairs
    <3>2. PICK i \in DOMAIN s : n = N(i)
      BY <1>6
    <3>3. x = <<<<name, s[i].kind>>, s[i].value>> /\ s[i] \in Range(s)
      BY <1>5, <3>1, <3>2 DEF Range
    <3> QED
      BY <3>3 DEF SaidOf
  <2>2. ASSUME NEW x \in SaidOf(name, s)
        PROVE  x \in Pairs(nodes)
    <3>1. PICK i \in DOMAIN s : x = <<<<name, s[i].kind>>, s[i].value>>
      BY DEF SaidOf, Range
    <3>2. N(i) \in nodes
      BY DEF FindingNodes
    <3>3. x = <<N(i).key, N(i).value>>
      BY <1>5, <3>1
    <3> HIDE DEF N, nodes
    <3> QED
      BY <3>2, <3>3 DEF Pairs
  <2> QED
    BY <2>1, <2>2
<1> HIDE DEF N, nodes
<1>9. \A n \in nodes : n.key[1] = name
  BY <1>5, <1>6
<1>10. KeyedOnce(nodes)
  <2> SUFFICES ASSUME NEW m \in nodes, NEW n \in nodes, m.key = n.key
               PROVE  m = n
    BY DEF KeyedOnce
  <2>1. PICK i \in DOMAIN s, j \in DOMAIN s : m = N(i) /\ n = N(j)
    BY <1>6
  <2>2. s[i].kind = s[j].kind
    BY <1>5, <2>1
  <2> QED
    BY <2>1, <2>2 DEF Unique
<1> QED
  BY <1>4, <1>7, <1>8, <1>9, <1>10 DEF SortOf, nodes

\* So do those of the others.
LEMMA OtherNodesAre ==
    ASSUME NEW role, NEW fields, IsFiniteSet(DOMAIN fields), NEW unknown
    PROVE  /\ SortOf({Root}, "business")
           /\ SortOf(PersonNodes(role), "person")
           /\ SortOf(QualificationNodes(fields), "qualification")
           /\ SortOf(UnknownNodes(GapAreas(unknown)), "unknown")
<1>1. SortOf({Root}, "business")
  <2>1. IsFiniteSet({Root})
    BY FS_Singleton
  <2>2. Root.key[1] = "business"
    BY DEF Root, Node
  <2>3. AreNodes({Root})
    BY DEF AreNodes, Root
  <2> QED
    BY <2>1, <2>2, <2>3 DEF SortOf, KeyedOnce
<1>2. SortOf(PersonNodes(role), "person")
  <2> DEFINE p == Node(<<"person">>, role.value, role.turn, role.observed)
  <2>1. p.key[1] = "person" /\ AreNodes({p})
    BY DEF Node, AreNodes
  <2>2. PersonNodes(role) \in {{}, {p}}
    BY DEF PersonNodes
  <2>3. IsFiniteSet({p}) /\ IsFiniteSet({})
    BY FS_Singleton, FS_EmptySet
  <2> HIDE DEF p
  <2> QED
    BY <2>1, <2>2, <2>3 DEF SortOf, KeyedOnce, AreNodes
<1>3. SortOf(QualificationNodes(fields), "qualification")
  <2> DEFINE S == {g \in DOMAIN fields : fields[g].state # "unknown"}
             N(f) == Node(<<"qualification", f>>, fields[f].value, 0,
                          fields[f].state = "observed")
             h == [f \in S |-> N(f)]
             nodes == QualificationNodes(fields)
  <2>1. nodes = {h[f] : f \in S} /\ \A n \in nodes : \E f \in S : n = N(f)
    BY DEF QualificationNodes
  <2>2. IsFiniteSet(S)
    BY FS_Subset
  <2>3. IsFiniteSet(nodes)
    <3> HIDE DEF h, S, nodes
    <3> QED
      BY <2>1, <2>2, ImageIs
  <2>4. \A f \in S : N(f).key[1] = "qualification" /\ N(f).key[2] = f
    BY DEF Node
  <2>5. AreNodes(nodes)
    <3> SUFFICES ASSUME NEW n \in nodes
                 PROVE  \E k, v, t, o : n = Node(k, v, t, o)
      BY DEF AreNodes
    <3>1. PICK x \in S : n = N(x)
      BY <2>1
    <3> QED
      BY <3>1
  <2> HIDE DEF h, S, nodes, N
  <2>6. \A n \in nodes : n.key[1] = "qualification"
    BY <2>1, <2>4
  <2>7. KeyedOnce(nodes)
    <3> SUFFICES ASSUME NEW m \in nodes, NEW n \in nodes, m.key = n.key
                 PROVE  m = n
      BY DEF KeyedOnce
    <3>1. PICK x \in S, y \in S : m = N(x) /\ n = N(y)
      BY <2>1
    <3> QED
      BY <2>4, <3>1
  <2> QED
    BY <2>3, <2>5, <2>6, <2>7 DEF SortOf, nodes
<1>4. SortOf(UnknownNodes(GapAreas(unknown)), "unknown")
  <2> DEFINE S == GapAreas(unknown)
             N(area) == Node(<<"unknown", area>>, area, 0, TRUE)
             h == [area \in S |-> N(area)]
             nodes == UnknownNodes(S)
  <2>1. nodes = {h[a] : a \in S} /\ \A n \in nodes : \E a \in S : n = N(a)
    BY DEF UnknownNodes
  <2>2. IsFiniteSet(S)
    <3> DEFINE U == unknown \cap DOMAIN AreaUnknown
    <3>1. DOMAIN AreaUnknown = {"crm", "reporting_process"} \cup {"order_volume"}
      BY DEF AreaUnknown
    <3>2. IsFiniteSet({"crm"} \cup {"reporting_process"})
      BY FS_Singleton, FS_Union
    <3>3. IsFiniteSet({"crm", "reporting_process"} \cup {"order_volume"})
      <4>1. {"crm"} \cup {"reporting_process"} = {"crm", "reporting_process"}
        OBVIOUS
      <4> QED
        BY <3>2, <4>1, FS_AddElement
    <3>4. IsFiniteSet(U)
      BY <3>1, <3>3, FS_Subset
    <3>5. S = {AreaUnknown[u] : u \in U}
      BY DEF GapAreas
    <3> HIDE DEF U, S
    <3> QED
      BY <3>4, <3>5, ImageIs
  <2>3. IsFiniteSet(nodes)
    <3> HIDE DEF h, S, nodes
    <3> QED
      BY <2>1, <2>2, ImageIs
  <2>4. \A a \in S : N(a).key[1] = "unknown" /\ N(a).key[2] = a
    BY DEF Node
  <2>5. AreNodes(nodes)
    <3> SUFFICES ASSUME NEW n \in nodes
                 PROVE  \E k, v, t, o : n = Node(k, v, t, o)
      BY DEF AreNodes
    <3>1. PICK x \in S : n = N(x)
      BY <2>1
    <3> QED
      BY <3>1
  <2> HIDE DEF h, S, nodes, N
  <2>6. \A n \in nodes : n.key[1] = "unknown"
    BY <2>1, <2>4
  <2>7. KeyedOnce(nodes)
    <3> SUFFICES ASSUME NEW m \in nodes, NEW n \in nodes, m.key = n.key
                 PROVE  m = n
      BY DEF KeyedOnce
    <3>1. PICK x \in S, y \in S : m = N(x) /\ n = N(y)
      BY <2>1
    <3> QED
      BY <2>4, <3>1
  <2> QED
    BY <2>3, <2>5, <2>6, <2>7 DEF SortOf, nodes, S
<1> QED
  BY <1>1, <1>2, <1>3, <1>4

\* The candidates of a turn say what the business says, each under a key of its
\* own.
LEMMA CandidatesAre ==
    ASSUME NEW b, BusinessOf(b), NEW role, NEW fields, IsFiniteSet(DOMAIN fields)
    PROVE  LET c == Candidates(b, role, fields)
           IN  /\ IsFiniteSet(c) /\ AreNodes(c) /\ KeyedOnce(c)
               /\ OfFindings(Pairs(c)) = SaysBoth(b)
<1> DEFINE fs == FindingNodes("fact", b.facts)
           ps == FindingNodes("problem", b.problems)
           us == PersonNodes(role)
           qs == QualificationNodes(fields)
           gs == UnknownNodes(GapAreas(b.unknown))
           c == Candidates(b, role, fields)
<1>1. SortOf(fs, "fact") /\ Pairs(fs) = SaidOf("fact", b.facts)
  <2>1. b.facts \in Seq(Said(FactKinds)) /\ Unique(b.facts)
    BY DEF BusinessOf
  <2> QED
    BY <2>1, FindingNodesAre
<1>2. SortOf(ps, "problem") /\ Pairs(ps) = SaidOf("problem", b.problems)
  <2>1. b.problems \in Seq(Said(ProblemKinds)) /\ Unique(b.problems)
    BY DEF BusinessOf
  <2> QED
    BY <2>1, FindingNodesAre
<1>3. /\ SortOf({Root}, "business") /\ SortOf(us, "person")
      /\ SortOf(qs, "qualification") /\ SortOf(gs, "unknown")
  BY OtherNodesAre
<1>4. c = {Root} \cup fs \cup ps \cup us \cup qs \cup gs
  BY DEF Candidates, Diagnosis
<1> HIDE DEF fs, ps, us, qs, gs, c
<1>5. IsFiniteSet(c)
  <2>1. IsFiniteSet({Root} \cup fs) /\ IsFiniteSet(ps \cup us) /\ IsFiniteSet(qs \cup gs)
    BY <1>1, <1>2, <1>3, FS_Union DEF SortOf
  <2>2. IsFiniteSet(({Root} \cup fs) \cup (ps \cup us))
    BY <2>1, FS_Union
  <2>3. IsFiniteSet((({Root} \cup fs) \cup (ps \cup us)) \cup (qs \cup gs))
    BY <2>1, <2>2, FS_Union
  <2>4. (({Root} \cup fs) \cup (ps \cup us)) \cup (qs \cup gs) = c
    BY <1>4
  <2> QED
    BY <2>3, <2>4
<1>6. AreNodes(c)
  BY <1>1, <1>2, <1>3, <1>4 DEF SortOf, AreNodes
<1>7. KeyedOnce(c)
  BY <1>1, <1>2, <1>3, <1>4 DEF SortOf, KeyedOnce
<1>8. \A n \in c : /\ n.key[1] \in {"fact", "problem"} <=> n \in fs \cup ps
  BY <1>1, <1>2, <1>3, <1>4 DEF SortOf
<1>9. OfFindings(Pairs(c)) = Pairs(fs) \cup Pairs(ps)
  <2>1. ASSUME NEW x \in OfFindings(Pairs(c))
        PROVE  x \in Pairs(fs) \cup Pairs(ps)
    <3>1. PICK n \in c : x = <<n.key, n.value>>
      BY DEF OfFindings, Pairs
    <3>2. n.key[1] \in {"fact", "problem"}
      BY <3>1 DEF OfFindings
    <3> QED
      BY <1>8, <3>1, <3>2 DEF Pairs
  <2>2. ASSUME NEW x \in Pairs(fs) \cup Pairs(ps)
        PROVE  x \in OfFindings(Pairs(c))
    <3>1. PICK n \in fs \cup ps : x = <<n.key, n.value>>
      BY DEF Pairs
    <3>2. n \in c /\ n.key[1] \in {"fact", "problem"}
      BY <1>4, <1>8
    <3>3. x \in Pairs(c)
      BY <3>1, <3>2 DEF Pairs
    <3>4. x[1] = n.key
      BY <3>1
    <3> QED
      BY <3>2, <3>3, <3>4 DEF OfFindings
  <2> QED
    BY <2>1, <2>2
<1> QED
  BY <1>1, <1>2, <1>5, <1>6, <1>7, <1>9 DEF SaysBoth, c

\* A node that takes over from another keeps its own key and value.
LEMMA SuccessorsAre ==
    ASSUME NEW c, IsFiniteSet(c), AreNodes(c), KeyedOnce(c), NEW outdated
    PROVE  LET nodes == {Successor(n, outdated) : n \in c}
           IN  /\ IsFiniteSet(nodes) /\ KeyedOnce(nodes)
               /\ Pairs(nodes) = Pairs(c)
<1> DEFINE N(n) == Successor(n, outdated)
           f == [n \in c |-> N(n)]
           nodes == {N(n) : n \in c}
<1>1. \A n \in c : N(n).key = n.key /\ N(n).value = n.value
  <2> SUFFICES ASSUME NEW n \in c
               PROVE  N(n).key = n.key /\ N(n).value = n.value
    OBVIOUS
  <2>1. PICK k, v, t, o : n = Node(k, v, t, o)
    BY DEF AreNodes
  <2>2. \A x : [n EXCEPT !.created = x].key = n.key
               /\ [n EXCEPT !.created = x].value = n.value
    BY <2>1 DEF Node
  <2> QED
    BY <2>2 DEF Successor
<1>2. nodes = {f[n] : n \in c} /\ \A m \in nodes : \E n \in c : m = N(n)
  OBVIOUS
<1>3. \A n \in c : N(n) \in nodes
  OBVIOUS
<1> HIDE DEF f, nodes, N
<1>4. IsFiniteSet(nodes)
  BY <1>2, ImageIs
<1>5. KeyedOnce(nodes)
  <2> SUFFICES ASSUME NEW l \in nodes, NEW m \in nodes, l.key = m.key
               PROVE  l = m
    BY DEF KeyedOnce
  <2>1. PICK x \in c, y \in c : l = N(x) /\ m = N(y)
    BY <1>2
  <2> QED
    BY <1>1, <2>1 DEF KeyedOnce
<1>6. Pairs(nodes) = Pairs(c)
  <2>1. ASSUME NEW x \in Pairs(nodes)
        PROVE  x \in Pairs(c)
    <3>1. PICK m \in nodes : x = <<m.key, m.value>>
      BY DEF Pairs
    <3>2. PICK n \in c : m = N(n)
      BY <1>2
    <3> QED
      BY <1>1, <3>1, <3>2 DEF Pairs
  <2>2. ASSUME NEW x \in Pairs(c)
        PROVE  x \in Pairs(nodes)
    <3>1. PICK n \in c : x = <<n.key, n.value>>
      BY DEF Pairs
    <3>2. x = <<N(n).key, N(n).value>>
      BY <1>1, <3>1
    <3> QED
      BY <1>3, <3>2 DEF Pairs
  <2> QED
    BY <2>1, <2>2
<1> QED
  BY <1>4, <1>5, <1>6 DEF nodes, N

\* What the model says of one business and what it said of it before become what
\* it says of the next.
LEMMA ProjectIs ==
    ASSUME LimitAssumption, NEW b, NEW m, StarOf(m), ModelOf(m, b),
           NEW heard, BusinessOf(heard),
           Archives(heard.archivedFacts, b.archivedFacts, b.facts),
           Archives(heard.archivedProblems, b.archivedProblems, b.problems),
           NEW role, NEW fields, IsFiniteSet(DOMAIN fields)
    PROVE  LET p == Project(heard, role, fields, m)
           IN  StarOf(p) /\ ModelOf(p, heard)
<1> DEFINE c == Candidates(heard, role, fields)
           outdated == Outdated(m.nodes, c)
           nodes == {Successor(n, outdated) : n \in c}
           lost == m.edges \ Edges(nodes)
           p == Project(heard, role, fields, m)
<1>1. /\ IsFiniteSet(c) /\ AreNodes(c) /\ KeyedOnce(c)
      /\ OfFindings(Pairs(c)) = SaysBoth(heard)
  BY CandidatesAre
<1>2. /\ p.nodes = nodes /\ p.edges = Edges(nodes)
      /\ p.archived = LastItems(m.archived \o SetToSeq(outdated))
      /\ p.pastEdges = LastItems(m.pastEdges \o SetToSeq(lost))
  BY DEF Project
<1> HIDE DEF c, p
<1>3. IsFiniteSet(nodes) /\ KeyedOnce(nodes) /\ Pairs(nodes) = Pairs(c)
  BY <1>1, SuccessorsAre
<1>4. \A o \in m.nodes : o \in outdated \/ <<o.key, o.value>> \in Pairs(c)
  BY DEF Outdated, Pairs
<1>5. IsFiniteSet(outdated) /\ IsFiniteSet(lost)
  <2>1. outdated \subseteq m.nodes /\ lost \subseteq m.edges
    BY DEF Outdated
  <2> HIDE DEF outdated, lost
  <2> QED
    BY <2>1, FS_Subset DEF StarOf
<1> HIDE DEF nodes, outdated
<1>6. IsFiniteSet(Edges(nodes))
  <2> DEFINE key == [n \in nodes |-> n.key]
             K == {n.key : n \in nodes}
  <2>1. K = {key[n] : n \in nodes}
    OBVIOUS
  <2> HIDE DEF key, K
  <2>2. IsFiniteSet(K)
    BY <1>3, <2>1, ImageIs
  <2>3. IsFiniteSet(K \ {Root.key})
    BY <2>2, FS_Difference
  <2> QED
    BY <2>3 DEF Edges, K
<1> HIDE DEF lost
<1>7. /\ Listed(p.archived) /\ Len(p.archived) <= Limit
      /\ Len(p.archived) < Limit =>
             /\ Len(m.archived) < Limit
             /\ Range(m.archived) \cup outdated \subseteq Range(p.archived)
  <2>1. Listed(m.archived)
    BY DEF StarOf
  <2> QED
    BY <1>2, <1>5, <2>1, ArchivedIs
<1>8. Listed(p.pastEdges) /\ Len(p.pastEdges) <= Limit
  <2>1. Listed(m.pastEdges)
    BY DEF StarOf
  <2> QED
    BY <1>2, <1>5, <2>1, ArchivedIs
<1>9. StarOf(p)
  BY <1>2, <1>3, <1>6, <1>7, <1>8 DEF StarOf
<1>10. ASSUME Len(p.archived) < Limit
       PROVE  SaidBoth(heard) \subseteq Pairs(Range(p.archived)) \cup Pairs(nodes)
  <2> DEFINE past == Pairs(Range(p.archived))
  <2>1. Pairs(Range(m.archived)) \subseteq past
    BY <1>7, <1>10 DEF Pairs
  <2>2. Pairs(m.nodes) \subseteq past \cup Pairs(nodes)
    <3> SUFFICES ASSUME NEW o \in m.nodes
                 PROVE  <<o.key, o.value>> \in past \cup Pairs(nodes)
      BY DEF Pairs
    <3>1. CASE o \in outdated
      BY <1>7, <1>10, <3>1 DEF Pairs
    <3>2. CASE <<o.key, o.value>> \in Pairs(c)
      BY <1>3, <3>2
    <3> QED
      BY <1>4, <3>1, <3>2
  <2> HIDE DEF past
  <2>3. SaidBoth(b) \cup SaysBoth(b) \subseteq past \cup Pairs(nodes)
    <3>1. SaysBoth(b) \subseteq Pairs(m.nodes)
      BY DEF ModelOf, OfFindings
    <3>2. SaidBoth(b) \subseteq Pairs(Range(m.archived)) \cup Pairs(m.nodes)
      BY <1>7, <1>10 DEF ModelOf
    <3> QED
      BY <2>1, <2>2, <3>1, <3>2
  <2>4. SaidBoth(heard) \subseteq SaidBoth(b) \cup SaysBoth(b)
    <3> SUFFICES ASSUME NEW x \in SaidBoth(heard)
                 PROVE  x \in SaidBoth(b) \cup SaysBoth(b)
      OBVIOUS
    <3>1. CASE x \in SaidOf("fact", heard.archivedFacts)
      <4>1. PICK i \in DOMAIN heard.archivedFacts :
                x = <<<<"fact", heard.archivedFacts[i].kind>>,
                      heard.archivedFacts[i].value>>
        BY <3>1 DEF SaidOf, Range
      <4>2. \/ x \in SaidOf("fact", b.archivedFacts)
            \/ x \in SaidOf("fact", b.facts)
        BY <4>1 DEF Archives, SaidOf, Range
      <4> QED
        BY <4>2 DEF SaidBoth, SaysBoth
    <3>2. CASE x \in SaidOf("problem", heard.archivedProblems)
      <4>1. PICK i \in DOMAIN heard.archivedProblems :
                x = <<<<"problem", heard.archivedProblems[i].kind>>,
                      heard.archivedProblems[i].value>>
        BY <3>2 DEF SaidOf, Range
      <4>2. \/ x \in SaidOf("problem", b.archivedProblems)
            \/ x \in SaidOf("problem", b.problems)
        BY <4>1 DEF Archives, SaidOf, Range
      <4> QED
        BY <4>2 DEF SaidBoth, SaysBoth
    <3> QED
      BY <3>1, <3>2 DEF SaidBoth
  <2> QED
    BY <2>3, <2>4 DEF past
<1>11. ModelOf(p, heard)
  BY <1>1, <1>2, <1>3, <1>10 DEF ModelOf
<1> QED
  BY <1>9, <1>11 DEF p

-----------------------------------------------------------------------------
(* The theorems.                                                            *)

\* What the advice is at any time.
AdviceInv == AdviceOf(guidance, business, attitude, shown)

\* The inductive invariant.
IInv == BusinessInv /\ SteeringInv /\ ModelInv /\ AdviceInv

\* A call starts with nothing known.
LEMMA InitIsConsistent == Init => IInv
<1> SUFFICES ASSUME Init
             PROVE  IInv
  OBVIOUS
<1> USE DEF Init
<1>1. BusinessInv
  <2>1. \A S : <<>> \in Seq(S)
    OBVIOUS
  <2> QED
    BY <2>1 DEF BusinessInv, BusinessOf, NoBusiness, Unique
<1>2. SteeringInv
  <2>1. asked \in Seq(Priorities) /\ IsInjective(asked)
    BY DEF IsInjective
  <2> QED
    BY <2>1 DEF SteeringInv, SteeringOf
<1>3. StarOf(model)
  <2>1. <<>> \in Seq(Range(<<>>)) /\ Len(<<>>) <= Limit
    BY LimitAssumption DEF LimitAssumption
  <2> QED
    BY <2>1, FS_EmptySet DEF StarOf, NoModel, Listed, KeyedOnce
<1>4. ModelOf(model, business)
  BY DEF ModelOf, NoModel, NoBusiness, OfFindings, Pairs, SaysBoth, SaidBoth,
         SaidOf, Range
<1>5. AdviceInv
  BY DEF AdviceInv, AdviceOf
<1> QED
  BY <1>1, <1>2, <1>3, <1>4, <1>5 DEF IInv, ModelInv

\* A turn on the normal path.
LEMMA NormalTurnKeeps ==
    ASSUME IInv, NEW e \in Evidence, NEW a \in Attitudes, NEW o \in Eligible \cup {None},
           NormalTurn(e, a, o)
    PROVE  IInv'
<1>1. /\ EvidenceAssumption /\ PlaybooksAssumption /\ AttitudesAssumption
      /\ NoneAssumption /\ LimitAssumption
  BY EvidenceAssumption, PlaybooksAssumption, AttitudesAssumption,
     NoneAssumption, LimitAssumption
<1>2. BusinessInv /\ SteeringInv /\ ModelInv
  BY DEF IInv
<1> DEFINE heard == Filed(e)
           t == Steer(heard, a.mode, steering)
           g == Evaluate(PlaybookInput(heard, a))
<1>3. /\ turn' = turn + 1 /\ business' = heard /\ steering' = t
      /\ model' = Project(heard, a.role, a.qualification, model)
      /\ guidance' = g
      /\ attitude' = a /\ shown' = offered
      /\ asked' = IF t.decision = "ask_one" THEN Append(asked, t.priority) ELSE asked
  BY DEF NormalTurn
<1>4. /\ BusinessOf(heard) /\ Grows(business, heard)
      /\ Archives(heard.archivedFacts, business.archivedFacts, business.facts)
      /\ Archives(heard.archivedProblems, business.archivedProblems,
                  business.problems)
  BY <1>1, <1>2, FiledIs
<1> HIDE DEF heard
<1>5. BusinessInv'
  BY <1>2, <1>3, <1>4 DEF BusinessInv, BusinessOf
<1>6. SteeringInv'
  <2>1. SteeringOf(business, steering, asked)
    BY <1>2 DEF SteeringInv
  <2>2. SteeringOf(heard, t, IF t.decision = "ask_one"
                             THEN Append(asked, t.priority) ELSE asked)
    BY <1>1, <1>4, <2>1, SteersOn
  <2> HIDE DEF t
  <2> QED
    BY <1>3, <2>2 DEF SteeringInv
<1>7. ModelInv'
  <2>1. StarOf(model) /\ ModelOf(model, business)
    BY <1>2 DEF ModelInv
  <2>2. IsFiniteSet(DOMAIN a.qualification)
    BY <1>1 DEF AttitudesAssumption
  <2> DEFINE p == Project(heard, a.role, a.qualification, model)
  <2>3. StarOf(p) /\ ModelOf(p, heard)
    BY <1>1, <1>4, <2>1, <2>2, ProjectIs
  <2> HIDE DEF p
  <2>4. model' = p /\ business' = heard
    BY <1>3 DEF p
  <2> QED
    BY <2>3, <2>4 DEF ModelInv
<1>8. AdviceInv'
  <2>1. AdviceOf(g, heard, a, offered)
    BY <1>1, AdvisesWell
  <2> HIDE DEF g
  <2> QED
    BY <1>3, <2>1 DEF AdviceInv
<1> QED
  BY <1>5, <1>6, <1>7, <1>8 DEF IInv

\* A turn that trusted facts decide.
LEMMA DecidedTurnKeeps ==
    ASSUME IInv, DecidedTurn
    PROVE  IInv'
<1>1. /\ turn' = turn + 1 /\ steering' = None /\ guidance' = None
      /\ asked' = <<>> /\ business' = business /\ model' = model
  BY DEF DecidedTurn
<1>2. BusinessInv'
  BY <1>1 DEF IInv, BusinessInv
<1>3. SteeringInv'
  <2>1. asked' \in Seq(Priorities) /\ IsInjective(asked')
    BY <1>1 DEF IsInjective
  <2> QED
    BY <1>1, <2>1 DEF SteeringInv, SteeringOf
<1>4. ModelInv'
  BY <1>1 DEF IInv, ModelInv
<1>5. AdviceInv'
  BY <1>1 DEF AdviceInv, AdviceOf
<1> QED
  BY <1>2, <1>3, <1>4, <1>5 DEF IInv

\* IInv holds in every state of a call: what is known of the business, the
\* steering, the mental model and the advice fit each other.
THEOREM IInvCorrect == Spec => []IInv
<1>1. ASSUME IInv, [Next]_vars
      PROVE  IInv'
  <2>1. CASE Next
    BY <1>1, <2>1, NormalTurnKeeps, DecidedTurnKeeps DEF Next
  <2>2. CASE UNCHANGED vars
    BY <1>1, <2>2 DEF vars, IInv, BusinessInv, SteeringInv, ModelInv, AdviceInv
  <2> QED
    BY <1>1, <2>1, <2>2
<1> QED
  BY InitIsConsistent, <1>1, PTL DEF Spec

\* While nothing was taken back, no priority is asked about twice
\* (conversation_steering/engine.py:35-43).
THEOREM AskedOnceCorrect == Spec => []AskedOnce
<1>1. IInv => AskedOnce
  BY DEF IInv, SteeringInv, SteeringOf, Kept, AskedOnce
<1> QED
  BY IInvCorrect, <1>1, PTL

\* The mental model says what the conversation says now, and its archive what it
\* said before (business_memory/engine.py:90-119).
THEOREM ModelIsCurrentCorrect == Spec => []ModelIsCurrent
<1>1. ASSUME IInv
      PROVE  ModelIsCurrent
  <2>1. StarOf(model) /\ ModelOf(model, business)
    BY <1>1 DEF IInv, ModelInv
  <2>2. Cardinality({n.key : n \in model.nodes}) = Cardinality(model.nodes)
    BY <2>1, OneKeyEach DEF StarOf
  <2> DEFINE said(name, findings) ==
                 {<<<<name, f.kind>>, f.value>> : f \in Range(findings)}
             now == {<<n.key, n.value>> : n \in model.nodes}
             past == {<<n.key, n.value>> : n \in Range(model.archived)}
  <2>3. /\ said("fact", business.facts) \cup said("problem", business.problems)
               = SaysBoth(business)
        /\ said("fact", business.archivedFacts)
               \cup said("problem", business.archivedProblems)
               = SaidBoth(business)
    BY DEF SaysBoth, SaidBoth, SaidOf
  <2>4. now = Pairs(model.nodes) /\ past = Pairs(Range(model.archived))
    BY DEF Pairs
  <2>5. OfFindings(Pairs(model.nodes)) = {n \in now : n[1][1] \in {"fact", "problem"}}
    BY <2>4 DEF OfFindings
  <2>6. model.nodes # {} =>
            model.edges = {n.key : n \in model.nodes} \ {Root.key}
    BY <2>1 DEF StarOf, Edges
  <2>7. Len(model.archived) <= Limit /\ Len(model.pastEdges) <= Limit
    BY <2>1 DEF StarOf
  <2> HIDE DEF said, now, past
  <2>8. /\ said("fact", business.facts) \cup said("problem", business.problems)
               = {n \in now : n[1][1] \in {"fact", "problem"}}
        /\ Len(model.archived) < Limit =>
               said("fact", business.archivedFacts)
               \cup said("problem", business.archivedProblems)
                   \subseteq past \cup now
    BY <2>1, <2>3, <2>4, <2>5 DEF ModelOf
  <2> QED
    BY <2>2, <2>6, <2>7, <2>8 DEF ModelIsCurrent, said, now, past
<1> QED
  BY IInvCorrect, <1>1, PTL

\* The advice fits what was heard (sales_playbook/engine.py:126-161, 203-221).
THEOREM AdviceFitsCorrect == Spec => []AdviceFits
<1>1. IInv => AdviceFits
  BY DEF IInv, AdviceInv, AdviceOf, AdviceFits
<1> QED
  BY IInvCorrect, <1>1, PTL
=============================================================================
