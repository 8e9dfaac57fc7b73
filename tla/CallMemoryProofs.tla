--------------------------- MODULE CallMemoryProofs ---------------------------
(* What a call remembers is whose it is: proofs about CallMemory.             *)
EXTENDS CallMemory, SequenceTheorems, FiniteSetTheorems, TLAPS

-----------------------------------------------------------------------------
(* Induction, and what the functions on sequences give.                     *)

\* What holds of 0 and of the successor of each number it holds of holds of all.
LEMMA Counting ==
    ASSUME NEW S, 0 \in S, \A n \in Nat : n \in S => n + 1 \in S
    PROVE  \A n \in Nat : n \in S
<1> SUFFICES ASSUME NEW k \in Nat, k \notin S
             PROVE  FALSE
  OBVIOUS
<1> DEFINE T == Nat \ S
<1>1. PICK n \in T : \A m \in T : ~(<<m, n>> \in OpToRel(<, Nat))
  BY NatLessThanWellFounded, WFMin
<1>2. \A m \in T : ~(m < n)
  BY <1>1 DEF OpToRel
<1>3. n # 0 /\ n - 1 \in Nat
  OBVIOUS
<1>4. n - 1 \in S
  BY <1>2, <1>3
<1> QED
  BY <1>3, <1>4

\* The observations kept of the first n.
Keeps(s, kinds, n, f) ==
    f = [i \in 0..n |->
            IF i = 0 THEN <<>>
            ELSE IF s[i].kind \in kinds THEN Append(f[i - 1], s[i])
            ELSE f[i - 1]]

\* There is such a function for each length.
LEMMA KeepsExists ==
    ASSUME NEW s, NEW kinds, NEW n \in Nat
    PROVE  \E f : Keeps(s, kinds, n, f)
<1> DEFINE S == {k \in Nat : \E f : Keeps(s, kinds, k, f)}
<1>1. 0 \in S
  <2> DEFINE f == [i \in 0..0 |-> <<>>]
  <2>1. Keeps(s, kinds, 0, f)
    BY DEF Keeps
  <2> QED
    BY <2>1
<1>2. ASSUME NEW k \in Nat, k \in S
      PROVE  k + 1 \in S
  <2>1. PICK f : Keeps(s, kinds, k, f)
    BY <1>2
  <2> DEFINE g == [i \in 0..(k + 1) |->
                     IF i # k + 1 THEN f[i]
                     ELSE IF s[i].kind \in kinds THEN Append(f[k], s[i])
                     ELSE f[k]]
  <2>2. \A i \in 0..k : g[i] = f[i]
    OBVIOUS
  <2>3. g[k + 1] = IF s[k + 1].kind \in kinds THEN Append(f[k], s[k + 1]) ELSE f[k]
    OBVIOUS
  <2>4. \A i \in 0..k : f[i] = IF i = 0 THEN <<>>
            ELSE IF s[i].kind \in kinds THEN Append(f[i - 1], s[i])
            ELSE f[i - 1]
    BY <2>1 DEF Keeps
  <2>5. \A i \in 0..(k + 1) : g[i] = IF i = 0 THEN <<>>
            ELSE IF s[i].kind \in kinds THEN Append(g[i - 1], s[i])
            ELSE g[i - 1]
    BY <2>2, <2>3, <2>4
  <2>6. g = [i \in 0..(k + 1) |-> g[i]]
    OBVIOUS
  <2> HIDE DEF g
  <2>7. Keeps(s, kinds, k + 1, g)
    BY <2>5, <2>6 DEF Keeps
  <2> QED
    BY <2>7
<1> HIDE DEF S
<1>3. n \in S
  BY <1>1, <1>2, Counting
<1> QED
  BY <1>3 DEF S

Unique(s) == \A i, j \in DOMAIN s : s[i].kind = s[j].kind => i = j

\* What is kept of a kind stands in the sequence, and once if it stood there once.
LEMMA OfKindsIs ==
    ASSUME NEW S, NEW s \in Seq(S), NEW kinds
    PROVE  LET r == OfKinds(s, kinds)
           IN  /\ r \in Seq(S)
               /\ \A i \in DOMAIN r : \E j \in DOMAIN s :
                      r[i] = s[j] /\ s[j].kind \in kinds
               /\ Unique(s) => Unique(r)
<1>1. Len(s) \in Nat /\ DOMAIN s = 1..Len(s)
  OBVIOUS
<1>2. \E f : Keeps(s, kinds, Len(s), f)
  BY <1>1, KeepsExists
<1>3. PICK f : Keeps(s, kinds, Len(s), f) /\ OfKinds(s, kinds) = f[Len(s)]
  BY <1>2 DEF Keeps, OfKinds
<1> DEFINE P(n) ==
        /\ f[n] \in Seq(S)
        /\ \A i \in DOMAIN f[n] : \E j \in 1..n :
              f[n][i] = s[j] /\ s[j].kind \in kinds
        /\ Unique(s) => Unique(f[n])
<1> DEFINE N == {n \in Nat : n <= Len(s) => P(n)}
<1>4. 0 \in N
  <2>1. f[0] = <<>>
    BY <1>1, <1>3 DEF Keeps
  <2>2. f[0] \in Seq(S) /\ DOMAIN f[0] = {}
    BY <2>1
  <2>3. Unique(f[0])
    BY <2>2 DEF Unique
  <2> QED
    BY <2>2, <2>3
<1>5. ASSUME NEW n \in Nat, n \in N
      PROVE  n + 1 \in N
  <2> SUFFICES ASSUME n + 1 <= Len(s)
               PROVE  P(n + 1)
    OBVIOUS
  <2>1. P(n)
    BY <1>1, <1>5
  <2>2. f[n + 1] = IF s[n + 1].kind \in kinds THEN Append(f[n], s[n + 1]) ELSE f[n]
    <3>1. \A i \in 0..Len(s) : f[i] = IF i = 0 THEN <<>>
              ELSE IF s[i].kind \in kinds THEN Append(f[i - 1], s[i])
              ELSE f[i - 1]
      BY <1>3 DEF Keeps
    <3>2. n + 1 \in 0..Len(s) /\ n + 1 # 0 /\ (n + 1) - 1 = n
      BY <1>1
    <3> QED
      BY <3>1, <3>2
  <2>3. n + 1 \in DOMAIN s /\ s[n + 1] \in S
    BY <1>1
  <2>4. CASE s[n + 1].kind \notin kinds
    BY <2>1, <2>2, <2>4
  <2>5. CASE s[n + 1].kind \in kinds
    <3> DEFINE q == f[n]
               r == f[n + 1]
    <3>1. r = Append(q, s[n + 1])
      BY <2>2, <2>5
    <3>2. /\ q \in Seq(S) /\ Len(q) \in Nat /\ DOMAIN q = 1..Len(q)
          /\ r \in Seq(S) /\ DOMAIN r = 1..(Len(q) + 1)
          /\ r[Len(q) + 1] = s[n + 1]
          /\ \A i \in DOMAIN q : r[i] = q[i]
      BY <2>1, <2>3, <3>1
    <3>3. \A i \in DOMAIN r : \E j \in 1..(n + 1) :
              r[i] = s[j] /\ s[j].kind \in kinds
      <4> SUFFICES ASSUME NEW i \in DOMAIN r
                   PROVE  \E j \in 1..(n + 1) : r[i] = s[j] /\ s[j].kind \in kinds
        OBVIOUS
      <4>1. CASE i = Len(q) + 1
        BY <2>5, <3>2, <4>1
      <4>2. CASE i # Len(q) + 1
        <5>1. i \in DOMAIN q
          BY <3>2, <4>2
        <5>2. PICK j \in 1..n : q[i] = s[j] /\ s[j].kind \in kinds
          BY <2>1, <5>1
        <5> QED
          BY <3>2, <5>1, <5>2
      <4> QED
        BY <4>1, <4>2
    <3>4. ASSUME Unique(s)
          PROVE  Unique(r)
      <4>1. Unique(q)
        BY <2>1, <3>4
      <4>2. \A i \in DOMAIN q : q[i].kind # s[n + 1].kind
        <5> SUFFICES ASSUME NEW i \in DOMAIN q
                     PROVE  q[i].kind # s[n + 1].kind
          OBVIOUS
        <5>1. PICK j \in 1..n : q[i] = s[j]
          BY <2>1
        <5> QED
          BY <1>1, <2>3, <3>4, <5>1 DEF Unique
      <4> SUFFICES ASSUME NEW i \in DOMAIN r, NEW j \in DOMAIN r,
                          r[i].kind = r[j].kind
                   PROVE  i = j
        BY DEF Unique
      <4>3. \A k \in DOMAIN r : k \in DOMAIN q \/ k = Len(q) + 1
        BY <3>2
      <4> HIDE DEF q, r
      <4>4. CASE i \in DOMAIN q /\ j \in DOMAIN q
        BY <3>2, <4>1, <4>4 DEF Unique
      <4>5. CASE i = Len(q) + 1 /\ j \in DOMAIN q
        BY <3>2, <4>2, <4>5
      <4>6. CASE j = Len(q) + 1 /\ i \in DOMAIN q
        BY <3>2, <4>2, <4>6
      <4> QED
        BY <4>3, <4>4, <4>5, <4>6
    <3> QED
      BY <3>2, <3>3, <3>4
  <2> QED
    BY <2>4, <2>5
<1> HIDE DEF N
<1>6. Len(s) \in N
  BY <1>1, <1>4, <1>5, Counting
<1>7. P(Len(s))
  BY <1>1, <1>6 DEF N
<1> QED
  BY <1>1, <1>3, <1>7

\* The latest of each kind among the first n.
Collects(s, n, f) ==
    f = [i \in 0..n |->
            IF i = 0 THEN <<>>
            ELSE IF s[i].kind \notin Kinds(f[i - 1]) THEN Append(f[i - 1], s[i])
            ELSE [k \in DOMAIN f[i - 1] |->
                    IF f[i - 1][k].kind = s[i].kind THEN s[i] ELSE f[i - 1][k]]]

\* There is such a function for each length.
LEMMA CollectsExists ==
    ASSUME NEW s, NEW n \in Nat
    PROVE  \E f : Collects(s, n, f)
<1> DEFINE Next_(q, o) ==
        IF o.kind \notin Kinds(q) THEN Append(q, o)
        ELSE [k \in DOMAIN q |-> IF q[k].kind = o.kind THEN o ELSE q[k]]
<1> DEFINE S == {k \in Nat : \E f : Collects(s, k, f)}
<1>1. 0 \in S
  <2> DEFINE f == [i \in 0..0 |-> <<>>]
  <2>1. Collects(s, 0, f)
    BY DEF Collects
  <2> QED
    BY <2>1
<1>2. ASSUME NEW k \in Nat, k \in S
      PROVE  k + 1 \in S
  <2>1. PICK f : Collects(s, k, f)
    BY <1>2
  <2> DEFINE g == [i \in 0..(k + 1) |->
                     IF i # k + 1 THEN f[i] ELSE Next_(f[k], s[i])]
  <2>2. \A i \in 0..k : f[i] = IF i = 0 THEN <<>> ELSE Next_(f[i - 1], s[i])
    BY <2>1 DEF Collects
  <2> HIDE DEF Next_
  <2>3. \A i \in 0..k : g[i] = f[i]
    OBVIOUS
  <2>4. g[k + 1] = Next_(f[k], s[k + 1])
    OBVIOUS
  <2>5. \A i \in 0..(k + 1) : g[i] = IF i = 0 THEN <<>> ELSE Next_(g[i - 1], s[i])
    BY <2>2, <2>3, <2>4
  <2>6. g = [i \in 0..(k + 1) |-> g[i]]
    OBVIOUS
  <2> HIDE DEF g
  <2>7. g = [i \in 0..(k + 1) |-> IF i = 0 THEN <<>> ELSE Next_(g[i - 1], s[i])]
    BY <2>5, <2>6
  <2>8. Collects(s, k + 1, g)
    BY <2>7 DEF Collects, Next_
  <2> QED
    BY <2>8
<1> HIDE DEF S
<1>3. n \in S
  BY <1>1, <1>2, Counting
<1> QED
  BY <1>3 DEF S

\* It is made of the sequence's own and holds each kind once.
LEMMA LastPerKindIs ==
    ASSUME NEW S, NEW s \in Seq(S)
    PROVE  LET r == LastPerKind(s)
           IN  /\ r \in Seq(S) /\ Unique(r)
               /\ \A i \in DOMAIN r : \E j \in DOMAIN s : r[i] = s[j]
<1>1. Len(s) \in Nat /\ DOMAIN s = 1..Len(s)
  OBVIOUS
<1>2. \E f : Collects(s, Len(s), f)
  BY <1>1, CollectsExists
<1>3. PICK f : Collects(s, Len(s), f) /\ LastPerKind(s) = f[Len(s)]
  BY <1>2 DEF Collects, LastPerKind
<1> DEFINE P(n) ==
        /\ f[n] \in Seq(S) /\ Unique(f[n])
        /\ \A i \in DOMAIN f[n] : \E j \in 1..n : f[n][i] = s[j]
<1> DEFINE N == {n \in Nat : n <= Len(s) => P(n)}
<1>4. 0 \in N
  <2>1. f[0] = <<>>
    BY <1>1, <1>3 DEF Collects
  <2>2. f[0] \in Seq(S) /\ DOMAIN f[0] = {}
    BY <2>1
  <2>3. Unique(f[0])
    BY <2>2 DEF Unique
  <2> QED
    BY <2>2, <2>3
<1>5. ASSUME NEW n \in Nat, n \in N
      PROVE  n + 1 \in N
  <2> SUFFICES ASSUME n + 1 <= Len(s)
               PROVE  P(n + 1)
    OBVIOUS
  <2> DEFINE q == f[n]
             r == f[n + 1]
             o == s[n + 1]
  <2>1. P(n)
    BY <1>1, <1>5
  <2>2. r = IF o.kind \notin Kinds(q) THEN Append(q, o)
            ELSE [k \in DOMAIN q |-> IF q[k].kind = o.kind THEN o ELSE q[k]]
    <3>1. \A i \in 0..Len(s) : f[i] = IF i = 0 THEN <<>>
              ELSE IF s[i].kind \notin Kinds(f[i - 1]) THEN Append(f[i - 1], s[i])
              ELSE [k \in DOMAIN f[i - 1] |->
                      IF f[i - 1][k].kind = s[i].kind THEN s[i] ELSE f[i - 1][k]]
      BY <1>3 DEF Collects
    <3>2. n + 1 \in 0..Len(s) /\ n + 1 # 0 /\ (n + 1) - 1 = n
      BY <1>1
    <3> HIDE DEF P, N
    <3> QED
      BY <3>1, <3>2
  <2>3. /\ o \in S
        /\ q \in Seq(S) /\ Len(q) \in Nat /\ DOMAIN q = 1..Len(q)
        /\ \A i \in DOMAIN q : q[i] \in S
    BY <1>1, <2>1
  <2>4. \A i \in DOMAIN q : \E j \in 1..(n + 1) : q[i] = s[j]
    BY <2>1
  <2>5. Unique(q)
    BY <2>1
  <2> HIDE DEF q, r, P
  <2>6. CASE o.kind \in Kinds(q)
    <3>1. r = [k \in 1..Len(q) |-> IF q[k].kind = o.kind THEN o ELSE q[k]]
      BY <2>2, <2>3, <2>6
    <3>2. r \in Seq(S) /\ DOMAIN r = DOMAIN q
      <4>1. \A k \in 1..Len(q) : (IF q[k].kind = o.kind THEN o ELSE q[k]) \in S
        BY <2>3
      <4> HIDE DEF o
      <4> QED
        BY <2>3, <3>1, <4>1
    <3>3. \A i \in DOMAIN q : r[i] = IF q[i].kind = o.kind THEN o ELSE q[i]
      BY <2>3, <3>1
    <3>4. \A i \in DOMAIN q : r[i].kind = q[i].kind
      BY <3>3
    <3>5. Unique(r)
      BY <2>5, <3>2, <3>4 DEF Unique
    <3>6. \A i \in DOMAIN r : \E j \in 1..(n + 1) : r[i] = s[j]
      BY <2>4, <3>2, <3>3
    <3> QED
      BY <3>2, <3>5, <3>6 DEF P, r
  <2>7. CASE o.kind \notin Kinds(q)
    <3>1. r = Append(q, o)
      BY <2>2, <2>7
    <3>2. /\ r \in Seq(S) /\ DOMAIN r = 1..(Len(q) + 1)
          /\ r[Len(q) + 1] = o /\ \A i \in DOMAIN q : r[i] = q[i]
      BY <2>3, <3>1
    <3>3. \A k \in DOMAIN r : k \in DOMAIN q \/ k = Len(q) + 1
      BY <2>3, <3>2
    <3>4. \A i \in DOMAIN r : \E j \in 1..(n + 1) : r[i] = s[j]
      BY <2>4, <3>2, <3>3
    <3>5. \A i \in DOMAIN q : q[i].kind # o.kind
      BY <2>7 DEF Kinds
    <3> HIDE DEF o
    <3>6. \A i, j \in DOMAIN r : r[i].kind = r[j].kind => i = j
      BY <2>5, <3>2, <3>3, <3>5 DEF Unique
    <3>7. Unique(r)
      BY <3>6 DEF Unique
    <3> QED
      BY <3>2, <3>4, <3>7 DEF P, r
  <2> QED
    BY <2>6, <2>7
<1> HIDE DEF N
<1>6. Len(s) \in N
  BY <1>1, <1>4, <1>5, Counting
<1>7. P(Len(s))
  BY <1>1, <1>6 DEF N
<1> QED
  BY <1>1, <1>3, <1>7

\* A sequence is the end of another.
EndOf(r, s) == \E d \in Nat : \A i \in DOMAIN r :
                   i + d \in DOMAIN s /\ r[i] = s[i + d]

LastOf(s, k) == IF Len(s) <= k THEN s ELSE SubSeq(s, Len(s) - k + 1, Len(s))

\* The last so many of a sequence are its end, and some if there are any.
LEMMA LastOfIs ==
    ASSUME NEW S, NEW s \in Seq(S), NEW k \in Nat \ {0}
    PROVE  /\ LastOf(s, k) \in Seq(S)
           /\ EndOf(LastOf(s, k), s)
           /\ s # <<>> => LastOf(s, k) # <<>>
<1> DEFINE r == LastOf(s, k)
<1>1. Len(s) \in Nat /\ DOMAIN s = 1..Len(s)
  OBVIOUS
<1>2. CASE Len(s) <= k
  <2>1. r = s
    BY <1>2 DEF LastOf
  <2>2. \A i \in DOMAIN s : i + 0 \in DOMAIN s /\ s[i] = s[i + 0]
    BY <1>1
  <2> QED
    BY <2>1, <2>2 DEF EndOf
<1>3. CASE Len(s) > k
  <2> DEFINE d == Len(s) - k
  <2>1. d \in Nat /\ d > 0
    BY <1>1, <1>3
  <2>2. r = SubSeq(s, Len(s) - k + 1, Len(s))
    BY <1>1, <1>3 DEF LastOf
  <2>3. /\ r \in Seq(S) /\ Len(r) = k
        /\ \A i \in 1..k : r[i] = s[Len(s) - k + 1 + i - 1]
    BY <1>1, <1>3, <2>2, SubSeqProperties
  <2> HIDE DEF r
  <2>4. \A i \in DOMAIN r : i + d \in DOMAIN s /\ r[i] = s[i + d]
    BY <1>1, <1>3, <2>1, <2>3
  <2>5. r # <<>>
    BY <2>3
  <2> HIDE DEF d
  <2>6. EndOf(r, s)
    BY <2>1, <2>4 DEF EndOf
  <2> QED
    BY <2>3, <2>5, <2>6 DEF r
<1> QED
  BY <1>1, <1>2, <1>3

-----------------------------------------------------------------------------
(* The picture of a person.                                                 *)

\* Nothing is inferred where a statement answers it.
Settled(intel) == \A s \in Shadowed(intel.observed) : intel.inferred[s] = 0

\* What an update takes in.
Said == [source : Nat, stated : SUBSET StatedSlots, pain : BOOLEAN,
         solution : {"absent", "unrated", "rated"},
         inferred : SUBSET InferredSlots]

\* The pains kept are earlier ones and the one of the turn.
LEMMA PainsIs ==
    ASSUME NEW pains \in Seq(Nat), NEW source \in Nat
    PROVE  LET after == LatestPains(Append(pains, source))
           IN  /\ after \in Seq(Nat)
               /\ after # <<>>
               /\ \A i \in DOMAIN after :
                      after[i] = source \/ \E j \in DOMAIN pains : after[i] = pains[j]
<1> DEFINE s == Append(pains, source)
           after == LatestPains(s)
<1>1. /\ s \in Seq(Nat) /\ s # <<>>
      /\ \A i \in DOMAIN s : s[i] = source \/ \E j \in DOMAIN pains : s[i] = pains[j]
  OBVIOUS
<1> HIDE DEF s
<1>2. after = LastOf(s, MaxPains) /\ MaxPains \in Nat \ {0}
  BY DEF LatestPains, LastOf, MaxPains
<1>3. after \in Seq(Nat) /\ EndOf(after, s) /\ after # <<>>
  BY <1>1, <1>2, LastOfIs
<1>4. PICK d \in Nat : \A i \in DOMAIN after : i + d \in DOMAIN s /\ after[i] = s[i + d]
  BY <1>3 DEF EndOf
<1> HIDE DEF after
<1>5. \A i \in DOMAIN after :
          after[i] = source \/ \E j \in DOMAIN pains : after[i] = pains[j]
  BY <1>1, <1>4
<1> QED
  BY <1>3, <1>5 DEF after, s

\* An update keeps the picture settled and adds no turn but its own.
LEMMA UpdateIs ==
    ASSUME NEW p \in Intelligence, NEW e \in Said
    PROVE  LET q == Update(p, e)
           IN  /\ q \in Intelligence
               /\ Settled(q)
               /\ StatedIn(q) \subseteq StatedIn(p) \cup {e.source}
               /\ e.stated = {} /\ ~e.pain /\ e.solution = "absent"
                      => StatedIn(q) \subseteq StatedIn(p)
<1> DEFINE q == Update(p, e)
           o == p.observed
           said == Set(e.stated, o.said, e.source)
           pains == IF e.pain THEN LatestPains(Append(o.pains, e.source)) ELSE o.pains
           solution == IF e.solution = "absent" THEN o.solution
                       ELSE [source |-> e.source, rated |-> e.solution = "rated"]
           void == Answered(e) \cup Shadowed(o)
           inferred == Set(void, Set(e.inferred, p.inferred, e.source), 0)
<1>1. /\ e.source \in Nat /\ e.stated \subseteq StatedSlots /\ e.pain \in BOOLEAN
      /\ e.solution \in {"absent", "unrated", "rated"}
      /\ e.inferred \subseteq InferredSlots
  BY DEF Said
<1>2. /\ o.said \in [StatedSlots -> Nat] /\ o.pains \in Seq(Nat)
      /\ o.solution \in Solutions /\ o.solution.source \in Nat
      /\ o.solution.rated \in BOOLEAN
      /\ p.inferred \in [InferredSlots -> Nat]
  BY DEF Intelligence, ObservedFacts, Solutions
<1>3. /\ said \in [StatedSlots -> Nat]
      /\ \A s \in StatedSlots : said[s] = IF s \in e.stated THEN e.source ELSE o.said[s]
  BY <1>1, <1>2 DEF Set
<1>4. /\ inferred \in [InferredSlots -> Nat]
      /\ \A s \in InferredSlots : s \in void => inferred[s] = 0
  BY <1>1, <1>2 DEF Set
<1>5. /\ pains \in Seq(Nat)
      /\ e.pain => pains # <<>>
      /\ ~e.pain => pains = o.pains
      /\ \A i \in DOMAIN pains :
             (e.pain /\ pains[i] = e.source) \/ \E j \in DOMAIN o.pains : pains[i] = o.pains[j]
  <2>1. CASE e.pain
    BY <1>1, <1>2, <2>1, PainsIs
  <2>2. CASE ~e.pain
    BY <1>1, <1>2, <2>2
  <2> QED
    BY <1>1, <2>1, <2>2
<1>6. /\ solution \in Solutions
      /\ e.solution = "absent" => solution = o.solution
      /\ e.solution # "absent" => solution.source = e.source
      /\ solution.rated => e.solution = "rated"
             \/ (e.solution = "absent" /\ o.solution.rated)
  <2>1. CASE e.solution = "absent"
    BY <1>2, <2>1
  <2>2. CASE e.solution # "absent"
    <3> DEFINE rated == e.solution = "rated"
    <3>1. rated \in BOOLEAN
      OBVIOUS
    <3> HIDE DEF rated
    <3>2. solution = [source |-> e.source, rated |-> rated]
      BY <2>2 DEF rated
    <3>3. solution \in Solutions /\ solution.source = e.source /\ solution.rated = rated
      BY <1>1, <3>1, <3>2 DEF Solutions
    <3> HIDE DEF solution
    <3>4. solution.rated => e.solution = "rated"
      BY <3>3, Zenon DEF rated
    <3> QED
      BY <2>2, <3>3, <3>4
  <2> QED
    BY <2>1, <2>2
<1>7. q = [observed |-> [said |-> said, pains |-> pains, solution |-> solution],
           inferred |-> inferred]
  BY DEF Update, Observed
<1> HIDE DEF q, said, pains, solution, void, inferred
<1>8. /\ q.observed.said = said /\ q.observed.pains = pains
      /\ q.observed.solution = solution /\ q.inferred = inferred
  BY <1>7
<1>9. q \in Intelligence
  BY <1>3, <1>4, <1>5, <1>6, <1>7 DEF Intelligence, ObservedFacts
<1>10. Settled(q)
  <2> SUFFICES ASSUME NEW s \in Shadowed(q.observed)
               PROVE  inferred[s] = 0
    BY <1>8 DEF Settled
  <2>1. s \in InferredSlots /\ (s \in SharedSlots => s \in StatedSlots)
    BY DEF Shadowed, InferredSlots, StatedSlots
  <2>2. s \in void
    <3>1. CASE s \in SharedSlots /\ said[s] # 0
      <4>1. s \in e.stated \/ o.said[s] # 0
        BY <1>3, <2>1, <3>1
      <4> QED
        BY <3>1, <4>1 DEF void, Answered, Shadowed
    <3>2. CASE s = "pain" /\ pains # <<>>
      <4>1. e.pain \/ o.pains # <<>>
        BY <1>5, <3>2
      <4> QED
        BY <3>2, <4>1 DEF void, Answered, Shadowed
    <3>3. CASE s = "satisfaction" /\ solution.rated
      <4>1. e.solution # "absent" \/ o.solution.rated
        BY <1>6, <3>3
      <4> QED
        BY <3>3, <4>1 DEF void, Answered, Shadowed
    <3> QED
      BY <1>8, <3>1, <3>2, <3>3 DEF Shadowed
  <2> QED
    BY <1>4, <2>1, <2>2
<1>11. /\ StatedIn(q) \subseteq StatedIn(p) \cup {e.source}
       /\ e.stated = {} /\ ~e.pain /\ e.solution = "absent"
              => StatedIn(q) \subseteq StatedIn(p)
  <2> SUFFICES ASSUME NEW a \in StatedIn(q)
               PROVE  /\ a \in StatedIn(p) \/ a = e.source
                      /\ e.stated = {} /\ ~e.pain /\ e.solution = "absent"
                             => a \in StatedIn(p)
    OBVIOUS
  <2>1. a # 0
    BY DEF StatedIn
  <2>2. CASE \E s \in StatedSlots : a = said[s]
    <3>1. PICK s \in StatedSlots : a = said[s]
      BY <2>2
    <3>2. CASE s \in e.stated
      BY <1>3, <3>1, <3>2
    <3>3. CASE s \notin e.stated
      <4>1. a = o.said[s]
        BY <1>3, <3>1, <3>3
      <4> QED
        BY <2>1, <4>1 DEF StatedIn
    <3> QED
      BY <3>2, <3>3
  <2>3. CASE \E i \in DOMAIN pains : a = pains[i]
    <3>1. (e.pain /\ a = e.source) \/ \E j \in DOMAIN o.pains : a = o.pains[j]
      BY <1>5, <2>3
    <3>2. CASE \E j \in DOMAIN o.pains : a = o.pains[j]
      BY <2>1, <3>2 DEF StatedIn
    <3> QED
      BY <3>1, <3>2
  <2>4. CASE a = solution.source
    <3>1. CASE e.solution = "absent"
      <4>1. a = o.solution.source
        BY <1>6, <2>4, <3>1
      <4> QED
        BY <2>1, <4>1 DEF StatedIn
    <3>2. CASE e.solution # "absent"
      BY <1>6, <2>4, <3>2
    <3> QED
      BY <3>1, <3>2
  <2> QED
    BY <1>8, <2>2, <2>3, <2>4 DEF StatedIn
<1> QED
  BY <1>9, <1>10, <1>11 DEF q

\* Of a new person nothing was said and nothing is inferred.
LEMMA NothingKnownIs ==
    NothingKnown \in Intelligence /\ Settled(NothingKnown) /\ StatedIn(NothingKnown) = {}
<1> DEFINE none == [s \in StatedSlots |-> 0]
           guesses == [s \in InferredSlots |-> 0]
<1>1. none \in [StatedSlots -> Nat] /\ guesses \in [InferredSlots -> Nat]
  OBVIOUS
<1>2. \A s \in StatedSlots : none[s] = 0
  OBVIOUS
<1>3. \A s \in InferredSlots : guesses[s] = 0
  OBVIOUS
<1> HIDE DEF none, guesses
<1>4. /\ NothingKnown.observed.said = none /\ NothingKnown.observed.pains = <<>>
      /\ NothingKnown.observed.solution = [source |-> 0, rated |-> FALSE]
      /\ NothingKnown.inferred = guesses
  BY DEF NothingKnown, none, guesses
<1>5. NothingKnown \in Intelligence
  <2>1. <<>> \in Seq(Nat)
    OBVIOUS
  <2> QED
    BY <1>1, <2>1 DEF NothingKnown, Intelligence, ObservedFacts, Solutions, none, guesses
<1>6. Shadowed(NothingKnown.observed) \subseteq InferredSlots
  BY DEF Shadowed, InferredSlots
<1>7. Settled(NothingKnown)
  BY <1>3, <1>4, <1>6 DEF Settled
<1>8. DOMAIN <<>> = {}
  OBVIOUS
<1>9. StatedIn(NothingKnown) = {}
  BY <1>2, <1>4, <1>8 DEF StatedIn
<1> QED
  BY <1>5, <1>7, <1>9

\* What is written of a picture reads as the picture.
LEMMA ReadBack ==
    ASSUME NEW p \in Intelligence
    PROVE  ProspectFrom(ProspectPayload(p)) = p
<1> DEFINE said == p.observed.said
<1>1. said \in [StatedSlots -> Nat] /\ p.inferred \in [InferredSlots -> Nat]
  BY DEF Intelligence, ObservedFacts
<1>2. ASSUME NEW slots, NEW f \in [slots -> Nat]
      PROVE  Read(slots, Written(f)) = f
  <2>1. DOMAIN Written(f) = {s \in slots : f[s] # 0}
    BY DEF Written, Known
  <2>2. \A s \in slots : f[s] # 0 => Written(f)[s] = f[s]
    BY DEF Written, Known
  <2>3. \A s \in slots : Read(slots, Written(f))[s] = f[s]
    BY <2>1, <2>2 DEF Read
  <2> QED
    BY <2>3 DEF Read
<1>3. Read(StatedSlots, Written(said)) = said
      /\ Read(InferredSlots, Written(p.inferred)) = p.inferred
  BY <1>1, <1>2
<1>4. ProspectFrom(ProspectPayload(p)) =
          [observed |-> [said |-> said, pains |-> p.observed.pains,
                         solution |-> p.observed.solution],
           inferred |-> p.inferred]
  BY <1>3 DEF ProspectFrom, ProspectPayload
<1> QED
  BY <1>4 DEF Intelligence, ObservedFacts

-----------------------------------------------------------------------------
(* The business.                                                            *)

\* No observation is later than a turn.
Dated(s, t) == \A i \in DOMAIN s : s[i].source <= t

\* One value of each fact, no older than those that were archived, and none of
\* a later turn.
FactsStand(facts, archive, t) ==
    /\ Unique(facts)
    /\ Dated(facts, t)
    /\ Dated(archive, t)
    /\ \A i \in DOMAIN facts, j \in DOMAIN archive :
           facts[i].kind = archive[j].kind => archive[j].source <= facts[i].source

\* What stands at the end of a sequence stands in it.
LEMMA EndIs ==
    ASSUME NEW r, NEW s, EndOf(r, s)
    PROVE  \A i \in DOMAIN r : \E j \in DOMAIN s : r[i] = s[j]
BY DEF EndOf

\* A current observation was retained, and nothing new touches its kind, or it is
\* new; each kind has one.
LEMMA ReconcileIs ==
    ASSUME NEW K, NEW current \in Seq(Findings(K)), NEW incoming \in Seq(Findings(K)),
           NEW corrections
    PROVE  LET r == Reconcile(current, incoming, corrections)
           IN  /\ r \in Seq(Findings(K))
               /\ Unique(current) => Unique(r)
               /\ \A i \in DOMAIN r :
                      \/ \E j \in DOMAIN current :
                            /\ r[i] = current[j]
                            /\ current[j].kind \notin Affected(incoming, corrections)
                      \/ \E j \in DOMAIN incoming : r[i] = incoming[j]
<1> DEFINE keep == Kinds(current) \ Affected(incoming, corrections)
           a == OfKinds(current, keep)
           b == LastPerKind(incoming)
           s == a \o b
           r == Reconcile(current, incoming, corrections)
<1>1. /\ a \in Seq(Findings(K)) /\ (Unique(current) => Unique(a))
      /\ \A i \in DOMAIN a : \E j \in DOMAIN current :
             a[i] = current[j] /\ current[j].kind \in keep
  BY OfKindsIs
<1>2. /\ b \in Seq(Findings(K)) /\ Unique(b)
      /\ \A i \in DOMAIN b : \E j \in DOMAIN incoming : b[i] = incoming[j]
  BY LastPerKindIs
<1>3. r = LastOf(s, MaxKept) /\ MaxKept \in Nat \ {0}
  BY DEF Reconcile, Latest, LastOf, MaxKept
<1>4. \A j \in DOMAIN incoming : incoming[j].kind \in Affected(incoming, corrections)
  BY DEF Affected, Kinds
<1>5. keep \cap Affected(incoming, corrections) = {}
  OBVIOUS
<1> HIDE DEF a, b, keep
<1>6. /\ s \in Seq(Findings(K))
      /\ \A i \in DOMAIN s : \/ i \in DOMAIN a /\ s[i] = a[i]
                             \/ /\ i \notin DOMAIN a /\ i - Len(a) \in DOMAIN b
                                /\ s[i] = b[i - Len(a)]
  BY <1>1, <1>2
<1>7. ASSUME Unique(current)
      PROVE  Unique(s)
  <2> SUFFICES ASSUME NEW i \in DOMAIN s, NEW j \in DOMAIN s, s[i].kind = s[j].kind
               PROVE  i = j
    BY DEF Unique
  <2>1. ASSUME NEW x \in DOMAIN a, NEW y \in DOMAIN b
        PROVE  a[x].kind # b[y].kind
    BY <1>1, <1>2, <1>4, <1>5
  <2> HIDE DEF s
  <2>2. i \in Nat /\ j \in Nat /\ Len(a) \in Nat
    BY <1>1, <1>6
  <2>3. CASE i \in DOMAIN a /\ j \in DOMAIN a
    BY <1>1, <1>6, <1>7, <2>3 DEF Unique
  <2>4. CASE i \notin DOMAIN a /\ j \notin DOMAIN a
    <3>1. /\ i - Len(a) \in DOMAIN b /\ s[i] = b[i - Len(a)]
          /\ j - Len(a) \in DOMAIN b /\ s[j] = b[j - Len(a)]
      BY <1>6, <2>4
    <3>2. i - Len(a) = j - Len(a)
      BY <1>2, <3>1 DEF Unique
    <3> QED
      BY <2>2, <3>2
  <2>5. CASE i \in DOMAIN a /\ j \notin DOMAIN a
    BY <1>6, <2>1, <2>5
  <2>6. CASE i \notin DOMAIN a /\ j \in DOMAIN a
    BY <1>6, <2>1, <2>6
  <2> QED
    BY <2>3, <2>4, <2>5, <2>6
<1>8. \A i \in DOMAIN s :
          \/ \E j \in DOMAIN current :
                /\ s[i] = current[j]
                /\ current[j].kind \notin Affected(incoming, corrections)
          \/ \E j \in DOMAIN incoming : s[i] = incoming[j]
  <2> HIDE DEF s
  <2> TAKE i \in DOMAIN s
  <2>1. CASE i \in DOMAIN a
    BY <1>1, <1>5, <1>6, <2>1
  <2>2. CASE i \notin DOMAIN a
    BY <1>2, <1>6, <2>2
  <2> QED
    BY <2>1, <2>2
<1> HIDE DEF s, r
<1>9. r \in Seq(Findings(K)) /\ EndOf(r, s)
  BY <1>3, <1>6, LastOfIs
<1>10. PICK d \in Nat : \A i \in DOMAIN r : i + d \in DOMAIN s /\ r[i] = s[i + d]
  BY <1>9 DEF EndOf
<1>11. ASSUME Unique(current)
       PROVE  Unique(r)
  <2> SUFFICES ASSUME NEW i \in DOMAIN r, NEW j \in DOMAIN r, r[i].kind = r[j].kind
               PROVE  i = j
    BY DEF Unique
  <2>1. i \in Nat /\ j \in Nat
    BY <1>9
  <2>2. i + d = j + d
    BY <1>7, <1>10, <1>11 DEF Unique
  <2> QED
    BY <2>1, <2>2
<1>12. \A i \in DOMAIN r :
           \/ \E j \in DOMAIN current :
                 /\ r[i] = current[j]
                 /\ current[j].kind \notin Affected(incoming, corrections)
           \/ \E j \in DOMAIN incoming : r[i] = incoming[j]
  BY <1>8, <1>10
<1> QED
  BY <1>9, <1>11, <1>12 DEF r

\* An archived observation was archived before, or something new touches its kind.
LEMMA ArchiveIs ==
    ASSUME NEW K, NEW archived \in Seq(Findings(K)), NEW current \in Seq(Findings(K)),
           NEW incoming, NEW corrections
    PROVE  LET r == Archive(archived, current, incoming, corrections)
           IN  /\ r \in Seq(Findings(K))
               /\ \A i \in DOMAIN r :
                      \/ \E j \in DOMAIN archived : r[i] = archived[j]
                      \/ \E j \in DOMAIN current :
                            /\ r[i] = current[j]
                            /\ current[j].kind \in Affected(incoming, corrections)
<1> DEFINE gone == Affected(incoming, corrections)
           b == OfKinds(current, gone)
           s == archived \o b
           r == Archive(archived, current, incoming, corrections)
<1>1. /\ b \in Seq(Findings(K))
      /\ \A i \in DOMAIN b : \E j \in DOMAIN current :
             b[i] = current[j] /\ current[j].kind \in gone
  BY OfKindsIs
<1>2. r = LastOf(s, MaxKept) /\ MaxKept \in Nat \ {0}
  BY DEF Archive, Latest, LastOf, MaxKept
<1> HIDE DEF b, gone
<1>3. /\ s \in Seq(Findings(K))
      /\ \A i \in DOMAIN s : \/ i \in DOMAIN archived /\ s[i] = archived[i]
                             \/ i - Len(archived) \in DOMAIN b
                                /\ s[i] = b[i - Len(archived)]
  BY <1>1
<1> HIDE DEF s, r
<1>4. r \in Seq(Findings(K)) /\ EndOf(r, s)
  BY <1>2, <1>3, LastOfIs
<1>5. \A i \in DOMAIN r : \E k \in DOMAIN s : r[i] = s[k]
  BY <1>4, EndIs
<1>6. \A i \in DOMAIN r : \/ \E j \in DOMAIN archived : r[i] = archived[j]
                          \/ \E j \in DOMAIN current :
                                r[i] = current[j] /\ current[j].kind \in gone
  <2> TAKE i \in DOMAIN r
  <2>1. PICK k \in DOMAIN s : r[i] = s[k]
    BY <1>5
  <2>2. CASE k \in DOMAIN archived /\ s[k] = archived[k]
    BY <2>1, <2>2
  <2>3. CASE k - Len(archived) \in DOMAIN b /\ s[k] = b[k - Len(archived)]
    <3>1. PICK j \in DOMAIN current :
              b[k - Len(archived)] = current[j] /\ current[j].kind \in gone
      BY <1>1, <2>3
    <3> QED
      BY <2>1, <2>3, <3>1
  <2> QED
    BY <1>3, <2>2, <2>3
<1> QED
  BY <1>4, <1>6 DEF r, gone

\* The facts of a turn leave the last ones standing.
LEMMA FactsAfter ==
    ASSUME NEW facts \in Seq(Findings(FactKinds)), NEW archive \in Seq(Findings(FactKinds)),
           NEW incoming \in Seq(Findings(FactKinds)), NEW corrections, NEW t \in Nat,
           FactsStand(facts, archive, t),
           \A i \in DOMAIN incoming : incoming[i].source = t
    PROVE  FactsStand(Reconcile(facts, incoming, corrections),
                      Archive(archive, facts, incoming, corrections), t)
<1> DEFINE r == Reconcile(facts, incoming, corrections)
           a == Archive(archive, facts, incoming, corrections)
           hit == Affected(incoming, corrections)
<1>1. Unique(facts) /\ Dated(facts, t) /\ Dated(archive, t)
  BY DEF FactsStand
<1>2. /\ r \in Seq(Findings(FactKinds)) /\ Unique(r)
      /\ \A i \in DOMAIN r :
             \/ \E j \in DOMAIN facts : r[i] = facts[j] /\ facts[j].kind \notin hit
             \/ \E j \in DOMAIN incoming : r[i] = incoming[j]
  BY <1>1, ReconcileIs
<1>3. /\ a \in Seq(Findings(FactKinds))
      /\ \A i \in DOMAIN a :
             \/ \E j \in DOMAIN archive : a[i] = archive[j]
             \/ \E j \in DOMAIN facts : a[i] = facts[j] /\ facts[j].kind \in hit
  BY ArchiveIs
<1> HIDE DEF r, a, hit
<1>4. Dated(r, t)
  BY <1>1, <1>2 DEF Dated
<1>5. Dated(a, t)
  BY <1>1, <1>3 DEF Dated
<1>6. ASSUME NEW i \in DOMAIN r, NEW j \in DOMAIN a, r[i].kind = a[j].kind
      PROVE  a[j].source <= r[i].source
  <2>1. CASE \E k \in DOMAIN incoming : r[i] = incoming[k]
    BY <1>5, <2>1 DEF Dated
  <2>2. ASSUME NEW k \in DOMAIN facts, r[i] = facts[k], facts[k].kind \notin hit
        PROVE  a[j].source <= r[i].source
    <3>1. PICK l \in DOMAIN archive : a[j] = archive[l]
      BY <1>3, <1>6, <2>2
    <3> QED
      BY <1>6, <2>2, <3>1 DEF FactsStand
  <2> QED
    BY <1>2, <2>1, <2>2
<1> QED
  BY <1>2, <1>4, <1>5, <1>6 DEF FactsStand, r, a

\* A turn leaves a picture of the business whose last facts stand.
LEMMA BusinessIs ==
    ASSUME NEW b \in Businesses, NEW facts \in Seq(Findings(FactKinds)),
           NEW problems \in Seq(Findings(ProblemKinds)),
           NEW unknown \in SUBSET UnknownAreas, NEW corrections, NEW t \in Nat,
           FactsStand(b.facts, b.archivedFacts, t),
           \A i \in DOMAIN facts : facts[i].source = t
    PROVE  LET n == UpdateBusiness(b, facts, problems, unknown, corrections)
           IN  n \in Businesses /\ FactsStand(n.facts, n.archivedFacts, t)
<1> DEFINE n == UpdateBusiness(b, facts, problems, unknown, corrections)
           nf == Reconcile(b.facts, facts, corrections)
           np == Reconcile(b.problems, problems, corrections)
           af == Archive(b.archivedFacts, b.facts, facts, corrections)
           ap == Archive(b.archivedProblems, b.problems, problems, corrections)
           nu == (b.unknown \cup unknown) \ KnownAreas(nf)
           nc == Hypotheses(nf, np)
<1>1. /\ b.facts \in Seq(Findings(FactKinds)) /\ b.problems \in Seq(Findings(ProblemKinds))
      /\ b.archivedFacts \in Seq(Findings(FactKinds))
      /\ b.archivedProblems \in Seq(Findings(ProblemKinds))
      /\ b.unknown \subseteq UnknownAreas
  BY DEF Businesses
<1>2. nf \in Seq(Findings(FactKinds))
  BY <1>1, ReconcileIs
<1>3. np \in Seq(Findings(ProblemKinds))
  BY <1>1, ReconcileIs
<1>4. af \in Seq(Findings(FactKinds))
  BY <1>1, ArchiveIs
<1>5. ap \in Seq(Findings(ProblemKinds))
  BY <1>1, ArchiveIs
<1>6. nu \subseteq UnknownAreas
  BY <1>1
<1>7. nc \subseteq RootCauses
  BY DEF Hypotheses
<1>8. FactsStand(nf, af, t)
  BY <1>1, FactsAfter
<1>9. n = [facts |-> nf, problems |-> np, unknown |-> nu, causes |-> nc,
           archivedFacts |-> af, archivedProblems |-> ap]
  BY DEF UpdateBusiness
<1> HIDE DEF n, nf, np, nu, nc, af, ap
<1>10. n \in Businesses
  BY <1>2, <1>3, <1>4, <1>5, <1>6, <1>7, <1>9 DEF Businesses
<1>11. n.facts = nf /\ n.archivedFacts = af
  BY <1>9
<1> QED
  BY <1>8, <1>10, <1>11 DEF n

\* So does the picture a call begins with.
LEMMA NoBusinessIs ==
    NoBusiness \in Businesses /\ FactsStand(NoBusiness.facts, NoBusiness.archivedFacts, 0)
<1>1. <<>> \in Seq(Findings(FactKinds)) /\ <<>> \in Seq(Findings(ProblemKinds))
  OBVIOUS
<1>2. DOMAIN <<>> = {}
  OBVIOUS
<1>3. FactsStand(<<>>, <<>>, 0)
  BY <1>2 DEF FactsStand, Unique, Dated
<1> QED
  BY <1>1, <1>3 DEF NoBusiness, Businesses

-----------------------------------------------------------------------------
(* The qualification.                                                       *)

\* A finite set has an order.
LEMMA InOrderIs ==
    ASSUME NEW S, IsFiniteSet(S)
    PROVE  /\ Cardinality(S) \in Nat
           /\ InOrder(S) \in [1..Cardinality(S) -> S]
<1>1. Cardinality(S) \in Nat /\ ExistsBijection(1..Cardinality(S), S)
  BY FS_CardinalityType
<1>2. PICK f : f \in Bijection(1..Cardinality(S), S)
  BY <1>1 DEF ExistsBijection
<1>3. f \in [1..Cardinality(S) -> S] /\ S = {f[i] : i \in DOMAIN f}
  BY <1>2 DEF Bijection, Injection, Surjection
<1> QED
  BY <1>1, <1>3 DEF InOrder

\* A turn leaves a qualification of the campaign.
LEMMA QualificationIs ==
    ASSUME CampaignAssumption,
           NEW prior \in Snapshots(Campaign) \cup {NotQualified},
           NEW seen \in Observations(Campaign),
           NEW corrections \in SUBSET Campaign.fields
    PROVE  UpdateQualification(Campaign, prior, seen, corrections) \in Snapshots(Campaign)
<1> DEFINE fields == Campaign.fields
           old == PriorFields(Campaign, prior)
           was == PriorArchive(Campaign, prior)
           newly == Accepted(old, seen)
           replaced == Replaced(old, seen, newly)
           order == InOrder(replaced)
           now == [f \in fields |-> IF f \in newly THEN seen[f] ELSE old[f]]
           complete == CompletenessOf(Campaign, now)
           progress == ProgressOf(complete, newly, newly \cap corrections)
           Entry == [field : fields, was : FieldStates]
           left == [i \in DOMAIN order |-> [field |-> order[i], was |-> old[order[i]]]]
           kept == LastArchived(was \o left)
           n == UpdateQualification(Campaign, prior, seen, corrections)
<1>1. IsFiniteSet(fields) /\ Campaign.id # 0
  BY DEF CampaignAssumption
<1>2. old \in [fields -> FieldStates] /\ was \in Seq(Entry)
  <2>1. CASE prior.id = Campaign.id
    <3>1. prior \in Snapshots(Campaign)
      BY <1>1, <2>1 DEF NotQualified
    <3> QED
      BY <2>1, <3>1 DEF PriorFields, PriorArchive, Snapshots
  <2>2. CASE prior.id # Campaign.id
    <3>1. NothingObserved(Campaign) \in [fields -> FieldStates]
      BY DEF NothingObserved, UnknownField, FieldStates, States
    <3> QED
      BY <2>2, <3>1 DEF PriorFields, PriorArchive
  <2> QED
    BY <2>1, <2>2
<1>3. seen \in [fields -> FieldStates]
  BY DEF Observations
<1> HIDE DEF old, was
<1>4. newly \subseteq fields /\ replaced \subseteq fields
  BY <1>3 DEF Accepted, KnownFields, Replaced
<1>5. now \in [fields -> FieldStates]
  BY <1>2, <1>3
<1>6. complete \in Completeness /\ progress \in Progress
  BY DEF CompletenessOf, ProgressOf, Completeness, Progress
<1>7. IsFiniteSet(replaced)
  BY <1>1, <1>4, FS_Subset
<1>8. Cardinality(replaced) \in Nat /\ order \in [1..Cardinality(replaced) -> replaced]
  BY <1>7, InOrderIs
<1> HIDE DEF newly, replaced, order, now, complete, progress
<1>9. left \in Seq(Entry)
  <2>1. left = [i \in 1..Cardinality(replaced) |->
                   [field |-> order[i], was |-> old[order[i]]]]
    BY <1>8
  <2>2. ASSUME NEW i \in 1..Cardinality(replaced)
        PROVE  [field |-> order[i], was |-> old[order[i]]] \in Entry
    <3>1. order[i] \in fields
      BY <1>4, <1>8
    <3>2. old[order[i]] \in FieldStates
      BY <1>2, <3>1
    <3> QED
      BY <3>1, <3>2
  <2> HIDE DEF left, Entry
  <2>3. left \in [1..Cardinality(replaced) -> Entry]
    BY <2>1, <2>2
  <2> QED
    BY <1>8, <2>3
<1>10. kept = LastOf(was \o left, MaxArchived) /\ MaxArchived \in Nat \ {0}
  BY DEF LastArchived, LastOf, MaxArchived
<1> HIDE DEF left, Entry, kept
<1>11. was \o left \in Seq(Entry)
  BY <1>2, <1>9
<1>12. kept \in Seq(Entry)
  BY <1>10, <1>11, LastOfIs
<1>13. n = [id |-> Campaign.id, fields |-> now, completeness |-> complete,
            progress |-> progress, newly |-> newly, corrected |-> newly \cap corrections,
            replaced |-> replaced, archived |-> kept]
  BY DEF UpdateQualification, old, was, newly, replaced, order, now, complete,
         progress, left, kept
<1> HIDE DEF n
<1>14. newly \cap corrections \subseteq fields
  BY <1>4
<1>15. n \in Snapshots(Campaign)
  BY <1>4, <1>5, <1>6, <1>12, <1>13, <1>14 DEF Snapshots, Entry
<1> QED
  BY <1>15 DEF n

-----------------------------------------------------------------------------
(* A memory: the words of its people and the facts of the business.         *)

\* The pictures of the people, in the order they spoke.
Views(m) == Append([i \in DOMAIN m.pictures |-> m.pictures[i].intel], m.intel)

\* Nobody is credited with the words of somebody before him, and no word is of
\* a later turn.
Words(p, t) ==
    /\ \A i \in DOMAIN p : Settled(p[i])
    /\ \A i \in DOMAIN p : \A a \in StatedIn(p[i]) : a <= t
    /\ \A i, j \in DOMAIN p :
           i < j => \A a \in StatedIn(p[i]), b \in StatedIn(p[j]) : a <= b

Sound(m, t) ==
    /\ m \in Memories
    /\ Words(Views(m), t)
    /\ FactsStand(m.business.facts, m.business.archivedFacts, t)

\* Turns are numbers.
LEMMA StatedIsNat ==
    ASSUME NEW p \in Intelligence
    PROVE  StatedIn(p) \subseteq Nat
<1>1. /\ p.observed.said \in [StatedSlots -> Nat] /\ p.observed.pains \in Seq(Nat)
      /\ p.observed.solution.source \in Nat
  BY DEF Intelligence, ObservedFacts, Solutions
<1> QED
  BY <1>1 DEF StatedIn

\* The pictures of those who left, and the one of the person on the line.
LEMMA ViewsAre ==
    ASSUME NEW m, m.pictures \in Seq(Pictures), m.intel \in Intelligence
    PROVE  /\ Len(m.pictures) \in Nat
           /\ Views(m) \in Seq(Intelligence)
           /\ DOMAIN Views(m) = 1..(Len(m.pictures) + 1)
           /\ Views(m)[Len(m.pictures) + 1] = m.intel
           /\ \A i \in 1..Len(m.pictures) : Views(m)[i] = m.pictures[i].intel
<1> DEFINE k == Len(m.pictures)
           q == [i \in DOMAIN m.pictures |-> m.pictures[i].intel]
<1>1. k \in Nat /\ DOMAIN m.pictures = 1..k
      /\ \A i \in 1..k : m.pictures[i].intel \in Intelligence
  <2>1. \A i \in 1..k : m.pictures[i] \in Pictures
    OBVIOUS
  <2>2. \A x \in Pictures : x.intel \in Intelligence
    BY DEF Pictures
  <2> QED
    BY <2>1, <2>2
<1>2. q \in [1..k -> Intelligence] /\ \A i \in 1..k : q[i] = m.pictures[i].intel
  BY <1>1
<1> HIDE DEF q, k
<1>3. q \in Seq(Intelligence) /\ Len(q) = k
  BY <1>1, <1>2
<1>4. Views(m) = Append(q, m.intel)
  BY DEF Views, q
<1> QED
  BY <1>1, <1>2, <1>3, <1>4 DEF k

\* What is added in a turn no word is later than.
LEMMA WordsAdded ==
    ASSUME NEW p \in Seq(Intelligence), NEW q \in Seq(Intelligence), NEW k \in Nat,
           NEW t \in Nat, Words(p, t), DOMAIN p = 1..(k + 1), DOMAIN q = 1..(k + 1),
           \A i \in 1..k : q[i] = p[i],
           Settled(q[k + 1]),
           StatedIn(q[k + 1]) \subseteq StatedIn(p[k + 1]) \cup {t}
    PROVE  Words(q, t)
<1>1. \A i \in DOMAIN p : StatedIn(p[i]) \subseteq Nat
  BY StatedIsNat
<1>2. \A i \in DOMAIN q : i \in DOMAIN p /\ (i = k + 1 \/ i \in 1..k)
  OBVIOUS
<1>3. \A i \in DOMAIN q : StatedIn(q[i]) \subseteq StatedIn(p[i]) \cup {t}
  BY <1>2
<1>4. \A i \in DOMAIN q : i # k + 1 => StatedIn(q[i]) = StatedIn(p[i])
  BY <1>2
<1>5. \A i \in DOMAIN q : Settled(q[i])
  BY <1>2 DEF Words
<1>6. \A i \in DOMAIN q : \A a \in StatedIn(q[i]) : a <= t
  BY <1>1, <1>2, <1>3 DEF Words
<1>7. ASSUME NEW i \in DOMAIN q, NEW j \in DOMAIN q, i < j,
             NEW a \in StatedIn(q[i]), NEW b \in StatedIn(q[j])
      PROVE  a <= b
  <2>1. i # k + 1
    BY <1>7
  <2>2. a \in StatedIn(p[i])
    BY <1>4, <2>1
  <2>3. b \in StatedIn(p[j]) \/ b = t
    BY <1>3
  <2> QED
    BY <1>2, <1>6, <1>7, <2>2, <2>3 DEF Words
<1> QED
  BY <1>5, <1>6, <1>7 DEF Words

\* Somebody of whom nothing is known is credited with nothing.
LEMMA WordsHanded ==
    ASSUME NEW p \in Seq(Intelligence), NEW q, NEW t, Words(p, t),
           q = Append(p, NothingKnown)
    PROVE  Words(q, t)
<1>1. Len(p) \in Nat /\ DOMAIN p = 1..Len(p)
  OBVIOUS
<1>2. DOMAIN q = 1..(Len(p) + 1) /\ q[Len(p) + 1] = NothingKnown
      /\ \A i \in DOMAIN p : q[i] = p[i]
  OBVIOUS
<1>3. \A i \in DOMAIN q : i \in DOMAIN p \/ i = Len(p) + 1
  BY <1>1, <1>2
<1>4. \A i \in DOMAIN q : i \in DOMAIN p \/ StatedIn(q[i]) = {}
  BY <1>2, <1>3, NothingKnownIs
<1>5. \A i \in DOMAIN q : Settled(q[i])
  BY <1>2, <1>3, NothingKnownIs DEF Words
<1>6. \A i \in DOMAIN q : \A a \in StatedIn(q[i]) : a <= t
  BY <1>2, <1>4 DEF Words
<1>7. \A i, j \in DOMAIN q :
          i < j => \A a \in StatedIn(q[i]), b \in StatedIn(q[j]) : a <= b
  BY <1>2, <1>4 DEF Words
<1> QED
  BY <1>5, <1>6, <1>7 DEF Words

\* What is sound for a turn is sound for a later one.
LEMMA SoundLater ==
    ASSUME NEW m, NEW t \in Nat, NEW u \in Nat, t <= u, Sound(m, t)
    PROVE  Sound(m, u)
<1>1. m \in Memories
  BY DEF Sound
<1>2. m.pictures \in Seq(Pictures) /\ m.intel \in Intelligence /\ m.business \in Businesses
  BY <1>1 DEF Memories
<1> DEFINE p == Views(m)
           f == m.business.facts
           a == m.business.archivedFacts
<1>3. p \in Seq(Intelligence)
  BY <1>2, ViewsAre
<1>4. Words(p, t) /\ FactsStand(f, a, t)
  BY DEF Sound
<1>5. f \in Seq(Findings(FactKinds)) /\ a \in Seq(Findings(FactKinds))
  BY <1>2 DEF Businesses
<1> HIDE DEF p, f, a
<1>6. Words(p, u)
  <2>1. \A i \in DOMAIN p : StatedIn(p[i]) \subseteq Nat
    BY <1>3, StatedIsNat
  <2>2. \A i \in DOMAIN p : \A x \in StatedIn(p[i]) : x <= u
    BY <1>4, <2>1 DEF Words
  <2> QED
    BY <1>4, <2>2 DEF Words
<1>7. FactsStand(f, a, u)
  <2>0. \A x \in Findings(FactKinds) : x.source \in Nat
    BY DEF Findings
  <2>1. \A i \in DOMAIN f : f[i].source \in Nat
    BY <1>5, <2>0
  <2>2. \A i \in DOMAIN a : a[i].source \in Nat
    BY <1>5, <2>0
  <2>3. Dated(f, u) /\ Dated(a, u)
    BY <1>4, <2>1, <2>2 DEF FactsStand, Dated
  <2> QED
    BY <1>4, <2>3 DEF FactsStand
<1> QED
  BY <1>1, <1>6, <1>7 DEF Sound, p, f, a

\* A new call is sound.
LEMMA NewCallIs ==
    Sound(NewCall, 0)
<1>1. NewCall \in Memories
  <2>1. NoOne \in References
    BY DEF NoOne, References, Roles
  <2>2. <<>> \in Seq(People) /\ <<>> \in Seq(Pictures)
    OBVIOUS
  <2>3. EmptyBuffer \in Buffers(InferredSlots)
    BY DEF EmptyBuffer, NoInsight, Buffers, Insights
  <2>4. "unknown" \in ContinuityStates
    BY DEF ContinuityStates
  <2> HIDE DEF NothingKnown, NoOne
  <2> QED
    BY <2>1, <2>2, <2>3, <2>4, NothingKnownIs, NoBusinessIs, LanguageAssumption
    DEF NewCall, Memories
<1>2. NewCall.pictures = <<>> /\ NewCall.intel = NothingKnown /\ NewCall.business = NoBusiness
  BY DEF NewCall
<1>3. Views(NewCall) = Append(<<>>, NothingKnown)
  <2>1. [i \in DOMAIN <<>> |-> <<>>[i].intel] = <<>>
    OBVIOUS
  <2> QED
    BY <1>2, <2>1 DEF Views
<1>4. Words(<<>>, 0)
  <2>1. DOMAIN <<>> = {}
    OBVIOUS
  <2> QED
    BY <2>1 DEF Words
<1>5. <<>> \in Seq(Intelligence)
  OBVIOUS
<1>6. Words(Views(NewCall), 0)
  BY <1>3, <1>4, <1>5, WordsHanded
<1> QED
  BY <1>1, <1>2, <1>6, NoBusinessIs DEF Sound

-----------------------------------------------------------------------------
(* The stages of a turn.                                                    *)

\* Nobody comes or goes, nobody is told anything.
SamePeople(n, m) ==
    /\ n.active = m.active /\ n.archived = m.archived /\ n.minted = m.minted
    /\ n.coverage = m.coverage /\ n.normalTurn = m.normalTurn

\* The parts of a memory.
LEMMA MemoryIs ==
    ASSUME NEW m \in Memories
    PROVE  /\ m.active \in References /\ m.archived \in Seq(People)
           /\ m.pictures \in Seq(Pictures) /\ m.intel \in Intelligence
           /\ m.language \in Languages
           /\ m.coverage \subseteq CoverageEntries(Concepts)
           /\ m.minted \in Nat /\ m.decision \in ContinuityStates
           /\ m.business \in Businesses
           /\ m.qual \in Snapshots(Campaign) \cup {NotQualified}
           /\ m.buffer \in Buffers(InferredSlots) /\ m.normalTurn \in Nat
BY DEF Memories

\* The parts of an utterance.
LEMMA UtteranceIs ==
    ASSUME NEW u \in Utterances, NEW t \in Nat
    PROVE  /\ u.priority \in BOOLEAN /\ u.understood \in BOOLEAN
           /\ u.language \in Languages
           /\ u.speaker \in EvidenceKinds \cup {"unavailable"} /\ u.role \in Roles
           /\ u.facts \subseteq FactKinds /\ u.problems \subseteq ProblemKinds
           /\ u.unknown \subseteq UnknownAreas
           /\ u.qualified \in Observations(Campaign)
           /\ u.amended \subseteq Campaign.fields
           /\ u.concept \in Concepts
           /\ EvidenceIn(u, t) \in Said /\ EvidenceIn(u, t).source = t
<1>1. u \in Turns
  BY UtteranceAssumption
<1> QED
  BY <1>1 DEF Turns, EvidenceIn, Said

\* The insight a turn uses, and the buffer it leaves.
LEMMA InsightIs ==
    ASSUME NEW b \in Buffers(InferredSlots), NEW t \in Nat
    PROVE  /\ ApplicableFor(b, t) \in Insights(InferredSlots)
           /\ ConsumeFor(b, t) \in Buffers(InferredSlots)
           /\ ConsumeFor(b, t).latest = b.latest
<1>1. b.latest \in Insights(InferredSlots) /\ b.consumed \in Nat
  BY DEF Buffers
<1>2. NoInsight \in Insights(InferredSlots)
  BY DEF NoInsight, Insights
<1>3. ApplicableFor(b, t) \in Insights(InferredSlots)
  BY <1>1, <1>2 DEF ApplicableFor
<1>4. ApplicableFor(b, t).turn \in Nat
  BY <1>3 DEF Insights
<1>5. ConsumeFor(b, t) \in Buffers(InferredSlots) /\ ConsumeFor(b, t).latest = b.latest
  <2> HIDE DEF ApplicableFor
  <2> QED
    BY <1>1, <1>4 DEF ConsumeFor, Buffers
<1> QED
  BY <1>3, <1>5

\* A memory whose last picture was updated.
LEMMA SoundUpdated ==
    ASSUME NEW m, NEW n, NEW t \in Nat, Sound(m, t), n \in Memories,
           n.pictures = m.pictures, n.business = m.business,
           Settled(n.intel), StatedIn(n.intel) \subseteq StatedIn(m.intel) \cup {t}
    PROVE  Sound(n, t)
<1>1. m \in Memories
  BY DEF Sound
<1> DEFINE k == Len(m.pictures)
           p == Views(m)
           q == Views(n)
<1>2. /\ k \in Nat /\ p \in Seq(Intelligence) /\ DOMAIN p = 1..(k + 1)
      /\ p[k + 1] = m.intel /\ \A i \in 1..k : p[i] = m.pictures[i].intel
  BY <1>1, MemoryIs, ViewsAre
<1>3. /\ q \in Seq(Intelligence) /\ DOMAIN q = 1..(k + 1)
      /\ q[k + 1] = n.intel /\ \A i \in 1..k : q[i] = m.pictures[i].intel
  BY MemoryIs, ViewsAre
<1>4. Words(p, t)
  BY DEF Sound
<1> HIDE DEF k, p, q
<1>5. Words(q, t)
  BY <1>2, <1>3, <1>4, WordsAdded
<1> QED
  BY <1>5 DEF Sound, q

\* No guess stands over what the person on the line said.
LEMMA SettledLast ==
    ASSUME NEW m, NEW t, Sound(m, t)
    PROVE  Settled(m.intel)
<1>1. m \in Memories /\ Words(Views(m), t)
  BY DEF Sound
<1>2. /\ Len(m.pictures) \in Nat
      /\ DOMAIN Views(m) = 1..(Len(m.pictures) + 1)
      /\ Views(m)[Len(m.pictures) + 1] = m.intel
  BY <1>1, MemoryIs, ViewsAre
<1>3. Len(m.pictures) + 1 \in DOMAIN Views(m)
  BY <1>2
<1> QED
  BY <1>1, <1>2, <1>3 DEF Words

\* The advice leaves the memory sound and the people as they are.
LEMMA AdvisedIs ==
    ASSUME NEW m, NEW t \in Nat, Sound(m, t)
    PROVE  LET n == Advised(m, t)
           IN  Sound(n, t) /\ SamePeople(n, m) /\ n.buffer = ConsumeFor(m.buffer, t)
<1> DEFINE insight == ApplicableFor(m.buffer, t)
           e == [source |-> insight.turn, stated |-> {}, pain |-> FALSE,
                 solution |-> "absent", inferred |-> insight.infers]
           b == ConsumeFor(m.buffer, t)
           i == IF insight.infers = {} THEN m.intel ELSE Update(m.intel, e)
           n == Advised(m, t)
<1>1. m \in Memories
  BY DEF Sound
<1>2. insight \in Insights(InferredSlots) /\ b \in Buffers(InferredSlots)
  BY <1>1, MemoryIs, InsightIs
<1> HIDE DEF insight, b
<1>3. e \in Said /\ e.stated = {} /\ ~e.pain /\ e.solution = "absent"
  BY <1>2 DEF Insights, Said
<1>4. m.intel \in Intelligence /\ Settled(m.intel)
  BY <1>1, MemoryIs, SettledLast
<1> HIDE DEF e
<1>5. i \in Intelligence /\ Settled(i) /\ StatedIn(i) \subseteq StatedIn(m.intel) \cup {t}
  BY <1>3, <1>4, UpdateIs
<1>6. n = [m EXCEPT !.buffer = b, !.intel = i]
  BY DEF Advised, insight, e, b
<1> HIDE DEF i, n
<1>7. n \in Memories /\ n.intel = i /\ n.buffer = b /\ n.pictures = m.pictures
      /\ n.business = m.business /\ SamePeople(n, m)
  BY <1>1, <1>2, <1>5, <1>6 DEF Memories, SamePeople
<1>8. Sound(n, t)
  BY <1>5, <1>7, SoundUpdated
<1> QED
  BY <1>7, <1>8 DEF n, b

\* So does the language of the turn.
LEMMA HeardIs ==
    ASSUME NEW m, NEW t \in Nat, Sound(m, t), NEW u \in Utterances
    PROVE  LET n == Heard(m, u)
           IN  Sound(n, t) /\ SamePeople(n, m) /\ n.buffer = m.buffer
<1> DEFINE n == Heard(m, u)
<1>1. m \in Memories /\ u.language \in Languages
  BY UtteranceIs DEF Sound
<1>2. n = m \/ n = [m EXCEPT !.language = u.language]
  BY DEF Heard
<1> HIDE DEF n
<1>3. n \in Memories /\ n.intel = m.intel /\ n.buffer = m.buffer
      /\ n.pictures = m.pictures /\ n.business = m.business /\ SamePeople(n, m)
  BY <1>1, <1>2 DEF Memories, SamePeople
<1>4. Sound(n, t)
  BY <1>3, SettledLast, SoundUpdated
<1> QED
  BY <1>3, <1>4 DEF n

\* There are finitely many kinds of facts and problems.
LEMMA FiniteKinds ==
    IsFiniteSet(FactKinds) /\ IsFiniteSet(ProblemKinds)
<1> DEFINE f == <<"industry", "business_type", "branches", "employees",
                  "current_workflow", "manual_step", "software", "integration",
                  "reporting", "communication", "website", "crm">>
           g == <<"operational", "technical", "marketing", "sales", "financial",
                  "customer_experience", "time", "quality", "errors", "follow_ups">>
<1>1. IsFiniteSet(1..12) /\ IsFiniteSet(1..10)
  <2>1. 1 \in Int /\ 10 \in Int /\ 12 \in Int
    OBVIOUS
  <2>2. IsFiniteSet(1..12)
    BY <2>1, FS_Interval, Zenon
  <2>3. IsFiniteSet(1..10)
    BY <2>1, FS_Interval, Zenon
  <2> QED
    BY <2>2, <2>3
<1>2. f \in Surjection(1..12, FactKinds)
  <2>1. f \in [1..12 -> FactKinds]
    BY DEF FactKinds
  <2>2. \A k \in FactKinds : \E i \in 1..12 : f[i] = k
    <3>1. /\ f[1] = "industry" /\ f[2] = "business_type" /\ f[3] = "branches"
          /\ f[4] = "employees" /\ f[5] = "current_workflow" /\ f[6] = "manual_step"
          /\ f[7] = "software" /\ f[8] = "integration" /\ f[9] = "reporting"
          /\ f[10] = "communication" /\ f[11] = "website" /\ f[12] = "crm"
      OBVIOUS
    <3>2. {1, 2, 3, 4, 5, 6, 7, 8, 9, 10, 11, 12} \subseteq 1..12
      OBVIOUS
    <3> HIDE DEF f
    <3> QED
      BY <3>1, <3>2 DEF FactKinds
  <2> QED
    BY <2>1, <2>2 DEF Surjection
<1>3. g \in Surjection(1..10, ProblemKinds)
  <2>1. g \in [1..10 -> ProblemKinds]
    BY DEF ProblemKinds
  <2>2. \A k \in ProblemKinds : \E i \in 1..10 : g[i] = k
    <3>1. /\ g[1] = "operational" /\ g[2] = "technical" /\ g[3] = "marketing"
          /\ g[4] = "sales" /\ g[5] = "financial" /\ g[6] = "customer_experience"
          /\ g[7] = "time" /\ g[8] = "quality" /\ g[9] = "errors"
          /\ g[10] = "follow_ups"
      OBVIOUS
    <3>2. {1, 2, 3, 4, 5, 6, 7, 8, 9, 10} \subseteq 1..10
      OBVIOUS
    <3> HIDE DEF g
    <3> QED
      BY <3>1, <3>2 DEF ProblemKinds
  <2> QED
    BY <2>1, <2>2 DEF Surjection
<1> HIDE DEF f, g
<1> QED
  BY <1>1, <1>2, <1>3, FS_Surjection

\* The observations of a turn, one of each kind, all of that turn.
LEMMA ObservationsAre ==
    ASSUME NEW K, IsFiniteSet(K), NEW kinds \in SUBSET K, NEW t \in Nat
    PROVE  LET s == [i \in 1..Cardinality(kinds) |->
                        [kind |-> InOrder(kinds)[i], source |-> t]]
           IN  s \in Seq(Findings(K)) /\ \A i \in DOMAIN s : s[i].source = t
<1> DEFINE k == Cardinality(kinds)
           o == InOrder(kinds)
           s == [i \in 1..k |-> [kind |-> o[i], source |-> t]]
<1>1. k \in Nat /\ o \in [1..k -> kinds]
  BY FS_Subset, InOrderIs
<1> HIDE DEF k, o
<1>2. \A i \in 1..k : [kind |-> o[i], source |-> t] \in Findings(K)
  BY <1>1 DEF Findings
<1>3. s \in [1..k -> Findings(K)]
  BY <1>2
<1>4. s \in Seq(Findings(K)) /\ \A i \in DOMAIN s : s[i].source = t
  BY <1>1, <1>3
<1> QED
  BY <1>4 DEF s, k, o

\* What is learned from an utterance leaves the memory sound.
LEMMA LearnedIs ==
    ASSUME NEW m, NEW t \in Nat, Sound(m, t), NEW u \in Utterances
    PROVE  LET n == Learned(m, u, t)
           IN  Sound(n, t) /\ SamePeople(n, m) /\ n.buffer = m.buffer
<1> DEFINE Of(kinds) == [i \in 1..Cardinality(kinds) |->
                            [kind |-> InOrder(kinds)[i], source |-> t]]
           says == u.stated # {} \/ u.pain \/ u.solution # "absent" \/ u.inferred # {}
           news == u.facts \cup u.problems \cup u.unknown \cup u.corrections
           business == IF news = {} THEN m.business
                       ELSE UpdateBusiness(m.business, Of(u.facts), Of(u.problems),
                                           u.unknown, u.corrections)
           intel == IF ~says \/ ~u.understood THEN m.intel
                    ELSE Update(m.intel, EvidenceIn(u, t))
           n == Learned(m, u, t)
<1>1. /\ m \in Memories /\ Words(Views(m), t)
      /\ FactsStand(m.business.facts, m.business.archivedFacts, t)
  BY DEF Sound
<1>2. m.business \in Businesses /\ m.intel \in Intelligence
  BY <1>1, MemoryIs
<1>3. /\ Of(u.facts) \in Seq(Findings(FactKinds))
      /\ \A i \in DOMAIN Of(u.facts) : Of(u.facts)[i].source = t
      /\ Of(u.problems) \in Seq(Findings(ProblemKinds))
  BY UtteranceIs, FiniteKinds, ObservationsAre
<1>4. business \in Businesses /\ FactsStand(business.facts, business.archivedFacts, t)
  <2>1. u.unknown \in SUBSET UnknownAreas
    BY UtteranceIs
  <2> DEFINE f == Of(u.facts)
             p == Of(u.problems)
             b == UpdateBusiness(m.business, f, p, u.unknown, u.corrections)
  <2>2. /\ f \in Seq(Findings(FactKinds))
        /\ \A i \in DOMAIN f : f[i].source = t
        /\ p \in Seq(Findings(ProblemKinds))
    BY <1>3
  <2> HIDE DEF f, p
  <2>3. b \in Businesses /\ FactsStand(b.facts, b.archivedFacts, t)
    BY <1>1, <1>2, <2>1, <2>2, BusinessIs
  <2>4. business = m.business \/ business = b
    BY DEF f, p
  <2> HIDE DEF b, business
  <2> QED
    BY <1>1, <1>2, <2>3, <2>4
<1>5. intel \in Intelligence /\ Settled(intel) /\ StatedIn(intel) \subseteq StatedIn(m.intel) \cup {t}
  <2> DEFINE e == EvidenceIn(u, t)
  <2>1. e \in Said /\ e.source = t
    BY UtteranceIs
  <2>2. Settled(m.intel)
    BY SettledLast
  <2> HIDE DEF e
  <2>3. /\ Update(m.intel, e) \in Intelligence /\ Settled(Update(m.intel, e))
        /\ StatedIn(Update(m.intel, e)) \subseteq StatedIn(m.intel) \cup {t}
    BY <1>2, <2>1, UpdateIs
  <2>4. intel = m.intel \/ intel = Update(m.intel, e)
    BY DEF e
  <2> QED
    BY <1>2, <2>2, <2>3, <2>4
<1>6. n = [m EXCEPT !.business = business, !.intel = intel]
  BY DEF Learned
<1> HIDE DEF business, intel, n
<1>7. /\ n \in Memories /\ n.intel = intel /\ n.business = business
      /\ n.pictures = m.pictures /\ n.buffer = m.buffer /\ SamePeople(n, m)
  BY <1>1, <1>4, <1>5, <1>6 DEF Memories, SamePeople
<1> DEFINE l == [m EXCEPT !.intel = intel]
<1>8. /\ l \in Memories /\ l.intel = intel /\ l.business = m.business
      /\ l.pictures = m.pictures
  BY <1>1, <1>5 DEF Memories
<1> HIDE DEF l
<1>9. Sound(l, t)
  BY <1>5, <1>8, SoundUpdated
<1>10. Views(n) = Views(l)
  BY <1>7, <1>8 DEF Views
<1>11. Sound(n, t)
  BY <1>4, <1>7, <1>9, <1>10 DEF Sound
<1> QED
  BY <1>7, <1>11 DEF n

\* So does the qualification.
LEMMA QualifiedIs ==
    ASSUME NEW m, NEW t \in Nat, Sound(m, t), NEW u \in Utterances
    PROVE  LET n == Qualified(m, u)
           IN  Sound(n, t) /\ SamePeople(n, m) /\ n.buffer = m.buffer
<1> DEFINE qual == IF u.qualified = NothingObserved(Campaign) THEN m.qual
                   ELSE UpdateQualification(Campaign, m.qual, u.qualified, u.amended)
           n == Qualified(m, u)
<1>1. m \in Memories
  BY DEF Sound
<1>2. m.qual \in Snapshots(Campaign) \cup {NotQualified}
  BY <1>1, MemoryIs
<1>3. u.qualified \in Observations(Campaign) /\ u.amended \in SUBSET Campaign.fields
  BY UtteranceIs
<1>4. UpdateQualification(Campaign, m.qual, u.qualified, u.amended) \in Snapshots(Campaign)
  BY <1>2, <1>3, CampaignAssumption, QualificationIs
<1>5. qual \in Snapshots(Campaign) \cup {NotQualified}
  BY <1>2, <1>4
<1>6. n = [m EXCEPT !.qual = qual]
  BY DEF Qualified
<1> HIDE DEF qual, n
<1>7. n \in Memories /\ n.intel = m.intel /\ n.buffer = m.buffer
      /\ n.pictures = m.pictures /\ n.business = m.business /\ SamePeople(n, m)
  BY <1>1, <1>5, <1>6 DEF Memories, SamePeople
<1>8. Sound(n, t)
  BY <1>7, SettledLast, SoundUpdated
<1> QED
  BY <1>7, <1>8 DEF n

\* Who speaks now, by the continuity policy.
LEMMA DecisionIs ==
    ASSUME NEW m \in Memories, NEW u \in Utterances, u.speaker # "unavailable"
    PROVE  LET d == SpeakerDecision(m, u)
           IN  /\ d.state \in ContinuityStates /\ d.who \in References
               /\ d.minted \in Nat /\ d.minted \in {m.minted, m.minted + 1}
               /\ d.state = "new_confirmed" =>
                      d.who.id = m.minted + 1 /\ d.minted = m.minted + 1
               /\ d.state = "same_confirmed" =>
                      \/ m.active = NoOne /\ d.who.id = m.minted + 1
                            /\ d.minted = m.minted + 1
                      \/ m.active # NoOne /\ d.who.id = m.active.id
                            /\ d.minted = m.minted
               /\ d.refused => m.active.id = m.minted + 1
<1> DEFINE d == SpeakerDecision(m, u)
           kind == u.speaker
           role == u.role
           active == m.active
           minted == m.minted
<1>1. /\ active \in References /\ active.id \in Nat /\ minted \in Nat
      /\ kind \in EvidenceKinds /\ role \in Roles
  BY MemoryIs, UtteranceIs DEF References
<1>2. d = Decide(active, kind, role, minted)
  BY DEF SpeakerDecision
<1> HIDE DEF d, kind, role, active, minted
<1>3. /\ Fresh(minted, role) \in References /\ Fresh(minted, role).id = minted + 1
      /\ Fresh(minted, "unknown") \in References
      /\ Fresh(minted, "unknown").id = minted + 1
  BY <1>1 DEF Fresh, References, Roles
<1>4. Refined(active, role) \in References /\ Refined(active, role).id = active.id
  BY <1>1 DEF Refined, References, Roles
<1>5. CASE kind \in {"not_part_of_prior", "handoff"}
  <2>1. d = TakeOver(active, role, minted)
    BY <1>2, <1>5 DEF Decide
  <2>2. /\ d.state = "new_confirmed" /\ d.who = Fresh(minted, role)
        /\ d.minted = minted + 1 /\ d.refused = (active.id = Fresh(minted, role).id)
    BY <2>1 DEF TakeOver, Decided
  <2>3. d.refused => active.id = minted + 1
    BY <1>3, <2>2, Zenon
  <2>4. d.state \in ContinuityStates /\ d.state # "same_confirmed"
    BY <2>2 DEF ContinuityStates
  <2> QED
    BY <1>1, <1>3, <2>2, <2>3, <2>4 DEF d, active, minted
<1>6. CASE kind \notin {"not_part_of_prior", "handoff"} /\ active = NoOne
  <2> DEFINE who == Fresh(minted, IF kind = "none" THEN "unknown" ELSE role)
  <2>1. d = Decided(FirstState[kind], who, minted + 1)
    BY <1>2, <1>6 DEF Decide
  <2>2. kind \in {"none", "self_identification", "correction", "inferred"}
    BY <1>1, <1>6 DEF EvidenceKinds
  <2>3. /\ FirstState[kind] \in ContinuityStates
        /\ FirstState[kind] # "new_confirmed"
    BY <2>2 DEF FirstState, ContinuityStates
  <2>4. who \in References /\ who.id = minted + 1
    BY <1>3
  <2>5. d.state = FirstState[kind] /\ d.who = who /\ d.minted = minted + 1 /\ d.refused = FALSE
    BY <2>1 DEF Decided
  <2> QED
    BY <1>1, <1>6, <2>3, <2>4, <2>5 DEF d, active, minted
<1>7. CASE kind \notin {"not_part_of_prior", "handoff"} /\ active # NoOne
  <2>1. \/ d = Decided("same_confirmed", Refined(active, role), minted)
        \/ d = Decided("likely_new", active, minted)
        \/ d = Decided("same_confirmed", active, minted)
    BY <1>2, <1>7 DEF Decide
  <2>2. /\ d.state \in {"same_confirmed", "likely_new"} /\ d.minted = minted
        /\ d.refused = FALSE /\ d.who \in {active, Refined(active, role)}
    BY <2>1 DEF Decided
  <2> QED
    BY <1>1, <1>4, <1>7, <2>2 DEF ContinuityStates, d, active, minted
<1> QED
  BY <1>5, <1>6, <1>7

\* A new person takes over: who leaves is filed, and nothing of him stays.
LEMMA TakenOverIs ==
    ASSUME NEW m, NEW t \in Nat, Sound(m, t), NEW who \in References
    PROVE  LET n == TakenOver(m, who)
           IN  /\ Sound(n, t)
               /\ n.active = who /\ n.minted = m.minted /\ n.coverage = m.coverage
               /\ n.normalTurn = m.normalTurn /\ n.buffer = m.buffer
               /\ n.archived = IF m.active # NoOne THEN Append(m.archived, Retired(m))
                               ELSE m.archived
               /\ Retired(m) \in People
<1> DEFINE retired == Retired(m)
           view == [id |-> m.active.id, intel |-> m.intel]
           archived == IF m.active # NoOne THEN Append(m.archived, retired) ELSE m.archived
           pictures == IF m.active # NoOne THEN Append(m.pictures, view) ELSE m.pictures
           n == TakenOver(m, who)
<1>1. m \in Memories
  BY DEF Sound
<1>2. /\ m.active \in References /\ m.archived \in Seq(People)
      /\ m.pictures \in Seq(Pictures) /\ m.intel \in Intelligence
      /\ m.language \in Languages /\ m.coverage \subseteq CoverageEntries(Concepts)
  BY <1>1, MemoryIs
<1>3. retired \in People
  <2>1. HeardBy(m.coverage, m.active.id) \subseteq Concepts
    BY <1>2 DEF HeardBy, CoverageEntries
  <2>2. LanguagePayload(m.language) \in Languages
    BY <1>2, LanguageAssumption
  <2> HIDE DEF HeardBy
  <2> QED
    BY <1>2, <2>1, <2>2 DEF Retired, People, LanguagePayload
<1>4. view \in Pictures /\ view.intel = m.intel
  BY <1>2 DEF Pictures, References
<1> HIDE DEF retired, view
<1>5. archived \in Seq(People) /\ pictures \in Seq(Pictures)
  BY <1>2, <1>3, <1>4
<1>6. n = [m EXCEPT !.active = who, !.archived = archived, !.pictures = pictures,
                    !.intel = NothingKnown, !.language = Unheard]
  BY DEF TakenOver, TakenOverWith, retired, view
<1>7. Unheard \in Languages
  BY LanguageAssumption
<1> HIDE DEF archived, pictures, n
<1>8. /\ n \in Memories /\ n.intel = NothingKnown /\ n.pictures = pictures
      /\ n.archived = archived /\ n.business = m.business /\ n.active = who
      /\ n.minted = m.minted /\ n.coverage = m.coverage
      /\ n.normalTurn = m.normalTurn /\ n.buffer = m.buffer
  BY <1>1, <1>5, <1>6, <1>7, NothingKnownIs DEF Memories
<1>9. Sound(n, t)
  <2>1. CASE m.active = NoOne
    <3>1. n.pictures = m.pictures
      BY <1>8, <2>1 DEF pictures
    <3> QED
      BY <1>8, <3>1, NothingKnownIs, SoundUpdated
  <2>2. CASE m.active # NoOne
    <3>1. n.pictures = Append(m.pictures, view)
      BY <1>8, <2>2 DEF pictures
    <3> DEFINE k == Len(m.pictures)
               p == Views(m)
               q == Views(n)
    <3>2. /\ k \in Nat /\ p \in Seq(Intelligence) /\ DOMAIN p = 1..(k + 1)
          /\ p[k + 1] = m.intel /\ \A i \in 1..k : p[i] = m.pictures[i].intel
      BY <1>2, ViewsAre
    <3>3. /\ Len(n.pictures) = k + 1 /\ n.pictures[k + 1] = view
          /\ \A i \in 1..k : n.pictures[i] = m.pictures[i]
      BY <1>2, <1>4, <3>1
    <3>4. /\ q \in Seq(Intelligence) /\ DOMAIN q = 1..(k + 2)
          /\ q[k + 2] = NothingKnown
          /\ \A i \in 1..(k + 1) : q[i] = n.pictures[i].intel
      <4>1. n.pictures \in Seq(Pictures) /\ n.intel \in Intelligence
        BY <1>5, <1>8, NothingKnownIs
      <4>2. (k + 1) + 1 = k + 2
        BY <3>2
      <4> HIDE DEF k, q
      <4> QED
        BY <1>8, <3>3, <4>1, <4>2, ViewsAre DEF q
    <3>5. Words(p, t)
      BY DEF Sound
    <3> HIDE DEF k, p, q
    <3>6. q = Append(p, NothingKnown)
      <4>1. Append(p, NothingKnown) \in Seq(Intelligence)
        BY <3>2, NothingKnownIs
      <4>2. /\ Len(q) = k + 2 /\ Len(Append(p, NothingKnown)) = k + 2
            /\ Append(p, NothingKnown)[k + 2] = NothingKnown
        BY <3>2, <3>4
      <4>3. \A i \in 1..(k + 1) : Append(p, NothingKnown)[i] = p[i] /\ p[i] = q[i]
        <5> TAKE i \in 1..(k + 1)
        <5>1. Append(p, NothingKnown)[i] = p[i]
          BY <3>2
        <5>2. i = k + 1 \/ i \in 1..k
          BY <3>2
        <5>3. CASE i = k + 1
          BY <1>4, <3>2, <3>3, <3>4, <5>1, <5>3
        <5>4. CASE i \in 1..k
          BY <3>2, <3>3, <3>4, <5>1, <5>4
        <5> QED
          BY <5>2, <5>3, <5>4
      <4>4. \A i \in 1..(k + 2) : q[i] = Append(p, NothingKnown)[i]
        BY <3>2, <3>4, <4>2, <4>3
      <4> DEFINE r == Append(p, NothingKnown)
      <4> HIDE DEF r
      <4> QED
        BY <3>2, <3>4, <4>1, <4>2, <4>4, SeqEqual DEF r
    <3>7. Words(q, t)
      BY <3>2, <3>5, <3>6, WordsHanded
    <3> QED
      BY <1>8, <3>7 DEF Sound, q
  <2> QED
    BY <2>1, <2>2
<1> QED
  BY <1>3, <1>8, <1>9 DEF n, archived, retired

\* The people of a call count up, and what is filed of those who left is what
\* the coverage says they heard.
Numbered(m) ==
    /\ \A i \in DOMAIN m.archived : m.archived[i].who.id = i
    /\ \/ m.active = NoOne /\ m.archived = <<>> /\ m.minted = 0
       \/ m.active # NoOne /\ m.active.id = Len(m.archived) + 1 /\ m.minted = m.active.id

Filed(m, coverage) ==
    \A i \in DOMAIN m.archived :
        m.archived[i].heard = HeardBy(coverage, m.archived[i].who.id)

\* Where people count up, no new reference is taken.
LEMMA NothingRefused ==
    ASSUME NEW m \in Memories, NEW u \in Utterances, Numbered(m)
    PROVE  ~Refused(m, u)
<1> SUFFICES ASSUME Refused(m, u)
             PROVE  FALSE
  OBVIOUS
<1>1. u.speaker # "unavailable" /\ SpeakerDecision(m, u).refused
  BY DEF Refused
<1>2. m.active.id = m.minted + 1
  BY <1>1, DecisionIs
<1>3. NoOne.id = 0 /\ m.minted \in Nat
  BY MemoryIs DEF NoOne
<1> QED
  BY <1>2, <1>3 DEF Numbered

\* Somebody is counted who does not come to speak.
Wasted(m, u) ==
    /\ u.speaker # "unavailable"
    /\ SpeakerDecision(m, u).minted # m.minted
    /\ SpeakerDecision(m, u).state \notin {"new_confirmed", "same_confirmed"}

\* A decision on who speaks leaves the memory sound, and the people counted up
\* unless somebody was counted in vain.
LEMMA SpeakingIs ==
    ASSUME NEW m, NEW t \in Nat, Sound(m, t), NEW u \in Utterances
    PROVE  LET n == Speaking(m, u)
           IN  /\ Sound(n, t)
               /\ n.coverage = m.coverage /\ n.normalTurn = m.normalTurn
               /\ n.buffer = m.buffer
               /\ Numbered(m) /\ Filed(m, m.coverage) /\ ~Wasted(m, u)
                      => Numbered(n) /\ Filed(n, m.coverage)
<1> DEFINE n == Speaking(m, u)
<1>1. m \in Memories
  BY DEF Sound
<1>2. CASE u.speaker = "unavailable"
  BY <1>2 DEF Speaking
<1>3. CASE u.speaker # "unavailable"
  <2> DEFINE d == SpeakerDecision(m, u)
             decided == [m EXCEPT !.decision = d.state, !.minted = d.minted]
  <2>1. /\ d.state \in ContinuityStates /\ d.who \in References
        /\ d.minted \in Nat /\ d.minted \in {m.minted, m.minted + 1}
        /\ d.state = "new_confirmed" =>
               d.who.id = m.minted + 1 /\ d.minted = m.minted + 1
        /\ d.state = "same_confirmed" =>
               \/ m.active = NoOne /\ d.who.id = m.minted + 1
                     /\ d.minted = m.minted + 1
               \/ m.active # NoOne /\ d.who.id = m.active.id
                     /\ d.minted = m.minted
    BY <1>1, <1>3, DecisionIs
  <2>2. n = ApplyDecision(m, d)
    BY <1>3 DEF Speaking
  <2>3. ~Wasted(m, u) => d.minted = m.minted \/ d.state \in {"new_confirmed", "same_confirmed"}
    BY <1>3 DEF Wasted
  <2> HIDE DEF d
  <2>4. /\ decided \in Memories /\ decided.intel = m.intel
        /\ decided.pictures = m.pictures /\ decided.business = m.business
        /\ decided.coverage = m.coverage /\ decided.normalTurn = m.normalTurn
        /\ decided.buffer = m.buffer /\ decided.active = m.active
        /\ decided.archived = m.archived /\ decided.minted = d.minted
    BY <1>1, <2>1 DEF Memories
  <2>5. n = CASE d.state = "new_confirmed" -> TakenOver(decided, d.who)
              [] d.state = "same_confirmed" -> [decided EXCEPT !.active = d.who]
              [] OTHER -> decided
    BY <2>2 DEF ApplyDecision
  <2> HIDE DEF decided, n
  <2>6. Sound(decided, t)
    BY <2>4, SettledLast, SoundUpdated
  <2>7. NoOne.id = 0 /\ m.minted \in Nat /\ m.active.id \in Nat
        /\ m.archived \in Seq(People) /\ Len(m.archived) \in Nat
        /\ DOMAIN m.archived = 1..Len(m.archived)
    <3>1. m.active \in References /\ m.archived \in Seq(People) /\ m.minted \in Nat
      BY <1>1, MemoryIs
    <3> QED
      BY <3>1 DEF NoOne, References
  <2>8. CASE d.state = "new_confirmed"
    <3> DEFINE retired == Retired(decided)
    <3>1. n = TakenOver(decided, d.who)
      BY <2>5, <2>8
    <3>2. /\ Sound(n, t)
          /\ n.active = d.who /\ n.minted = d.minted /\ n.coverage = m.coverage
          /\ n.normalTurn = m.normalTurn /\ n.buffer = m.buffer
          /\ n.archived = IF m.active # NoOne THEN Append(m.archived, retired)
                          ELSE m.archived
          /\ retired \in People
      BY <2>1, <2>4, <2>6, <3>1, TakenOverIs
    <3>3. retired.who = m.active /\ retired.heard = HeardBy(m.coverage, m.active.id)
      BY <2>4 DEF Retired
    <3> HIDE DEF retired
    <3>4. ASSUME Numbered(m), Filed(m, m.coverage)
          PROVE  Numbered(n) /\ Filed(n, m.coverage)
      <4>1. n.active.id = m.minted + 1 /\ n.minted = m.minted + 1 /\ n.active # NoOne
        BY <2>1, <2>7, <2>8, <3>2
      <4>2. CASE m.active = NoOne
        <5>1. n.archived = <<>> /\ m.archived = <<>> /\ m.minted = 0
          BY <2>7, <3>2, <3>4, <4>2 DEF Numbered
        <5>2. DOMAIN <<>> = {} /\ Len(<<>>) = 0
          OBVIOUS
        <5> QED
          BY <4>1, <5>1, <5>2 DEF Numbered, Filed
      <4>3. CASE m.active # NoOne
        <5> DEFINE k == Len(m.archived)
                   a == n.archived
        <5>1. a = Append(m.archived, retired)
          BY <3>2, <4>3
        <5>2. k \in Nat /\ m.active.id = k + 1 /\ m.minted = k + 1
          BY <2>7, <3>4, <4>3 DEF Numbered
        <5>3. /\ DOMAIN a = 1..(k + 1) /\ Len(a) = k + 1 /\ a[k + 1] = retired
              /\ \A i \in 1..k : a[i] = m.archived[i]
          BY <2>7, <3>2, <5>1
        <5>4. \A i \in 1..k : m.archived[i].who.id = i
                                 /\ m.archived[i].heard = HeardBy(m.coverage, m.archived[i].who.id)
          BY <2>7, <3>4 DEF Numbered, Filed
        <5> HIDE DEF k, a
        <5>5. \A i \in DOMAIN a : i = k + 1 \/ i \in 1..k
          BY <5>2, <5>3
        <5>6. \A i \in DOMAIN a : a[i].who.id = i
                                     /\ a[i].heard = HeardBy(m.coverage, a[i].who.id)
          BY <3>3, <5>2, <5>3, <5>4, <5>5
        <5>7. n.active.id = Len(a) + 1 /\ n.minted = n.active.id
          BY <4>1, <5>2, <5>3
        <5> QED
          BY <4>1, <5>6, <5>7 DEF Numbered, Filed, a
      <4> QED
        BY <4>2, <4>3
    <3> QED
      BY <3>2, <3>4 DEF n
  <2>9. CASE d.state = "same_confirmed"
    <3>1. n = [decided EXCEPT !.active = d.who]
      BY <2>5, <2>9
    <3>2. /\ n \in Memories /\ n.intel = m.intel
          /\ n.pictures = m.pictures /\ n.business = m.business
          /\ n.coverage = m.coverage /\ n.normalTurn = m.normalTurn
          /\ n.buffer = m.buffer /\ n.active = d.who
          /\ n.archived = m.archived /\ n.minted = d.minted
      BY <2>1, <2>4, <3>1 DEF Memories
    <3>3. Sound(n, t)
      BY <3>2, SettledLast, SoundUpdated
    <3>4. ASSUME Numbered(m), Filed(m, m.coverage)
          PROVE  Numbered(n) /\ Filed(n, m.coverage)
      <4>1. Filed(n, m.coverage)
        BY <3>2, <3>4 DEF Filed
      <4>2. CASE m.active = NoOne
        <5>1. m.archived = <<>> /\ m.minted = 0
          BY <2>7, <3>4, <4>2 DEF Numbered
        <5>2. n.active.id = 1 /\ n.minted = 1
          BY <2>1, <2>7, <2>9, <3>2, <4>2, <5>1
        <5> QED
          BY <2>7, <3>2, <3>4, <4>1, <5>1, <5>2 DEF Numbered
      <4>3. CASE m.active # NoOne
        <5>1. m.active.id = Len(m.archived) + 1 /\ m.minted = m.active.id
          BY <3>4, <4>3 DEF Numbered
        <5>2. n.active.id = m.active.id /\ n.minted = m.minted
          BY <2>1, <2>7, <2>9, <3>2, <4>3, <5>1
        <5> QED
          BY <2>7, <3>2, <3>4, <4>1, <5>1, <5>2 DEF Numbered
      <4> QED
        BY <4>2, <4>3
    <3> QED
      BY <3>2, <3>3, <3>4 DEF n
  <2>10. CASE d.state \notin {"new_confirmed", "same_confirmed"}
    <3>1. n = decided
      BY <2>5, <2>10
    <3>2. ~Wasted(m, u) => n.minted = m.minted
      BY <2>3, <2>4, <2>10, <3>1
    <3>3. Numbered(m) /\ Filed(m, m.coverage) /\ ~Wasted(m, u)
              => Numbered(n) /\ Filed(n, m.coverage)
      BY <2>4, <3>1, <3>2 DEF Numbered, Filed
    <3> QED
      BY <2>4, <2>6, <3>1, <3>3 DEF n
  <2> QED
    BY <2>8, <2>9, <2>10
<1> QED
  BY <1>2, <1>3

\* All that is heard of a turn leaves the memory sound and tells nobody anything.
LEMMA ListenedIs ==
    ASSUME NEW m, NEW t \in Nat, Sound(m, t), NEW u \in Utterances
    PROVE  LET n == Listened(m, u, t)
           IN  /\ Sound(n, t)
               /\ n.coverage = m.coverage /\ n.normalTurn = m.normalTurn
               /\ n.buffer = IF u.priority THEN m.buffer ELSE ConsumeFor(m.buffer, t)
               /\ Numbered(m) /\ Filed(m, m.coverage) /\ ~MintsInVain(m, u)
                      => Numbered(n) /\ Filed(n, m.coverage)
<1> DEFINE n == Listened(m, u, t)
<1>1. CASE u.priority
  BY <1>1 DEF Listened
<1>2. CASE ~u.priority
  <2> DEFINE a == Advised(m, t)
             h == Heard(a, u)
             s == Speaking(h, u)
             l == Learned(s, u, t)
             q == Qualified(l, u)
  <2>1. Sound(a, t) /\ SamePeople(a, m) /\ a.buffer = ConsumeFor(m.buffer, t)
    BY AdvisedIs
  <2>2. n = q
    BY <1>2 DEF Listened
  <2> HIDE DEF a, n
  <2>3. Sound(h, t) /\ SamePeople(h, a) /\ h.buffer = a.buffer
    BY <2>1, HeardIs
  <2> HIDE DEF h
  <2>4. /\ Sound(s, t)
        /\ s.coverage = h.coverage /\ s.normalTurn = h.normalTurn
        /\ s.buffer = h.buffer
        /\ Numbered(h) /\ Filed(h, h.coverage) /\ ~Wasted(h, u)
               => Numbered(s) /\ Filed(s, h.coverage)
    BY <2>3, SpeakingIs
  <2> HIDE DEF s
  <2>5. Sound(l, t) /\ SamePeople(l, s) /\ l.buffer = s.buffer
    BY <2>4, LearnedIs
  <2> HIDE DEF l
  <2>6. Sound(q, t) /\ SamePeople(q, l) /\ q.buffer = l.buffer
    BY <2>5, QualifiedIs
  <2> HIDE DEF q
  <2>7. /\ h.active = m.active /\ h.archived = m.archived /\ h.minted = m.minted
        /\ h.coverage = m.coverage
    BY <2>1, <2>3 DEF SamePeople
  <2>8. q.active = s.active /\ q.archived = s.archived /\ q.minted = s.minted
    BY <2>5, <2>6 DEF SamePeople
  <2>9. SpeakerDecision(h, u) = SpeakerDecision(m, u)
    BY <2>7 DEF SpeakerDecision
  <2>10. ~MintsInVain(m, u) => ~Wasted(h, u)
    BY <1>2, <2>7, <2>9 DEF MintsInVain, Wasted
  <2>11. Numbered(m) /\ Filed(m, m.coverage) => Numbered(h) /\ Filed(h, h.coverage)
    BY <2>7 DEF Numbered, Filed
  <2>12. Numbered(s) /\ Filed(s, h.coverage) => Numbered(q) /\ Filed(q, m.coverage)
    BY <2>7, <2>8 DEF Numbered, Filed
  <2>13. Numbered(m) /\ Filed(m, m.coverage) /\ ~MintsInVain(m, u)
             => Numbered(q) /\ Filed(q, m.coverage)
    BY <2>4, <2>10, <2>11, <2>12
  <2>14. /\ q.coverage = m.coverage /\ q.normalTurn = m.normalTurn
         /\ q.buffer = ConsumeFor(m.buffer, t)
    BY <2>1, <2>3, <2>4, <2>5, <2>6 DEF SamePeople
  <2> QED
    BY <1>2, <2>2, <2>6, <2>13, <2>14 DEF n
<1>3. u.priority \in BOOLEAN
  BY UtteranceIs
<1> QED
  BY <1>1, <1>2, <1>3

\* One turn tells at most one thing, to the person who speaks.
LEMMA DeliveredIs ==
    ASSUME NEW m \in Memories, NEW u \in Utterances, NEW t \in Nat
    PROVE  LET d == Delivered(m, Explanation(m, u), t)
           IN  /\ d \subseteq CoverageEntries(Concepts)
               /\ \A e \in d : m.active # NoOne /\ e.who = m.active.id /\ e.source = t
               /\ \A e1, e2 \in d : e1 = e2
<1> DEFINE x == Explanation(m, u)
           d == Delivered(m, x, t)
           intent == ClassifiedIntent(u.intent)
           strategy == ReExplanation(m.decision, m.active.id, u.concept, m.coverage, intent)
<1>1. m.active \in References /\ m.active.id \in Nat /\ u.concept \in Concepts
  BY MemoryIs, UtteranceIs DEF References
<1>2. CASE x = NothingTold
  <2>1. d = {}
    BY <1>2 DEF Delivered
  <2> QED
    BY <2>1
<1>3. CASE x # NothingTold
  <2>1. /\ m.active # NoOne /\ intent # "catalog"
        /\ x = [who |-> m.active.id, concept |-> u.concept, strategy |-> strategy]
    BY <1>3 DEF Explanation
  <2>2. strategy \in {"no_prior_coverage", "full_re_explain", "concise_recap",
                      "deepen", "simplify", "suppress"}
    <3> HIDE DEF intent
    <3> QED
      BY DEF ReExplanation
  <2> HIDE DEF x, strategy, intent
  <2>3. x.who = m.active.id /\ x.concept = u.concept /\ x.strategy = strategy
    BY <2>1
  <2>4. DeliveredDepth[strategy] = "none" \/ DeliveredDepth[strategy] \in Depths \ {"none"}
    BY <2>2 DEF DeliveredDepth, Depths, DepthRank
  <2> DEFINE depth == DeliveredDepth[strategy]
             e == [who |-> m.active.id, concept |-> u.concept, depth |-> depth, source |-> t]
  <2>5. d \subseteq {e} /\ (d # {} => depth # "none")
    BY <2>3 DEF Delivered
  <2> HIDE DEF depth
  <2>6. depth # "none" => e \in CoverageEntries(Concepts)
    BY <1>1, <2>4 DEF CoverageEntries, depth
  <2>7. e.who = m.active.id /\ e.source = t
    OBVIOUS
  <2> HIDE DEF e, d
  <2> QED
    BY <2>1, <2>5, <2>6, <2>7 DEF d, x
<1> QED
  BY <1>2, <1>3

-----------------------------------------------------------------------------
(* A restart.                                                               *)

\* What is not written, or not read.
Reset(m) == [m EXCEPT !.minted = LastReference(m.archived, m.active),
                      !.decision = "unknown", !.buffer = EmptyBuffer,
                      !.normalTurn = 0, !.language = LanguagePayload(@)]

\* What is left of a memory after a restart.
LEMMA ResetIs ==
    ASSUME NEW m \in Memories
    PROVE  /\ Reset(m) \in Memories
           /\ Reset(m).active = m.active /\ Reset(m).archived = m.archived
           /\ Reset(m).pictures = m.pictures /\ Reset(m).intel = m.intel
           /\ Reset(m).coverage = m.coverage /\ Reset(m).business = m.business
           /\ Reset(m).buffer = EmptyBuffer /\ Reset(m).normalTurn = 0
           /\ Reset(m).minted = LastReference(m.archived, m.active)
           /\ Reset(m).language = LanguagePayload(m.language)
           /\ Reset(m).qual = m.qual /\ Reset(m).decision = "unknown"
<1>1. LanguagePayload(m.language) \in Languages
  BY MemoryIs, LanguageAssumption
<1>2. LastReference(m.archived, m.active) \in Nat
  <2>1. Len(m.archived) \in Nat
    BY MemoryIs
  <2> DEFINE n == IF m.active = NoOne THEN 0 ELSE 1
  <2>2. n \in Nat
    OBVIOUS
  <2>3. LastReference(m.archived, m.active) = Len(m.archived) + n
    BY DEF LastReference
  <2> HIDE DEF n
  <2> QED
    BY <2>1, <2>2, <2>3
<1>3. EmptyBuffer \in Buffers(InferredSlots)
  BY DEF EmptyBuffer, NoInsight, Buffers, Insights
<1>4. "unknown" \in ContinuityStates
  BY DEF ContinuityStates
<1> DEFINE last == LastReference(m.archived, m.active)
           language == LanguagePayload(m.language)
<1>5. Reset(m) = [m EXCEPT !.minted = last, !.decision = "unknown", !.buffer = EmptyBuffer,
                           !.normalTurn = 0, !.language = language]
  BY DEF Reset
<1> DEFINE n == Reset(m)
<1>6. last \in Nat /\ language \in Languages
  BY <1>1, <1>2
<1> HIDE DEF last, language, n
<1>7. n = [m EXCEPT !.minted = last, !.decision = "unknown", !.buffer = EmptyBuffer,
                    !.normalTurn = 0, !.language = language]
  BY <1>5 DEF n
<1>8. n \in Memories
  BY <1>3, <1>4, <1>6, <1>7 DEF Memories
<1>9. /\ n.active = m.active /\ n.archived = m.archived
      /\ n.pictures = m.pictures /\ n.intel = m.intel
      /\ n.coverage = m.coverage /\ n.business = m.business
      /\ n.buffer = EmptyBuffer /\ n.normalTurn = 0 /\ n.minted = last
      /\ n.language = language /\ n.qual = m.qual /\ n.decision = "unknown"
  BY <1>7 DEF Memories
<1> QED
  BY <1>8, <1>9 DEF n, last, language

\* Memories with the same parts are the same.
LEMMA SameMemory ==
    ASSUME NEW m \in Memories, NEW n \in Memories,
           n.active = m.active, n.archived = m.archived, n.pictures = m.pictures,
           n.intel = m.intel, n.language = m.language, n.coverage = m.coverage,
           n.minted = m.minted, n.decision = m.decision, n.business = m.business,
           n.qual = m.qual, n.buffer = m.buffer, n.normalTurn = m.normalTurn
    PROVE  n = m
BY DEF Memories

\* A new call with some of its parts replaced by those of a memory.
LEMMA NewCallWith ==
    ASSUME NEW m \in Memories
    PROVE  [NewCall EXCEPT
              !.business = m.business, !.intel = m.intel, !.language = m.language,
              !.qual = m.qual, !.active = m.active, !.archived = m.archived,
              !.pictures = m.pictures, !.coverage = m.coverage, !.minted = m.minted]
           = [m EXCEPT !.decision = "unknown", !.buffer = EmptyBuffer, !.normalTurn = 0]
<1> DEFINE a == [NewCall EXCEPT !.business = m.business, !.intel = m.intel,
                                !.language = m.language, !.qual = m.qual]
           b == [a EXCEPT !.active = m.active, !.archived = m.archived,
                          !.pictures = m.pictures]
           c == [b EXCEPT !.coverage = m.coverage, !.minted = m.minted]
           d == [m EXCEPT !.decision = "unknown", !.buffer = EmptyBuffer,
                          !.normalTurn = 0]
<1>1. /\ NewCall \in Memories /\ NewCall.decision = "unknown"
      /\ NewCall.buffer = EmptyBuffer /\ NewCall.normalTurn = 0
  BY NewCallIs DEF Sound, NewCall
<1> HIDE DEF NewCall
<1>2. /\ a \in Memories /\ a.business = m.business /\ a.intel = m.intel
      /\ a.language = m.language /\ a.qual = m.qual /\ a.decision = "unknown"
      /\ a.buffer = EmptyBuffer /\ a.normalTurn = 0
  BY <1>1 DEF Memories
<1> HIDE DEF a
<1>3. /\ b \in Memories /\ b.business = m.business /\ b.intel = m.intel
      /\ b.language = m.language /\ b.qual = m.qual /\ b.active = m.active
      /\ b.archived = m.archived /\ b.pictures = m.pictures
      /\ b.decision = "unknown" /\ b.buffer = EmptyBuffer /\ b.normalTurn = 0
  BY <1>2 DEF Memories
<1> HIDE DEF b
<1>4. /\ c \in Memories /\ c.business = m.business /\ c.intel = m.intel
      /\ c.language = m.language /\ c.qual = m.qual /\ c.active = m.active
      /\ c.archived = m.archived /\ c.pictures = m.pictures
      /\ c.coverage = m.coverage /\ c.minted = m.minted
      /\ c.decision = "unknown" /\ c.buffer = EmptyBuffer /\ c.normalTurn = 0
  BY <1>3 DEF Memories
<1> HIDE DEF c
<1>5. /\ d \in Memories /\ d.business = m.business /\ d.intel = m.intel
      /\ d.language = m.language /\ d.qual = m.qual /\ d.active = m.active
      /\ d.archived = m.archived /\ d.pictures = m.pictures
      /\ d.coverage = m.coverage /\ d.minted = m.minted
      /\ d.decision = "unknown" /\ d.buffer = EmptyBuffer /\ d.normalTurn = 0
  BY <1>1 DEF Memories
<1> HIDE DEF d
<1>6. c = d
  BY <1>4, <1>5, SameMemory
<1> QED
  BY <1>6 DEF a, b, c, d

\* What a restart gives back is the memory, but for what is not written.
LEMMA RestartIs ==
    ASSUME NEW m \in Memories
    PROVE  Recalled(Export(m)) = Reset(m)
<1> DEFINE s == Export(m)
           keys == PayloadKeys(m)
<1>1. /\ m.active \in References /\ m.archived \in Seq(People)
      /\ m.pictures \in Seq(Pictures) /\ m.intel \in Intelligence
      /\ m.language \in Languages
  BY MemoryIs
<1>2. DOMAIN s = keys /\ \A k \in keys : s[k] = Payload(m, k)
  BY DEF Export
<1> HIDE DEF s
<1>3. /\ "business" \in keys /\ "prospect" \in keys
      /\ "language" \in keys <=> m.language # Unheard
      /\ "qualification" \in keys <=> m.qual # NotQualified
      /\ "participants" \in keys <=> m.active # NoOne \/ m.archived # <<>>
      /\ "archive" \in keys <=> m.pictures # <<>>
      /\ "coverage" \in keys <=> m.coverage # {}
  BY DEF PayloadKeys
<1>4. s["business"] = m.business /\ ProspectFrom(s["prospect"]) = m.intel
  <2>1. s["business"] = m.business /\ s["prospect"] = ProspectPayload(m.intel)
    BY <1>2, <1>3 DEF Payload
  <2> QED
    BY <1>1, <2>1, ReadBack
<1>5. (IF "language" \in keys THEN s["language"] ELSE Unheard) = LanguagePayload(m.language)
  BY <1>2, <1>3, LanguageAssumption DEF Payload
<1>6. (IF "qualification" \in keys THEN s["qualification"] ELSE NotQualified) = m.qual
  BY <1>2, <1>3 DEF Payload
<1>7. /\ (IF "participants" \in keys THEN s["participants"].active ELSE NoOne) = m.active
      /\ (IF "participants" \in keys THEN s["participants"].archived ELSE <<>>) = m.archived
  BY <1>2, <1>3 DEF Payload
<1>8. (IF "coverage" \in keys THEN s["coverage"] ELSE {}) = m.coverage
  BY <1>2, <1>3 DEF Payload
<1> DEFINE back == IF "archive" \notin keys THEN <<>>
                   ELSE [i \in DOMAIN s["archive"] |->
                           [id |-> s["archive"][i].id,
                            intel |-> ProspectFrom(s["archive"][i].intel)]]
<1>9. back = m.pictures
  <2>1. CASE m.pictures = <<>>
    BY <1>3, <2>1
  <2>2. CASE m.pictures # <<>>
    <3> DEFINE p == m.pictures
               a == s["archive"]
    <3>1. "archive" \in keys /\ a = ArchivePayload(p)
      BY <1>2, <1>3, <2>2 DEF Payload
    <3>2. /\ DOMAIN a = DOMAIN p
          /\ \A i \in DOMAIN p : a[i].id = p[i].id /\ a[i].intel = ProspectPayload(p[i].intel)
      BY <3>1 DEF ArchivePayload
    <3>3. \A x \in Pictures : x.intel \in Intelligence /\ x = [id |-> x.id, intel |-> x.intel]
      BY DEF Pictures
    <3>4. \A i \in DOMAIN p : p[i] \in Pictures
      BY <1>1
    <3>5. \A i \in DOMAIN p : [id |-> a[i].id, intel |-> ProspectFrom(a[i].intel)] = p[i]
      BY <3>2, <3>3, <3>4, ReadBack
    <3>6. back = [i \in DOMAIN p |-> [id |-> a[i].id, intel |-> ProspectFrom(a[i].intel)]]
      BY <3>1, <3>2
    <3>7. p = [i \in DOMAIN p |-> p[i]]
      BY <1>1
    <3> HIDE DEF p, a, back
    <3>8. back = p
      BY <3>5, <3>6, <3>7
    <3> QED
      BY <3>8 DEF p
  <2> QED
    BY <2>1, <2>2
<1> HIDE DEF back
<1> DEFINE r == Reset(m)
<1>10. /\ r \in Memories /\ r.business = m.business /\ r.intel = m.intel
       /\ r.language = LanguagePayload(m.language) /\ r.qual = m.qual
       /\ r.active = m.active /\ r.archived = m.archived
       /\ r.pictures = m.pictures /\ r.coverage = m.coverage
       /\ r.minted = LastReference(m.archived, m.active)
       /\ r.decision = "unknown" /\ r.buffer = EmptyBuffer /\ r.normalTurn = 0
  BY ResetIs
<1> HIDE DEF r
<1>11. Recalled(s) = [NewCall EXCEPT
                        !.business = m.business, !.intel = m.intel,
                        !.language = LanguagePayload(m.language), !.qual = m.qual,
                        !.active = m.active, !.archived = m.archived,
                        !.pictures = m.pictures, !.coverage = m.coverage,
                        !.minted = LastReference(m.archived, m.active)]
  <2>1. NewCall.language = Unheard /\ NewCall.qual = NotQualified /\ NewCall.coverage = {}
    BY DEF NewCall
  <2> HIDE DEF keys
  <2> QED
    BY <1>2, <1>3, <1>4, <1>5, <1>6, <1>7, <1>8, <1>9, <2>1 DEF Recalled, back
<1>12. Recalled(s) = [r EXCEPT !.decision = "unknown", !.buffer = EmptyBuffer,
                               !.normalTurn = 0]
  <2>1. Recalled(s) = [NewCall EXCEPT
                         !.business = r.business, !.intel = r.intel,
                         !.language = r.language, !.qual = r.qual,
                         !.active = r.active, !.archived = r.archived,
                         !.pictures = r.pictures, !.coverage = r.coverage,
                         !.minted = r.minted]
    BY <1>10, <1>11
  <2> QED
    BY <1>10, <2>1, NewCallWith, Zenon
<1>13. [r EXCEPT !.decision = "unknown", !.buffer = EmptyBuffer, !.normalTurn = 0] = r
  BY <1>10 DEF Memories
<1> QED
  BY <1>12, <1>13 DEF s, r

\* Before the first commit a restart gives back a new call.
LEMMA FirstRecall ==
    Recalled([k \in {} |-> {}]) = NewCall
<1> DEFINE s == [k \in {} |-> {}]
           n == NewCall
<1>1. DOMAIN s = {}
  OBVIOUS
<1>2. LastReference(<<>>, NoOne) = 0
  BY DEF LastReference
<1>3. /\ n \in Memories /\ n.active = NoOne /\ n.archived = <<>> /\ n.pictures = <<>>
      /\ n.minted = 0 /\ n.decision = "unknown" /\ n.buffer = EmptyBuffer
      /\ n.normalTurn = 0
  BY NewCallIs DEF Sound, NewCall
<1> HIDE DEF s
<1>4. Recalled(s) = [NewCall EXCEPT
                       !.business = n.business, !.intel = n.intel,
                       !.language = n.language, !.qual = n.qual,
                       !.active = n.active, !.archived = n.archived,
                       !.pictures = n.pictures, !.coverage = n.coverage,
                       !.minted = n.minted]
  BY <1>1, <1>2, <1>3 DEF Recalled
<1> HIDE DEF n
<1>5. Recalled(s) = [n EXCEPT !.decision = "unknown", !.buffer = EmptyBuffer,
                              !.normalTurn = 0]
  BY <1>3, <1>4, NewCallWith, Zenon
<1>6. [n EXCEPT !.decision = "unknown", !.buffer = EmptyBuffer, !.normalTurn = 0] = n
  BY <1>3 DEF Memories
<1> QED
  BY <1>5, <1>6 DEF s, n

-----------------------------------------------------------------------------
(* The invariant.  A turn's number is the next to be committed; what a      *)
(* failed commit leaves in memory is of that turn, except the coverage.     *)

Stored == Recalled(saved)

TypeOK ==
    /\ seq \in Nat
    /\ open \in [turn : Nat, coverage : SUBSET CoverageEntries(Concepts)]
    /\ open # NoTurn => open.turn = seq + 1
    /\ analyses \subseteq Nat
    /\ used \in Seq(Nat)
    /\ discarded \in BOOLEAN

\* One entry of a turn, and none of a later one.
Single(coverage, t) ==
    /\ \A e \in coverage : e.source <= t
    /\ \A e1, e2 \in coverage : e1.source = e2.source => e1 = e2

ToldOnce ==
    /\ Single(live.coverage, IF open = NoTurn THEN seq ELSE seq + 1)
    /\ open # NoTurn => Single(open.coverage, seq)
    /\ Single(Stored.coverage, seq)

EachHisNumber ==
    ~discarded =>
        /\ Numbered(live) /\ Filed(live, live.coverage)
        /\ open # NoTurn => Filed(live, open.coverage)
        /\ Numbered(Stored) /\ Filed(Stored, Stored.coverage)

\* The insights used are of committed turns, in order, and before the one that
\* waits; a call that has none, since a restart, analyses only later turns.
Behind(t) == \A i \in DOMAIN used : used[i] < t

AdviceInOrder ==
    LET b == live.buffer
    IN  /\ \A i, j \in DOMAIN used : i < j => used[i] < used[j]
        /\ Behind(seq + 1)
        /\ b.latest # NoInsight =>
               /\ Behind(b.latest.turn + 1)
               /\ b.consumed # b.latest.turn => Behind(b.latest.turn)
        /\ b.latest = NoInsight =>
               /\ \A t \in analyses : Behind(t)
               /\ live.normalTurn # 0 => Behind(live.normalTurn)

IInv ==
    /\ TypeOK
    /\ Sound(live, seq + 1)
    /\ Stored.buffer = EmptyBuffer /\ Stored.normalTurn = 0
    /\ Sound(Stored, seq)
    /\ ToldOnce
    /\ EachHisNumber
    /\ AdviceInOrder

\* The coverage is no part of what makes a memory sound.
LEMMA CoveredIs ==
    ASSUME NEW m, NEW t \in Nat, Sound(m, t), NEW c \in SUBSET CoverageEntries(Concepts)
    PROVE  LET n == [m EXCEPT !.coverage = c]
           IN  /\ Sound(n, t) /\ n.coverage = c
               /\ n.active = m.active /\ n.archived = m.archived /\ n.minted = m.minted
               /\ n.buffer = m.buffer /\ n.normalTurn = m.normalTurn
<1> DEFINE n == [m EXCEPT !.coverage = c]
<1>1. m \in Memories
  BY DEF Sound
<1>2. /\ n \in Memories /\ n.intel = m.intel /\ n.pictures = m.pictures
      /\ n.business = m.business /\ n.coverage = c
      /\ n.active = m.active /\ n.archived = m.archived /\ n.minted = m.minted
      /\ n.buffer = m.buffer /\ n.normalTurn = m.normalTurn
  BY <1>1 DEF Memories
<1> HIDE DEF n
<1>3. Sound(n, t)
  BY <1>2, SettledLast, SoundUpdated
<1> QED
  BY <1>2, <1>3 DEF n

\* Nor is the latest normal turn.
LEMMA CompletedIs ==
    ASSUME NEW m, NEW t \in Nat, Sound(m, t), NEW u
    PROVE  LET n == Completed(m, u, t)
           IN  /\ Sound(n, t) /\ n.coverage = m.coverage
               /\ n.active = m.active /\ n.archived = m.archived /\ n.minted = m.minted
               /\ n.buffer = m.buffer /\ n.normalTurn \in {m.normalTurn, t}
<1> DEFINE n == Completed(m, u, t)
<1>1. m \in Memories
  BY DEF Sound
<1>2. n = m \/ n = [m EXCEPT !.normalTurn = t]
  BY DEF Completed
<1> HIDE DEF n
<1>3. /\ n \in Memories /\ n.intel = m.intel /\ n.pictures = m.pictures
      /\ n.business = m.business /\ n.coverage = m.coverage
      /\ n.active = m.active /\ n.archived = m.archived /\ n.minted = m.minted
      /\ n.buffer = m.buffer /\ n.normalTurn \in {m.normalTurn, t}
  BY <1>1, <1>2 DEF Memories
<1>4. Sound(n, t)
  BY <1>3, SettledLast, SoundUpdated
<1> QED
  BY <1>3, <1>4 DEF n

-----------------------------------------------------------------------------
(* Initially.                                                               *)

\* A call begins in the invariant.
LEMMA InitIInv ==
    Init => IInv
<1> SUFFICES ASSUME Init
             PROVE  IInv
  OBVIOUS
<1>1. /\ live = NewCall /\ seq = 0 /\ open = NoTurn /\ analyses = {} /\ used = <<>>
      /\ discarded = FALSE
  BY DEF Init
<1>2. Stored = NewCall
  BY FirstRecall DEF Init, Stored
<1>3. /\ NewCall.coverage = {} /\ NewCall.archived = <<>> /\ NewCall.active = NoOne
      /\ NewCall.minted = 0 /\ NewCall.buffer = EmptyBuffer /\ NewCall.normalTurn = 0
  BY DEF NewCall
<1>4. TypeOK
  <2>1. NoTurn \in [turn : Nat, coverage : SUBSET CoverageEntries(Concepts)]
    BY DEF NoTurn
  <2>2. <<>> \in Seq(Nat)
    OBVIOUS
  <2> QED
    BY <1>1, <2>1, <2>2 DEF TypeOK
<1>5. Sound(NewCall, 0) /\ Sound(NewCall, 0 + 1)
  BY NewCallIs, SoundLater
<1>6. ToldOnce
  <2>1. \A t : Single({}, t)
    BY DEF Single
  <2> QED
    BY <1>1, <1>2, <1>3, <2>1 DEF ToldOnce
<1>7. DOMAIN <<>> = {}
  OBVIOUS
<1>8. EachHisNumber
  <2>1. Numbered(NewCall) /\ Filed(NewCall, NewCall.coverage)
    BY <1>3, <1>7 DEF Numbered, Filed
  <2> QED
    BY <1>1, <1>2, <2>1 DEF EachHisNumber
<1>9. AdviceInOrder
  BY <1>1, <1>7 DEF AdviceInOrder, Behind
<1> HIDE DEF NewCall
<1> QED
  BY <1>1, <1>2, <1>3, <1>4, <1>5, <1>6, <1>8, <1>9 DEF IInv

-----------------------------------------------------------------------------
(* The actions.                                                             *)

\* A turn that uses the advice keeps it in order.
LEMMA UsedIs ==
    ASSUME IInv, NEW u \in Utterances, UsesInsight(u, seq + 1),
           live'.buffer = (IF u.priority THEN live.buffer
                           ELSE ConsumeFor(live.buffer, seq + 1)),
           live'.normalTurn \in {live.normalTurn, seq + 1},
           UNCHANGED <<seq, analyses>>
    PROVE  used' \in Seq(Nat) /\ AdviceInOrder'
<1> DEFINE b == live.buffer
           turn == seq + 1
           insight == ApplicableFor(b, turn)
           last == b.latest.turn
<1>1. /\ seq \in Nat /\ used \in Seq(Nat) /\ analyses \subseteq Nat
      /\ live \in Memories
  BY DEF IInv, TypeOK, Sound
<1>2. b \in Buffers(InferredSlots) /\ live.normalTurn \in Nat
  BY <1>1, MemoryIs
<1>3. b.latest \in Insights(InferredSlots) /\ b.consumed \in Nat /\ last \in Nat
  BY <1>2 DEF Buffers, Insights
<1>4. /\ \A i, j \in DOMAIN used : i < j => used[i] < used[j]
      /\ Behind(turn)
      /\ b.latest # NoInsight =>
             Behind(last + 1) /\ (b.consumed # last => Behind(last))
      /\ b.latest = NoInsight =>
             /\ \A t \in analyses : Behind(t)
             /\ live.normalTurn # 0 => Behind(live.normalTurn)
  BY DEF IInv, AdviceInOrder
<1> HIDE DEF b
<1>5. CASE used' = used /\ live'.buffer = b
  <2>1. \A t : Behind(t)' <=> Behind(t)
    BY <1>5 DEF Behind
  <2>2. live'.normalTurn = live.normalTurn \/ live'.normalTurn = turn
    OBVIOUS
  <2> QED
    BY <1>1, <1>4, <1>5, <2>1, <2>2 DEF AdviceInOrder
<1>6. CASE used' = Append(used, insight.turn) /\ live'.buffer = ConsumeFor(b, turn)
             /\ insight # NoInsight
  <2>1. insight = b.latest /\ last < turn /\ last # b.consumed
    BY <1>6 DEF ApplicableFor
  <2>2. b.latest # NoInsight /\ insight.turn = last
    BY <1>6, <2>1
  <2>3. Behind(last)
    BY <1>4, <2>1, <2>2
  <2>4. live'.buffer = [b EXCEPT !.consumed = last]
    BY <1>6, <2>2 DEF ConsumeFor
  <2>5. live'.buffer.latest = b.latest /\ live'.buffer.consumed = last
    BY <1>2, <2>4 DEF Buffers
  <2> DEFINE k == Len(used)
  <2>6. /\ k \in Nat /\ DOMAIN used = 1..k
        /\ \A i \in 1..k : used[i] \in Nat /\ used[i] < last
    BY <1>1, <2>3 DEF Behind
  <2> HIDE DEF last, insight
  <2>7. /\ used' \in Seq(Nat) /\ DOMAIN used' = 1..(k + 1) /\ used'[k + 1] = last
        /\ \A i \in 1..k : used'[i] = used[i]
    BY <1>1, <1>3, <1>6, <2>2
  <2> HIDE DEF k
  <2>8. \A i \in DOMAIN used' : i \in 1..k \/ i = k + 1
    BY <2>6, <2>7
  <2>9. \A i, j \in DOMAIN used' : i < j => used'[i] < used'[j]
    BY <1>4, <2>6, <2>7, <2>8
  <2>10. \A i \in DOMAIN used' : used'[i] < last + 1 /\ used'[i] < turn
    BY <1>1, <1>3, <2>1, <2>6, <2>7, <2>8
  <2>11. Behind(seq + 1)' /\ Behind(live.buffer.latest.turn + 1)'
    BY <2>5, <2>10 DEF Behind, last
  <2> QED
    BY <2>2, <2>5, <2>7, <2>9, <2>11 DEF AdviceInOrder, last
<1>7. u.priority \in BOOLEAN
  BY UtteranceIs
<1>8. ConsumeFor(b, turn) = b \/ insight # NoInsight
  BY DEF ConsumeFor
<1> HIDE DEF insight
<1>9. \/ used' = used /\ live'.buffer = b
      \/ used' = Append(used, insight.turn) /\ live'.buffer = ConsumeFor(b, turn)
             /\ insight # NoInsight
  BY <1>7, <1>8 DEF UsesInsight, insight, b
<1> QED
  BY <1>1, <1>5, <1>6, <1>9

\* What the person on the line is told, those who left have not heard.
LEMMA FiledKept ==
    ASSUME NEW m \in Memories, NEW c, NEW d, Numbered(m), Filed(m, c),
           \A e \in d : m.active # NoOne /\ e.who = m.active.id
    PROVE  Filed(m, c \cup d)
<1>1. Len(m.archived) \in Nat /\ DOMAIN m.archived = 1..Len(m.archived)
  BY MemoryIs
<1> SUFFICES ASSUME NEW i \in DOMAIN m.archived
             PROVE  HeardBy(c \cup d, m.archived[i].who.id) = HeardBy(c, m.archived[i].who.id)
  BY DEF Filed
<1>2. m.archived[i].who.id = i
  BY DEF Numbered
<1>3. \A e \in d : e.who # i
  BY <1>1 DEF Numbered
<1>4. {e \in c \cup d : e.who = i} = {e \in c : e.who = i}
  BY <1>3
<1> QED
  BY <1>2, <1>4 DEF HeardBy

\* A turn that returns keeps the invariant.
LEMMA TurnKeeps ==
    ASSUME IInv, NEW u \in Utterances, Turn(u)
    PROVE  IInv'
<1> DEFINE t == seq + 1
           m == Listened(live, u, t)
           d == Delivered(m, Explanation(m, u), t)
           c == m.coverage \cup d
           n == [m EXCEPT !.coverage = c]
<1>1. /\ seq \in Nat /\ t \in Nat /\ t # 0 /\ open = NoTurn
      /\ Sound(live, t) /\ Sound(Stored, seq)
      /\ Stored.buffer = EmptyBuffer /\ Stored.normalTurn = 0
      /\ analyses \subseteq Nat /\ discarded \in BOOLEAN
      /\ open \in [turn : Nat, coverage : SUBSET CoverageEntries(Concepts)]
  BY DEF IInv, TypeOK, Turn
<1>2. /\ live' = Completed(n, u, t) /\ open' = [turn |-> t, coverage |-> live.coverage]
      /\ UsesInsight(u, t) /\ discarded' = (discarded \/ MintsInVain(live, u))
      /\ UNCHANGED <<saved, seq, analyses>>
  BY DEF Turn
<1>3. Stored' = Stored
  BY <1>2 DEF Stored
<1> HIDE DEF t
<1>4. /\ Sound(m, t) /\ m.coverage = live.coverage /\ m.normalTurn = live.normalTurn
      /\ m.buffer = IF u.priority THEN live.buffer ELSE ConsumeFor(live.buffer, t)
      /\ Numbered(live) /\ Filed(live, live.coverage) /\ ~MintsInVain(live, u)
             => Numbered(m) /\ Filed(m, live.coverage)
  BY <1>1, ListenedIs
<1> HIDE DEF m
<1>5. m \in Memories /\ live \in Memories
  BY <1>1, <1>4 DEF Sound
<1>6. m.coverage \subseteq CoverageEntries(Concepts)
  BY <1>5, MemoryIs
<1>7. /\ d \subseteq CoverageEntries(Concepts)
      /\ \A e \in d : m.active # NoOne /\ e.who = m.active.id /\ e.source = t
      /\ \A e1, e2 \in d : e1 = e2
  BY <1>1, <1>5, DeliveredIs
<1> HIDE DEF d
<1>8. c \in SUBSET CoverageEntries(Concepts) /\ c = live.coverage \cup d
  BY <1>4, <1>6, <1>7
<1> HIDE DEF c
<1>9. /\ Sound(n, t) /\ n.coverage = c
      /\ n.active = m.active /\ n.archived = m.archived /\ n.minted = m.minted
      /\ n.buffer = m.buffer /\ n.normalTurn = m.normalTurn
  BY <1>1, <1>4, <1>8, CoveredIs
<1> HIDE DEF n
<1>10. /\ Sound(live', t) /\ live'.coverage = c
       /\ live'.active = m.active /\ live'.archived = m.archived
       /\ live'.minted = m.minted
       /\ live'.buffer = m.buffer /\ live'.normalTurn \in {live.normalTurn, t}
  BY <1>1, <1>2, <1>4, <1>9, CompletedIs
<1>11. used' \in Seq(Nat) /\ AdviceInOrder'
  BY <1>2, <1>4, <1>10, UsedIs DEF t
<1>12. open' # NoTurn /\ open'.turn = t /\ open'.coverage = live.coverage
  BY <1>1, <1>2 DEF NoTurn
<1>13. TypeOK'
  <2>1. open' \in [turn : Nat, coverage : SUBSET CoverageEntries(Concepts)]
    BY <1>1, <1>2, <1>5, MemoryIs
  <2>2. discarded' \in BOOLEAN
    BY <1>2
  <2> QED
    BY <1>1, <1>2, <1>11, <1>12, <2>1, <2>2 DEF TypeOK, t
<1>14. ToldOnce'
  <2>1. Single(live.coverage, seq) /\ Single(Stored.coverage, seq)
    BY <1>1 DEF IInv, ToldOnce
  <2>2. \A e \in live.coverage : e.source \in Nat /\ e.source <= seq
    BY <1>4, <1>6, <2>1 DEF Single, CoverageEntries
  <2>3. Single(c, seq + 1)
    <3>1. \A e \in c : e.source <= seq + 1
      BY <1>1, <1>7, <1>8, <2>2 DEF t
    <3>2. \A e1, e2 \in c : e1.source = e2.source => e1 = e2
      BY <1>1, <1>7, <1>8, <2>1, <2>2 DEF t, Single
    <3> QED
      BY <3>1, <3>2 DEF Single
  <2> QED
    BY <1>2, <1>3, <1>10, <1>12, <2>1, <2>3 DEF ToldOnce
<1>15. EachHisNumber'
  <2> SUFFICES ASSUME ~discarded'
               PROVE  /\ Numbered(live') /\ Filed(live', live'.coverage)
                      /\ Filed(live', open'.coverage)
                      /\ Numbered(Stored) /\ Filed(Stored, Stored.coverage)
    BY <1>3 DEF EachHisNumber
  <2>1. ~discarded /\ ~MintsInVain(live, u)
    BY <1>2
  <2>2. /\ Numbered(live) /\ Filed(live, live.coverage)
        /\ Numbered(Stored) /\ Filed(Stored, Stored.coverage)
    BY <2>1 DEF IInv, EachHisNumber
  <2>3. Numbered(m) /\ Filed(m, live.coverage)
    BY <1>4, <2>1, <2>2
  <2>4. Filed(m, c)
    BY <1>5, <1>7, <1>8, <2>3, FiledKept
  <2> QED
    BY <1>10, <1>12, <2>2, <2>3, <2>4 DEF Numbered, Filed
<1> QED
  BY <1>1, <1>2, <1>3, <1>10, <1>11, <1>13, <1>14, <1>15 DEF IInv, t

\* So does one that is refused: that happens only after somebody was counted in
\* vain.
LEMMA RefusedKeeps ==
    ASSUME IInv, NEW u \in Utterances, TurnRefused(u)
    PROVE  IInv'
<1> DEFINE t == seq + 1
           a == Advised(live, t)
           h == Heard(a, u)
           minted == SpeakerDecision(live, u).minted
           n == [h EXCEPT !.minted = minted]
<1>1. /\ seq \in Nat /\ t \in Nat /\ open = NoTurn /\ Sound(live, t)
      /\ TypeOK /\ Sound(Stored, seq) /\ ToldOnce /\ EachHisNumber
      /\ Stored.buffer = EmptyBuffer /\ Stored.normalTurn = 0
  BY DEF IInv, TypeOK, TurnRefused
<1>2. /\ ~u.priority /\ Refused(live, u) /\ live' = n /\ UsesInsight(u, t)
      /\ UNCHANGED <<saved, seq, open, analyses, discarded>>
  BY DEF TurnRefused
<1>3. Stored' = Stored
  BY <1>2 DEF Stored
<1> HIDE DEF t
<1>4. Sound(a, t) /\ SamePeople(a, live) /\ a.buffer = ConsumeFor(live.buffer, t)
  BY <1>1, AdvisedIs
<1> HIDE DEF a
<1>5. Sound(h, t) /\ SamePeople(h, a) /\ h.buffer = a.buffer
  BY <1>1, <1>4, HeardIs
<1>6. live \in Memories /\ h \in Memories
  BY <1>1, <1>5 DEF Sound
<1>7. minted \in Nat
  BY <1>2, <1>6, DecisionIs DEF Refused
<1> HIDE DEF h, minted
<1>8. /\ n \in Memories /\ n.intel = h.intel /\ n.pictures = h.pictures
      /\ n.business = h.business /\ n.coverage = h.coverage
      /\ n.buffer = h.buffer /\ n.normalTurn = h.normalTurn
  BY <1>6, <1>7 DEF Memories
<1> HIDE DEF n
<1>9. Sound(n, t)
  BY <1>1, <1>5, <1>8, SettledLast, SoundUpdated
<1>10. /\ live'.coverage = live.coverage /\ live'.normalTurn = live.normalTurn
       /\ live'.buffer = ConsumeFor(live.buffer, t)
  BY <1>2, <1>4, <1>5, <1>8 DEF SamePeople
<1>11. used' \in Seq(Nat) /\ AdviceInOrder'
  BY <1>2, <1>10, UsedIs DEF t
<1>12. TypeOK'
  BY <1>1, <1>2, <1>11 DEF TypeOK
<1>13. ToldOnce'
  BY <1>1, <1>2, <1>3, <1>10 DEF ToldOnce
<1>14. discarded
  BY <1>1, <1>2, <1>6, NothingRefused DEF EachHisNumber
<1>15. EachHisNumber'
  BY <1>2, <1>14 DEF EachHisNumber
<1> QED
  BY <1>1, <1>2, <1>3, <1>9, <1>11, <1>12, <1>13, <1>15 DEF IInv, t

\* And one that overflows the coverage.
LEMMA OverflowKeeps ==
    ASSUME IInv, NEW u \in Utterances, TurnOverflows(u)
    PROVE  IInv'
<1> DEFINE t == seq + 1
           m == Listened(live, u, t)
<1>1. /\ seq \in Nat /\ t \in Nat /\ open = NoTurn /\ Sound(live, t)
      /\ TypeOK /\ Sound(Stored, seq) /\ ToldOnce /\ EachHisNumber
      /\ Stored.buffer = EmptyBuffer /\ Stored.normalTurn = 0
      /\ discarded \in BOOLEAN
  BY DEF IInv, TypeOK, TurnOverflows
<1>2. /\ live' = Completed(m, u, t) /\ UsesInsight(u, t)
      /\ discarded' = (discarded \/ MintsInVain(live, u))
      /\ UNCHANGED <<saved, seq, open, analyses>>
  BY DEF TurnOverflows
<1>3. Stored' = Stored
  BY <1>2 DEF Stored
<1> HIDE DEF t
<1>4. /\ Sound(m, t) /\ m.coverage = live.coverage /\ m.normalTurn = live.normalTurn
      /\ m.buffer = IF u.priority THEN live.buffer ELSE ConsumeFor(live.buffer, t)
      /\ Numbered(live) /\ Filed(live, live.coverage) /\ ~MintsInVain(live, u)
             => Numbered(m) /\ Filed(m, live.coverage)
  BY <1>1, ListenedIs
<1> HIDE DEF m
<1>5. /\ Sound(live', t) /\ live'.coverage = m.coverage
      /\ live'.active = m.active /\ live'.archived = m.archived
      /\ live'.minted = m.minted
      /\ live'.buffer = m.buffer /\ live'.normalTurn \in {live.normalTurn, t}
  BY <1>1, <1>2, <1>4, CompletedIs
<1>6. used' \in Seq(Nat) /\ AdviceInOrder'
  BY <1>2, <1>4, <1>5, UsedIs DEF t
<1>7. discarded' \in BOOLEAN
  BY <1>2
<1>8. TypeOK'
  BY <1>1, <1>2, <1>6, <1>7 DEF TypeOK
<1>9. ToldOnce'
  BY <1>1, <1>2, <1>3, <1>4, <1>5 DEF ToldOnce
<1>10. EachHisNumber'
  <2> SUFFICES ASSUME ~discarded'
               PROVE  /\ Numbered(live') /\ Filed(live', live'.coverage)
                      /\ Numbered(Stored) /\ Filed(Stored, Stored.coverage)
    BY <1>1, <1>2, <1>3 DEF EachHisNumber
  <2>1. ~discarded /\ ~MintsInVain(live, u)
    BY <1>2
  <2>2. /\ Numbered(live) /\ Filed(live, live.coverage)
        /\ Numbered(Stored) /\ Filed(Stored, Stored.coverage)
    BY <1>1, <2>1 DEF EachHisNumber
  <2>3. Numbered(m) /\ Filed(m, live.coverage)
    BY <1>4, <2>1, <2>2
  <2> QED
    BY <1>4, <1>5, <2>2, <2>3 DEF Numbered, Filed
<1> QED
  BY <1>1, <1>2, <1>3, <1>5, <1>6, <1>8, <1>9, <1>10 DEF IInv, t

\* A restart leaves a memory sound.
LEMMA ResetSound ==
    ASSUME NEW m, NEW t \in Nat, Sound(m, t)
    PROVE  Sound(Reset(m), t)
<1>1. m \in Memories
  BY DEF Sound
<1>2. /\ Reset(m) \in Memories /\ Reset(m).pictures = m.pictures
      /\ Reset(m).intel = m.intel /\ Reset(m).business = m.business
  BY <1>1, ResetIs
<1> QED
  BY <1>2, SettledLast, SoundUpdated

\* A commit stores what is in memory.
LEMMA CommitKeeps ==
    ASSUME IInv, Commit
    PROVE  IInv'
<1>1. /\ seq \in Nat /\ open # NoTurn /\ open.turn = seq + 1 /\ Sound(live, seq + 1)
      /\ TypeOK /\ ToldOnce /\ EachHisNumber /\ AdviceInOrder
  BY DEF IInv, TypeOK, Commit
<1>2. /\ saved' = Export(live) /\ seq' = seq + 1 /\ open' = NoTurn
      /\ UNCHANGED <<live, analyses, used, discarded>>
  BY <1>1 DEF Commit
<1>3. live \in Memories
  BY <1>1 DEF Sound
<1>4. Stored' = Reset(live)
  BY <1>2, <1>3, RestartIs DEF Stored
<1>5. /\ Reset(live).active = live.active /\ Reset(live).archived = live.archived
      /\ Reset(live).coverage = live.coverage
      /\ Reset(live).buffer = EmptyBuffer /\ Reset(live).normalTurn = 0
      /\ Reset(live).minted = LastReference(live.archived, live.active)
  BY <1>3, ResetIs
<1>6. Sound(Stored', seq') /\ Sound(live', seq' + 1)
  <2>1. seq + 1 \in Nat /\ (seq + 1) + 1 \in Nat /\ seq + 1 <= (seq + 1) + 1
    BY <1>1
  <2>2. Sound(Reset(live), seq + 1)
    BY <1>1, <2>1, ResetSound
  <2>3. Sound(live, (seq + 1) + 1)
    BY <1>1, <2>1, SoundLater
  <2> QED
    BY <1>2, <1>4, <2>2, <2>3
<1>7. TypeOK'
  <2>1. NoTurn \in [turn : Nat, coverage : SUBSET CoverageEntries(Concepts)]
    BY DEF NoTurn
  <2> QED
    BY <1>1, <1>2, <2>1 DEF TypeOK
<1>8. ToldOnce'
  <2>1. Single(live.coverage, seq + 1)
    BY <1>1 DEF ToldOnce
  <2> QED
    BY <1>2, <1>4, <1>5, <2>1 DEF ToldOnce
<1>9. EachHisNumber'
  <2> SUFFICES ASSUME ~discarded
               PROVE  /\ Numbered(live) /\ Filed(live, live.coverage)
                      /\ Numbered(Reset(live)) /\ Filed(Reset(live), Reset(live).coverage)
    BY <1>2, <1>4 DEF EachHisNumber
  <2>1. Numbered(live) /\ Filed(live, live.coverage)
    BY <1>1 DEF EachHisNumber
  <2>2. Reset(live).minted = live.minted
    <3>1. CASE live.active = NoOne
      <4>1. Len(<<>>) = 0
        OBVIOUS
      <4> QED
        BY <1>5, <2>1, <3>1, <4>1 DEF Numbered, LastReference
    <3>2. CASE live.active # NoOne
      BY <1>5, <2>1, <3>2 DEF Numbered, LastReference
    <3> QED
      BY <3>1, <3>2
  <2> QED
    BY <1>5, <2>1, <2>2 DEF Numbered, Filed
<1>10. AdviceInOrder'
  <2>1. \A t : Behind(t)' <=> Behind(t)
    BY <1>2 DEF Behind
  <2>2. Behind((seq + 1) + 1)
    <3>1. \A i \in DOMAIN used : used[i] \in Nat
      BY <1>1 DEF TypeOK
    <3> QED
      BY <1>1, <3>1 DEF AdviceInOrder, Behind
  <2> QED
    BY <1>1, <1>2, <2>1, <2>2 DEF AdviceInOrder
<1> QED
  BY <1>4, <1>5, <1>6, <1>7, <1>8, <1>9, <1>10 DEF IInv

\* A failed commit puts back the coverage.
LEMMA FailureKeeps ==
    ASSUME IInv, CommitFails
    PROVE  IInv'
<1> DEFINE c == open.coverage
           n == [live EXCEPT !.coverage = c]
<1>1. /\ seq \in Nat /\ open # NoTurn /\ Sound(live, seq + 1) /\ Sound(Stored, seq)
      /\ TypeOK /\ ToldOnce /\ EachHisNumber /\ AdviceInOrder
      /\ Stored.buffer = EmptyBuffer /\ Stored.normalTurn = 0
      /\ c \in SUBSET CoverageEntries(Concepts)
  BY DEF IInv, TypeOK, CommitFails
<1>2. /\ live' = n /\ open' = NoTurn
      /\ UNCHANGED <<saved, seq, analyses, used, discarded>>
  BY DEF CommitFails, AfterFailure
<1>3. Stored' = Stored
  BY <1>2 DEF Stored
<1> HIDE DEF c
<1>4. /\ Sound(n, seq + 1) /\ n.coverage = c
      /\ n.active = live.active /\ n.archived = live.archived /\ n.minted = live.minted
      /\ n.buffer = live.buffer /\ n.normalTurn = live.normalTurn
  BY <1>1, CoveredIs
<1> HIDE DEF n
<1>5. TypeOK'
  <2>1. NoTurn \in [turn : Nat, coverage : SUBSET CoverageEntries(Concepts)]
    BY DEF NoTurn
  <2> QED
    BY <1>1, <1>2, <2>1 DEF TypeOK
<1>6. ToldOnce'
  BY <1>1, <1>2, <1>3, <1>4 DEF ToldOnce, c
<1>7. EachHisNumber'
  BY <1>1, <1>2, <1>3, <1>4 DEF EachHisNumber, Numbered, Filed, c
<1>8. AdviceInOrder'
  BY <1>1, <1>2, <1>4 DEF AdviceInOrder, Behind
<1> QED
  BY <1>1, <1>2, <1>3, <1>4, <1>5, <1>6, <1>7, <1>8 DEF IInv

\* A restart gives back what is stored.
LEMMA RestartKeeps ==
    ASSUME IInv, Restart
    PROVE  IInv'
<1>1. /\ seq \in Nat /\ Sound(Stored, seq) /\ TypeOK /\ ToldOnce /\ EachHisNumber
      /\ AdviceInOrder /\ Stored.buffer = EmptyBuffer /\ Stored.normalTurn = 0
  BY DEF IInv, TypeOK
<1>2. /\ live' = Stored /\ open' = NoTurn /\ analyses' = {}
      /\ UNCHANGED <<saved, seq, used, discarded>>
  BY DEF Restart, Stored
<1>3. Stored' = Stored
  BY <1>2 DEF Stored
<1>4. Sound(Stored, seq + 1)
  BY <1>1, SoundLater
<1> HIDE DEF Stored
<1>5. TypeOK'
  <2>1. NoTurn \in [turn : Nat, coverage : SUBSET CoverageEntries(Concepts)]
    BY DEF NoTurn
  <2> QED
    BY <1>1, <1>2, <2>1 DEF TypeOK
<1>6. ToldOnce'
  BY <1>1, <1>2, <1>3 DEF ToldOnce
<1>7. EachHisNumber'
  BY <1>1, <1>2, <1>3 DEF EachHisNumber
<1>8. AdviceInOrder'
  <2>1. live'.buffer.latest = NoInsight /\ live'.normalTurn = 0
    BY <1>1, <1>2 DEF EmptyBuffer
  <2> QED
    BY <1>1, <1>2, <2>1 DEF AdviceInOrder, Behind
<1> QED
  BY <1>1, <1>2, <1>3, <1>4, <1>5, <1>6, <1>7, <1>8 DEF IInv

\* An analysis is begun of the latest normal turn.
LEMMA BeginKeeps ==
    ASSUME IInv, BeginAnalysis
    PROVE  IInv'
<1>1. /\ Sound(live, seq + 1) /\ Sound(Stored, seq) /\ TypeOK /\ ToldOnce
      /\ EachHisNumber /\ AdviceInOrder
      /\ Stored.buffer = EmptyBuffer /\ Stored.normalTurn = 0
  BY DEF IInv
<1>2. /\ live.normalTurn # 0 /\ analyses' = analyses \cup {live.normalTurn}
      /\ UNCHANGED <<live, saved, seq, open, used, discarded>>
  BY DEF BeginAnalysis
<1>3. Stored' = Stored
  BY <1>2 DEF Stored
<1>4. live.normalTurn \in Nat
  BY <1>1, MemoryIs DEF Sound
<1>5. TypeOK'
  BY <1>1, <1>2, <1>4 DEF TypeOK
<1>6. ToldOnce' /\ EachHisNumber'
  BY <1>1, <1>2, <1>3 DEF ToldOnce, EachHisNumber
<1>7. AdviceInOrder'
  <2>1. \A t : Behind(t)' <=> Behind(t)
    BY <1>2 DEF Behind
  <2> QED
    BY <1>1, <1>2, <2>1 DEF AdviceInOrder
<1> QED
  BY <1>1, <1>2, <1>3, <1>5, <1>6, <1>7 DEF IInv

\* An answer arrives.
LEMMA RecordKeeps ==
    ASSUME IInv, NEW turn \in 1..MaxTurns, NEW slots \in Analyses,
           RecordAnalysis(turn, slots)
    PROVE  IInv'
<1> DEFINE insight == [turn |-> turn, infers |-> slots, hints |-> TRUE]
           b == live.buffer
           after == RecordInsight(b, insight, TRUE)
           n == [live EXCEPT !.buffer = after]
<1>1. /\ seq \in Nat /\ Sound(live, seq + 1) /\ Sound(Stored, seq) /\ TypeOK /\ ToldOnce
      /\ EachHisNumber /\ AdviceInOrder
      /\ Stored.buffer = EmptyBuffer /\ Stored.normalTurn = 0
  BY DEF IInv, TypeOK
<1>2. /\ turn \in analyses /\ live' = n
      /\ UNCHANGED <<saved, seq, open, analyses, used, discarded>>
  BY DEF RecordAnalysis
<1>3. Stored' = Stored
  BY <1>2 DEF Stored
<1>4. live \in Memories /\ b \in Buffers(InferredSlots) /\ turn \in Nat /\ turn # 0
  BY <1>1, MemoryIs, BoundAssumption DEF Sound
<1>5. insight \in Insights(InferredSlots) /\ insight.turn = turn /\ insight # NoInsight
  BY <1>4, AnalysisAssumption DEF Insights, NoInsight
<1>6. b.latest \in Insights(InferredSlots) /\ b.consumed \in Nat /\ b.latest.turn \in Nat
  BY <1>4 DEF Buffers, Insights
<1> HIDE DEF insight
<1>7. \/ after = b
      \/ after = [latest |-> insight, consumed |-> 0]
             /\ (b.latest = NoInsight \/ turn > b.latest.turn)
  BY <1>5 DEF RecordInsight, RecordOutcome
<1> HIDE DEF b, after
<1>8. after \in Buffers(InferredSlots)
  BY <1>4, <1>5, <1>7 DEF Buffers
<1>9. /\ n \in Memories /\ n.intel = live.intel /\ n.pictures = live.pictures
      /\ n.business = live.business /\ n.coverage = live.coverage
      /\ n.active = live.active /\ n.archived = live.archived
      /\ n.minted = live.minted /\ n.buffer = after
      /\ n.normalTurn = live.normalTurn
  BY <1>4, <1>8 DEF Memories
<1> HIDE DEF n
<1>10. Sound(n, seq + 1)
  BY <1>1, <1>9, SettledLast, SoundUpdated
<1>11. TypeOK'
  BY <1>1, <1>2 DEF TypeOK
<1>12. ToldOnce'
  BY <1>1, <1>2, <1>3, <1>9 DEF ToldOnce
<1>13. EachHisNumber'
  BY <1>1, <1>2, <1>3, <1>9 DEF EachHisNumber, Numbered, Filed
<1>14. AdviceInOrder'
  <2>1. \A t : Behind(t)' <=> Behind(t)
    BY <1>2 DEF Behind
  <2>2. CASE after = b
    BY <1>1, <1>2, <1>9, <2>1, <2>2 DEF AdviceInOrder, b
  <2>3. CASE after = [latest |-> insight, consumed |-> 0]
                 /\ (b.latest = NoInsight \/ turn > b.latest.turn)
    <3>1. after.latest = insight /\ after.latest.turn = turn
      BY <1>5, <2>3
    <3>2. \A i \in DOMAIN used : used[i] \in Nat
      BY <1>1 DEF TypeOK
    <3>3. Behind(turn)
      <4>1. CASE b.latest = NoInsight
        BY <1>1, <1>2, <4>1 DEF AdviceInOrder, b
      <4>2. CASE b.latest # NoInsight
        <5>1. Behind(b.latest.turn + 1) /\ turn > b.latest.turn
          BY <1>1, <2>3, <4>2 DEF AdviceInOrder, b
        <5> QED
          BY <1>4, <1>6, <3>2, <5>1 DEF Behind
      <4> QED
        BY <4>1, <4>2
    <3>4. Behind(turn + 1)
      BY <1>4, <3>2, <3>3 DEF Behind
    <3> QED
      BY <1>1, <1>2, <1>5, <1>9, <2>1, <3>1, <3>3, <3>4 DEF AdviceInOrder
  <2> QED
    BY <1>7, <2>2, <2>3
<1> QED
  BY <1>1, <1>2, <1>3, <1>9, <1>10, <1>11, <1>12, <1>13, <1>14 DEF IInv

\* Every step keeps the invariant.
LEMMA NextKeeps ==
    IInv /\ [Next]_vars => IInv'
<1> SUFFICES ASSUME IInv, [Next]_vars
             PROVE  IInv'
  OBVIOUS
<1>1. ASSUME NEW u \in Utterances, Turn(u)
      PROVE  IInv'
  BY <1>1, TurnKeeps
<1>2. ASSUME NEW u \in Utterances, TurnRefused(u)
      PROVE  IInv'
  BY <1>2, RefusedKeeps
<1>3. ASSUME NEW u \in Utterances, TurnOverflows(u)
      PROVE  IInv'
  BY <1>3, OverflowKeeps
<1>4. CASE Commit
  BY <1>4, CommitKeeps
<1>5. CASE CommitFails
  BY <1>5, FailureKeeps
<1>6. CASE Restart
  BY <1>6, RestartKeeps
<1>7. CASE BeginAnalysis
  BY <1>7, BeginKeeps
<1>8. ASSUME NEW turn \in 1..MaxTurns, NEW slots \in Analyses,
             RecordAnalysis(turn, slots)
      PROVE  IInv'
  BY <1>8, RecordKeeps
<1>9. CASE UNCHANGED vars
  BY <1>9 DEF vars, IInv, TypeOK, Stored, ToldOnce, EachHisNumber, AdviceInOrder, Behind
<1> QED
  BY <1>1, <1>2, <1>3, <1>4, <1>5, <1>6, <1>7, <1>8, <1>9 DEF Next

\* The invariant holds in every state of a call.
THEOREM CallInvariant == Spec => []IInv
BY InitIInv, NextKeeps, PTL DEF Spec

-----------------------------------------------------------------------------
(* The properties.                                                          *)

\* Advice is used in the order of the turns it is about and at most once,
\* however late and however often the answers arrive
\* (SupervisorStrategyBuffer.record and consume_for).
THEOREM InsightsCorrect == Spec => []InsightsInOrder
<1>1. IInv => InsightsInOrder
  BY DEF IInv, AdviceInOrder, InsightsInOrder
<1> QED
  BY <1>1, CallInvariant, PTL

\* A turn explains one concept once, also when its commit failed and it is tried
\* again (the coverage that runtime/sales_runtime.py puts back).
THEOREM ExplanationsCorrect == Spec => []OneExplanationPerTurn
<1>1. IInv => OneExplanationPerTurn
  BY DEF IInv, ToldOnce, Single, OneExplanationPerTurn
<1> QED
  BY <1>1, CallInvariant, PTL

\* Two people never share a reference, no handoff is refused, and what is filed
\* of those who left is what they heard (conversation/participant), across
\* failed commits and restarts.
THEOREM ReferencesCorrect == Spec => []NoOneTwice
<1>1. IInv => NoOneTwice
  <2> SUFFICES ASSUME IInv, ~discarded
               PROVE  NoOneTwice
    BY DEF NoOneTwice
  <2> DEFINE a == live.archived
             ids == [i \in DOMAIN a |-> a[i].who.id]
             last == live.active.id
             Refs == Append(ids, last)
  <2>1. live \in Memories
    BY DEF IInv, Sound
  <2>2. Numbered(live) /\ Filed(live, live.coverage)
    BY DEF IInv, EachHisNumber
  <2>3. \A u \in Utterances : ~Refused(live, u)
    BY <2>1, <2>2, NothingRefused
  <2>4. /\ Len(a) \in Nat /\ DOMAIN a = 1..Len(a) /\ last \in Nat
    BY <2>1, MemoryIs DEF References
  <2>5. \A i \in DOMAIN a : a[i].who.id = i
    BY <2>2 DEF Numbered
  <2>6. last = Len(a) + 1 \/ (last = 0 /\ a = <<>>)
    BY <2>2 DEF Numbered, NoOne
  <2> DEFINE k == Len(a)
  <2>7. ids \in [1..k -> Nat] /\ \A i \in 1..k : ids[i] = i
    BY <2>4, <2>5
  <2> HIDE DEF ids, last, a
  <2>8. ids \in Seq(Nat) /\ Len(ids) = k
    BY <2>4, <2>7
  <2>9. /\ DOMAIN Refs = 1..(k + 1) /\ Refs[k + 1] = last
        /\ \A i \in 1..k : Refs[i] = i
    BY <2>4, <2>7, <2>8
  <2>10. a = <<>> => k = 0
    OBVIOUS
  <2> HIDE DEF k, Refs
  <2>11. \A i \in DOMAIN Refs : i \in 1..k \/ i = k + 1
    BY <2>4, <2>9 DEF k
  <2>12. k \in Nat /\ (last = k + 1 \/ last = 0)
    BY <2>4, <2>6 DEF k
  <2>13. \A i, j \in DOMAIN Refs : Refs[i] = Refs[j] /\ Refs[i] # 0 => i = j
    BY <2>9, <2>11, <2>12
  <2> QED
    BY <2>2, <2>3, <2>13 DEF NoOneTwice, Filed, Refs, ids, last, a
<1> QED
  BY <1>1, CallInvariant, PTL

\* A restart gives back all that the call knows except what is not written, and
\* a memory that the next turn can work with (the export and the restore of
\* each part in production_turn_processor.py).
THEOREM RestartCorrect == Spec => []RestartForgetsNothing
<1>1. IInv => RestartForgetsNothing
  <2> SUFFICES ASSUME IInv
               PROVE  RestartForgetsNothing
    OBVIOUS
  <2>1. live \in Memories
    BY DEF IInv, Sound
  <2> DEFINE back == Recalled(Export(live))
             language == LanguagePayload(live.language)
             Same(m) == [m EXCEPT !.minted = 0, !.decision = "unknown",
                                  !.buffer = EmptyBuffer, !.normalTurn = 0,
                                  !.language = LanguagePayload(@)]
  <2>2. back = Reset(live) /\ Reset(live) \in Memories
    BY <2>1, RestartIs, ResetIs
  <2>3. LanguagePayload(language) = language
    BY DEF LanguagePayload
  <2>4. Reset(live).language = language
    BY <2>1 DEF Reset, Memories
  <2>5. Same(Reset(live)) =
            [Reset(live) EXCEPT !.minted = 0, !.decision = "unknown",
                                !.buffer = EmptyBuffer, !.normalTurn = 0,
                                !.language = language]
    BY <2>3, <2>4
  <2>6. Same(live) = [live EXCEPT !.minted = 0, !.decision = "unknown",
                                  !.buffer = EmptyBuffer, !.normalTurn = 0,
                                  !.language = language]
    OBVIOUS
  <2> DEFINE last == LastReference(live.archived, live.active)
  <2>7. Reset(live) = [live EXCEPT !.minted = last, !.decision = "unknown",
                                   !.buffer = EmptyBuffer, !.normalTurn = 0,
                                   !.language = language]
    BY DEF Reset
  <2> DEFINE r == Reset(live)
             R == [active |-> live.active, archived |-> live.archived,
                   pictures |-> live.pictures, intel |-> live.intel,
                   language |-> language, coverage |-> live.coverage, minted |-> 0,
                   decision |-> "unknown", business |-> live.business,
                   qual |-> live.qual, buffer |-> EmptyBuffer, normalTurn |-> 0]
  <2> HIDE DEF back, language, last, Same, r
  <2>8. Same(live) = R
    BY <2>1, <2>6 DEF Memories
  <2>9. /\ r \in Memories /\ r.active = live.active /\ r.archived = live.archived
        /\ r.pictures = live.pictures /\ r.intel = live.intel
        /\ r.coverage = live.coverage /\ r.business = live.business
        /\ r.qual = live.qual
    BY <2>1, <2>2, <2>7 DEF Memories, r
  <2>10. Same(r) = [r EXCEPT !.minted = 0, !.decision = "unknown",
                             !.buffer = EmptyBuffer, !.normalTurn = 0,
                             !.language = language]
    BY <2>5 DEF r
  <2>11. Same(r) = R
    BY <2>9, <2>10 DEF Memories
  <2>12. Same(Reset(live)) = Same(live)
    BY <2>8, <2>11 DEF r
  <2> QED
    BY <2>2, <2>12 DEF RestartForgetsNothing, back, Same
<1> QED
  BY <1>1, CallInvariant, PTL

\* What the call believes are the words of those it ascribes them to: nobody is
\* credited with what an earlier speaker said, no guess stands over what was
\* said, and the last statement about the business stands.
THEOREM WordsCorrect == Spec => []OwnWords
<1>1. IInv => OwnWords
  <2> SUFFICES ASSUME IInv
               PROVE  OwnWords
    OBVIOUS
  <2>1. Words(Portraits, seq + 1)
    BY DEF IInv, Sound, Views, Portraits
  <2>2. FactsStand(live.business.facts, live.business.archivedFacts, seq + 1)
    BY DEF IInv, Sound
  <2>3. WordsInOrder
    BY <2>1 DEF Words, WordsInOrder
  <2>4. StatedOverInferred
    BY <2>1 DEF Words, Settled, StatedOverInferred
  <2>5. LatestFactStands
    BY <2>2 DEF FactsStand, Unique, LatestFactStands
  <2> QED
    BY <2>3, <2>4, <2>5 DEF OwnWords
<1> QED
  BY <1>1, CallInvariant, PTL
=============================================================================
