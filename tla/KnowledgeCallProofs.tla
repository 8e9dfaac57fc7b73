------------------------ MODULE KnowledgeCallProofs ------------------------
(* What is proved of KnowledgeCall for every library, index, policy and       *)
(* situation.  The first part is about sequences in general: what is folded,  *)
(* flattened, picked and sorted; then retrieval, validation and teaching, the *)
(* inductive invariant of the registry, the index and the answers; last what  *)
(* becomes of the text of an upload.                                          *)
EXTENDS KnowledgeCall, SequenceTheorems, FiniteSetTheorems, TLAPS

-----------------------------------------------------------------------------
(* Recursion: what is defined step by step is defined.                      *)

\* What holds of 0 and of the successor of each number it holds of holds of all.
LEMMA Counting ==
    ASSUME NEW S, 0 \in S, \A n \in Nat : n \in S => n + 1 \in S
    PROVE  \A n \in Nat : n \in S
<1> SUFFICES ASSUME NEW k \in Nat, k \notin S
             PROVE  FALSE
  OBVIOUS
<1> DEFINE T == Nat \ S
<1>1. PICK n \in T : \A m \in T : ~(<<m, n>> \in OpToRel(<, Nat))
  BY NatLessThanWellFounded, WFMin
<1>2. \A m \in T : ~(m < n)
  BY <1>1 DEF OpToRel
<1>3. n # 0 /\ n - 1 \in Nat
  OBVIOUS
<1>4. n - 1 \in S
  BY <1>2, <1>3
<1> QED
  BY <1>3, <1>4

\* A sequence of n steps, each of which has its number.
Stepwise(n, base, step, g) ==
    /\ g[0] = base
    /\ \A k \in 1..n : g[k] = step[k][g[k - 1]]

\* Steps typed for their numbers can be taken one after the other.
LEMMA Recursion ==
    ASSUME NEW X, NEW base \in X, NEW n \in Nat, NEW step \in [1..n -> [X -> X]]
    PROVE  \E g \in [0..n -> X] : Stepwise(n, base, step, g)
<1> DEFINE S == {k \in Nat : k <= n =>
                    \E g \in [0..k -> X] : Stepwise(k, base, step, g)}
<1>1. 0 \in S
  <2> DEFINE g == [i \in 0..0 |-> base]
  <2>1. g \in [0..0 -> X] /\ Stepwise(0, base, step, g)
    BY DEF Stepwise
  <2> QED
    BY <2>1
<1>2. ASSUME NEW k \in Nat, k \in S
      PROVE  k + 1 \in S
  <2> SUFFICES ASSUME k + 1 <= n
               PROVE  \E g \in [0..(k + 1) -> X] : Stepwise(k + 1, base, step, g)
    OBVIOUS
  <2>1. PICK f \in [0..k -> X] : Stepwise(k, base, step, f)
    BY <1>2
  <2> DEFINE g == [i \in 0..(k + 1) |-> IF i = k + 1 THEN step[k + 1][f[k]] ELSE f[i]]
  <2>2. step[k + 1] \in [X -> X] /\ f[k] \in X
    OBVIOUS
  <2>3. g \in [0..(k + 1) -> X]
    BY <2>2
  <2>4. /\ \A i \in 0..k : g[i] = f[i]
        /\ g[k + 1] = step[k + 1][f[k]]
    OBVIOUS
  <2> HIDE DEF g
  <2>5. ASSUME NEW i \in 1..(k + 1)
        PROVE  g[i] = step[i][g[i - 1]]
    <3>1. CASE i = k + 1
      BY <3>1, <2>4
    <3>2. CASE i # k + 1
      <4>1. i \in 1..k /\ i \in 0..k /\ i - 1 \in 0..k
        BY <3>2
      <4> QED
        BY <4>1, <2>1, <2>4 DEF Stepwise
    <3> QED
      BY <3>1, <3>2
  <2>6. g[0] = base
    BY <2>1, <2>4 DEF Stepwise
  <2> QED
    BY <2>3, <2>5, <2>6 DEF Stepwise
<1> HIDE DEF S
<1>3. n \in S
  BY <1>1, <1>2, Counting
<1> QED
  BY <1>3 DEF S

\* The greatest number of 1..n.
LEMMA MaxOfPrefix ==
    ASSUME NEW n \in Nat, NEW T \in SUBSET (1..n), n \in T
    PROVE  Max(T) = n
<1>1. n >= n /\ \A y \in T : n >= y
  OBVIOUS
<1>2. \A x \in T : (\A y \in T : x >= y) => x = n
  OBVIOUS
<1> QED
  BY <1>1, <1>2 DEF Max

\* The fold over a set of places: the greatest place is the last step.
Folded(n, base, step, f) ==
    \A T \in SUBSET (1..n) :
        f[T] = IF T = {} THEN base ELSE step[Max(T)][f[T \ {Max(T)}]]

\* There is such a fold.
Foldable(n, X, base, step) ==
    \E f \in [SUBSET (1..n) -> X] : Folded(n, base, step, f)

\* Typed steps can be folded over every set of places.
LEMMA Folding ==
    ASSUME NEW X, NEW base \in X, NEW n \in Nat, NEW step \in [1..n -> [X -> X]]
    PROVE  Foldable(n, X, base, step)
<1> DEFINE S == {k \in Nat : k <= n => Foldable(k, X, base, step)}
<1>1. 0 \in S
  <2> DEFINE f == [T \in SUBSET (1..0) |-> base]
  <2>1. \A T \in SUBSET (1..0) : T = {}
    OBVIOUS
  <2>2. f \in [SUBSET (1..0) -> X] /\ Folded(0, base, step, f)
    BY <2>1 DEF Folded
  <2> QED
    BY <2>2 DEF Foldable
<1>2. ASSUME NEW k \in Nat, k \in S
      PROVE  k + 1 \in S
  <2> SUFFICES ASSUME k + 1 <= n
               PROVE  Foldable(k + 1, X, base, step)
    OBVIOUS
  <2>a. Foldable(k, X, base, step)
    BY <1>2
  <2>1. PICK g \in [SUBSET (1..k) -> X] : Folded(k, base, step, g)
    BY <2>a, Zenon DEF Foldable
  <2> DEFINE f == [T \in SUBSET (1..(k + 1)) |->
                     IF k + 1 \in T THEN step[k + 1][g[T \ {k + 1}]] ELSE g[T]]
  <2>2. \A T \in SUBSET (1..(k + 1)) : T \ {k + 1} \in SUBSET (1..k)
    OBVIOUS
  <2>3. \A T \in SUBSET (1..(k + 1)) : k + 1 \notin T => T \in SUBSET (1..k)
    OBVIOUS
  <2>4. step[k + 1] \in [X -> X]
    OBVIOUS
  <2>5. f \in [SUBSET (1..(k + 1)) -> X]
    BY <2>2, <2>3, <2>4
  <2>6. \A T \in SUBSET (1..(k + 1)) :
            f[T] = IF k + 1 \in T THEN step[k + 1][g[T \ {k + 1}]] ELSE g[T]
    OBVIOUS
  <2> HIDE DEF f
  <2>7. \A T \in SUBSET (1..k) : T \in SUBSET (1..(k + 1)) /\ k + 1 \notin T
    OBVIOUS
  <2>8. \A T \in SUBSET (1..k) : f[T] = g[T]
    BY <2>6, <2>7
  <2>9. ASSUME NEW T \in SUBSET (1..(k + 1))
        PROVE  f[T] = IF T = {} THEN base ELSE step[Max(T)][f[T \ {Max(T)}]]
    <3>1. CASE k + 1 \in T
      <4>1. Max(T) = k + 1
        BY <3>1, MaxOfPrefix
      <4>2. f[T \ {k + 1}] = g[T \ {k + 1}]
        BY <2>2, <2>8
      <4> QED
        BY <3>1, <4>1, <4>2, <2>6
    <3>2. CASE k + 1 \notin T
      <4>1. T \in SUBSET (1..k) /\ T \ {Max(T)} \in SUBSET (1..k)
        BY <3>2, <2>3
      <4>2. g[T] = IF T = {} THEN base ELSE step[Max(T)][g[T \ {Max(T)}]]
        BY <4>1, <2>1 DEF Folded
      <4> QED
        BY <4>1, <4>2, <2>8
    <3> QED
      BY <3>1, <3>2
  <2>10. Folded(k + 1, base, step, f)
    BY <2>9 DEF Folded
  <2> QED
    BY <2>5, <2>10 DEF Foldable
<1> HIDE DEF S
<1>3. n \in S
  BY <1>1, <1>2, Counting
<1> QED
  BY <1>3 DEF S

\* A set of places has a greatest one.
LEMMA MaxIsIn ==
    ASSUME NEW n \in Nat, NEW T \in SUBSET (1..n), T # {}
    PROVE  Max(T) \in T
<1> DEFINE S == {k \in Nat : \A U \in SUBSET (1..k) :
                    U # {} => \E m \in U : \A y \in U : m >= y}
<1>1. 0 \in S
  <2>1. \A U \in SUBSET (1..0) : U = {}
    OBVIOUS
  <2> QED
    BY <2>1
<1>2. ASSUME NEW k \in Nat, k \in S
      PROVE  k + 1 \in S
  <2> SUFFICES ASSUME NEW U \in SUBSET (1..(k + 1)), U # {}
               PROVE  \E m \in U : \A y \in U : m >= y
    OBVIOUS
  <2>1. CASE k + 1 \in U
    BY <2>1
  <2>2. CASE k + 1 \notin U
    <3>1. U \in SUBSET (1..k)
      BY <2>2
    <3> QED
      BY <3>1, <1>2
  <2> QED
    BY <2>1, <2>2
<1>3. n \in S
  <2> HIDE DEF S
  <2> QED
    BY <1>1, <1>2, Counting
<1>4. PICK m \in T : \A y \in T : m >= y
  BY <1>3
<1> QED
  BY <1>4 DEF Max

\* What the steps keep, each at its place, holds at every place.
LEMMA StepInduction ==
    ASSUME NEW n \in Nat, NEW base, NEW step, NEW g, Stepwise(n, base, step, g),
           NEW I, base \in I[0],
           \A k \in 1..n : \A x \in I[k - 1] : step[k][x] \in I[k]
    PROVE  \A k \in 0..n : g[k] \in I[k]
<1> DEFINE S == {k \in Nat : k <= n => g[k] \in I[k]}
<1>1. 0 \in S
  BY DEF Stepwise
<1>2. ASSUME NEW k \in Nat, k \in S
      PROVE  k + 1 \in S
  <2> SUFFICES ASSUME k + 1 <= n
               PROVE  g[k + 1] \in I[k + 1]
    OBVIOUS
  <2>1. k + 1 \in 1..n /\ (k + 1) - 1 = k
    OBVIOUS
  <2>2. g[k] \in I[k]
    BY <1>2
  <2>3. g[k + 1] = step[k + 1][g[k]]
    BY <2>1 DEF Stepwise
  <2>4. step[k + 1][g[k]] \in I[k + 1]
    BY <2>1, <2>2
  <2> QED
    BY <2>3, <2>4
<1> HIDE DEF S
<1>3. \A k \in Nat : k \in S
  BY <1>1, <1>2, Counting
<1> QED
  BY <1>3 DEF S

\* The result of a sequence of steps.
Leads(n, X, base, step, r) ==
    \E g \in [0..n -> X] : Stepwise(n, base, step, g) /\ r = g[n]

\* What the steps keep holds of their result.
LEMMA LeadInduction ==
    ASSUME NEW n \in Nat, NEW X, NEW base, NEW step, NEW r, Leads(n, X, base, step, r),
           NEW I, base \in I[0],
           \A k \in 1..n : \A x \in I[k - 1] : step[k][x] \in I[k]
    PROVE  r \in I[n]
<1>1. PICK g \in [0..n -> X] : Stepwise(n, base, step, g) /\ r = g[n]
  BY DEF Leads
<1> QED
  BY <1>1, StepInduction

\* A function that takes the steps as long as it is typed.
Follows(n, X, base, step, g) ==
    /\ g = [k \in 0..n |-> g[k]]
    /\ g[0] = base
    /\ \A k \in 1..n : g[k - 1] \in X => g[k] = step[k][g[k - 1]]

\* A function that takes the steps ends with their result.
LEMMA FollowLeads ==
    ASSUME NEW X, NEW base \in X, NEW n \in Nat, NEW step \in [1..n -> [X -> X]],
           NEW g, Follows(n, X, base, step, g)
    PROVE  Leads(n, X, base, step, g[n])
<1> DEFINE S == {k \in Nat : k <= n => g[k] \in X}
<1>1. 0 \in S
  BY DEF Follows
<1>2. ASSUME NEW k \in Nat, k \in S
      PROVE  k + 1 \in S
  <2> SUFFICES ASSUME k + 1 <= n
               PROVE  g[k + 1] \in X
    OBVIOUS
  <2>1. k + 1 \in 1..n /\ (k + 1) - 1 = k /\ g[k] \in X
    BY <1>2
  <2>2. g[k + 1] = step[k + 1][g[k]]
    BY <2>1 DEF Follows
  <2>3. step[k + 1] \in [X -> X]
    BY <2>1
  <2> QED
    BY <2>1, <2>2, <2>3
<1>3. \A k \in Nat : k \in S
  <2> HIDE DEF S
  <2> QED
    BY <1>1, <1>2, Counting
<1>4. \A k \in 0..n : g[k] \in X
  BY <1>3
<1>5. g = [k \in 0..n |-> g[k]]
  BY DEF Follows
<1>6. g \in [0..n -> X]
  BY <1>4, <1>5
<1>7. Stepwise(n, base, step, g)
  <2>1. \A k \in 1..n : k - 1 \in 0..n
    OBVIOUS
  <2> QED
    BY <1>4, <2>1 DEF Stepwise, Follows
<1> QED
  BY <1>6, <1>7 DEF Leads

\* A function on sets of places that takes the steps as long as it is typed.
Folds(n, X, base, step, f) ==
    /\ f[{}] = base
    /\ \A T \in SUBSET (1..n) :
          T # {} /\ f[T \ {Max(T)}] \in X => f[T] = step[Max(T)][f[T \ {Max(T)}]]

\* A fold over all places ends with the result of the steps.
LEMMA FoldLeads ==
    ASSUME NEW X, NEW base \in X, NEW n \in Nat, NEW step \in [1..n -> [X -> X]],
           NEW f, Folds(n, X, base, step, f)
    PROVE  Leads(n, X, base, step, f[1..n])
<1> DEFINE g == [k \in 0..n |-> f[1..k]]
<1>1. 1..0 = {} /\ g[0] = f[1..0]
  OBVIOUS
<1>2. g[0] = base
  BY <1>1 DEF Folds
<1>3. ASSUME NEW k \in 1..n, g[k - 1] \in X
      PROVE  g[k] = step[k][g[k - 1]]
  <2>1. Max(1..k) = k
    BY MaxOfPrefix
  <2>2. (1..k) \ {k} = 1..(k - 1) /\ 1..k # {} /\ (1..k) \in SUBSET (1..n)
    OBVIOUS
  <2>3. g[k] = f[1..k] /\ g[k - 1] = f[1..(k - 1)]
    OBVIOUS
  <2> HIDE DEF g
  <2>4. f[(1..k) \ {k}] \in X
    BY <1>3, <2>2, <2>3
  <2>5. f[1..k] = step[k][f[(1..k) \ {k}]]
    BY <2>1, <2>2, <2>4, Zenon DEF Folds
  <2> QED
    BY <2>2, <2>3, <2>5
<1>4. g[n] = f[1..n] /\ g = [k \in 0..n |-> g[k]]
  OBVIOUS
<1> HIDE DEF g
<1>5. Follows(n, X, base, step, g)
  BY <1>2, <1>3, <1>4 DEF Follows
<1> QED
  BY <1>4, <1>5, FollowLeads

-----------------------------------------------------------------------------
(* Only and Sorted: what they give is picked of what they are given.        *)

\* The step of Only at a place: the item is added or left out.
OnlyStep(s, places, S) ==
    [k \in 1..Len(s) |->
        [x \in Seq(S) |-> IF k \in places THEN Append(x, s[k]) ELSE x]]

\* Only is the result of its steps.
LEMMA OnlyLeads ==
    ASSUME NEW S, NEW s \in Seq(S), NEW places
    PROVE  Leads(Len(s), Seq(S), <<>>, OnlyStep(s, places, S), Only(s, places))
<1> DEFINE n == Len(s)
           X == Seq(S)
           step == OnlyStep(s, places, S)
           Kept(g) == g = [k \in 0..n |->
                             IF k = 0 THEN <<>>
                             ELSE IF k \in places THEN Append(g[k - 1], s[k])
                             ELSE g[k - 1]]
<1>1. n \in Nat /\ <<>> \in X
  OBVIOUS
<1>2. \A k \in 1..n : s[k] \in S
  OBVIOUS
<1>3. \A k \in 1..n : \A x \in X : Append(x, s[k]) \in X
  BY <1>2
<1>4. \A k \in 1..n : \A x \in X :
          step[k][x] = IF k \in places THEN Append(x, s[k]) ELSE x
  BY DEF OnlyStep
<1>5. step \in [1..n -> [X -> X]]
  BY <1>3 DEF OnlyStep
<1> HIDE DEF X, step
<1>6. \E g : Kept(g)
  <2>1. PICK g \in [0..n -> X] : Stepwise(n, <<>>, step, g)
    BY <1>1, <1>5, Recursion
  <2>2. \A k \in 1..n : k # 0 /\ g[k - 1] \in X /\ k \in 0..n
    OBVIOUS
  <2>3. \A k \in 0..n : k # 0 => k \in 1..n
    BY <1>1
  <2>4. \A k \in 0..n : g[k] = IF k = 0 THEN <<>>
                             ELSE IF k \in places THEN Append(g[k - 1], s[k])
                             ELSE g[k - 1]
    BY <2>1, <2>2, <2>3, <1>4 DEF Stepwise
  <2> QED
    BY <2>4
<1> DEFINE g == CHOOSE g : Kept(g)
<1>7. Kept(g)
  BY <1>6
<1>8. Only(s, places) = g[n]
  BY DEF Only
<1> HIDE DEF g
<1>9. Follows(n, X, <<>>, step, g)
  <2>1. \A k \in 1..n : k # 0 /\ k \in 0..n
    OBVIOUS
  <2>2. /\ g[0] = <<>>
        /\ \A k \in 1..n : g[k] = IF k \in places THEN Append(g[k - 1], s[k])
                                  ELSE g[k - 1]
    <3>1. \A k \in 0..n : g[k] = IF k = 0 THEN <<>>
                                ELSE IF k \in places THEN Append(g[k - 1], s[k])
                                ELSE g[k - 1]
      BY <1>7, Zenon
    <3> QED
      BY <2>1, <1>1, <3>1
  <2>3. g = [k \in 0..n |-> g[k]]
    BY <1>7
  <2> QED
    BY <2>2, <2>3, <1>4 DEF Follows
<1>10. Leads(n, X, <<>>, step, g[n])
  BY <1>1, <1>5, <1>9, FollowLeads
<1> QED
  BY <1>8, <1>10 DEF X, step

\* r has the items that s has at some places, each of the places once.
Picks(r, s, places) ==
    /\ \A k \in DOMAIN r : \E i \in places : r[k] = s[i]
    /\ \A i \in places : \E k \in DOMAIN r : r[k] = s[i]
    /\ \A j, k \in DOMAIN r : j # k =>
          \E a, b \in places : a # b /\ r[j] = s[a] /\ r[k] = s[b]

\* One more item is picked at a place not picked from yet.
LEMMA PickOne ==
    ASSUME NEW S, NEW x \in Seq(S), NEW s, NEW P, NEW i, i \notin P, s[i] \in S,
           Picks(x, s, P)
    PROVE  Picks(Append(x, s[i]), s, P \cup {i})
<1> DEFINE y == Append(x, s[i])
           m == Len(x)
<1>1. /\ m \in Nat /\ DOMAIN x = 1..m /\ DOMAIN y = 1..(m + 1)
      /\ y[m + 1] = s[i] /\ \A k \in 1..m : y[k] = x[k]
  OBVIOUS
<1>2. \A k \in DOMAIN y : k \in DOMAIN x \/ k = m + 1
  BY <1>1
<1>3. \A k \in DOMAIN x : k \in DOMAIN y /\ y[k] = x[k] /\ k # m + 1
  BY <1>1
<1>4. m + 1 \in DOMAIN y
  BY <1>1
<1> HIDE DEF y, m
<1>5. \A k \in DOMAIN y : \E j \in P \cup {i} : y[k] = s[j]
  BY <1>1, <1>2, <1>3 DEF Picks
<1>6. \A j \in P \cup {i} : \E k \in DOMAIN y : y[k] = s[j]
  BY <1>1, <1>3, <1>4 DEF Picks
<1>7. ASSUME NEW j \in DOMAIN y, NEW k \in DOMAIN y, j # k
      PROVE  \E a, b \in P \cup {i} : a # b /\ y[j] = s[a] /\ y[k] = s[b]
  <2>1. CASE j \in DOMAIN x /\ k \in DOMAIN x
    <3>1. PICK a \in P, b \in P : a # b /\ x[j] = s[a] /\ x[k] = s[b]
      BY <1>7, <2>1 DEF Picks
    <3> QED
      BY <3>1, <2>1, <1>3
  <2>2. CASE j \in DOMAIN x /\ k = m + 1
    <3>1. PICK a \in P : x[j] = s[a]
      BY <2>2 DEF Picks
    <3>2. a # i /\ y[j] = s[a] /\ y[k] = s[i]
      BY <3>1, <2>2, <1>1, <1>3
    <3> QED
      BY <3>2
  <2>3. CASE j = m + 1 /\ k \in DOMAIN x
    <3>1. PICK b \in P : x[k] = s[b]
      BY <2>3 DEF Picks
    <3>2. b # i /\ y[k] = s[b] /\ y[j] = s[i]
      BY <3>1, <2>3, <1>1, <1>3
    <3> QED
      BY <3>2
  <2> QED
    BY <1>2, <1>7, <2>1, <2>2, <2>3
<1>8. Picks(y, s, P \cup {i})
  BY <1>5, <1>6, <1>7 DEF Picks
<1> QED
  BY <1>8 DEF y

\* Only picks the items at the places, as many as there are places.
LEMMA OnlyPicks ==
    ASSUME NEW S, NEW s \in Seq(S), NEW places
    PROVE  /\ Only(s, places) \in Seq(S)
           /\ Picks(Only(s, places), s, places \cap DOMAIN s)
           /\ Len(Only(s, places)) = Cardinality(places \cap DOMAIN s)
<1> DEFINE n == Len(s)
           at(k) == places \cap (1..k)
           I == [k \in 0..n |-> {x \in Seq(S) : /\ Picks(x, s, at(k))
                                                /\ Len(x) = Cardinality(at(k))}]
           step == OnlyStep(s, places, S)
<1>1. n \in Nat /\ DOMAIN s = 1..n
  OBVIOUS
<1>2. <<>> \in I[0]
  <2>1. at(0) = {} /\ 0 \in 0..n
    BY <1>1
  <2>2. Cardinality({}) = 0
    BY FS_EmptySet
  <2>3. Picks(<<>>, s, {})
    BY DEF Picks
  <2>4. <<>> \in Seq(S) /\ Len(<<>>) = 0
    OBVIOUS
  <2> QED
    BY <2>1, <2>2, <2>3, <2>4
<1>3. ASSUME NEW k \in 1..n, NEW x \in I[k - 1]
      PROVE  step[k][x] \in I[k]
  <2>1. k - 1 \in 0..n /\ k \in 0..n
    BY <1>1
  <2>2. x \in Seq(S) /\ Picks(x, s, at(k - 1)) /\ Len(x) = Cardinality(at(k - 1))
    BY <1>3, <2>1
  <2>3. step[k][x] = IF k \in places THEN Append(x, s[k]) ELSE x
    BY <2>2 DEF OnlyStep
  <2>4. CASE k \in places
    <3>1. at(k) = at(k - 1) \cup {k} /\ k \notin at(k - 1)
      BY <1>1, <2>4
    <3>2. IsFiniteSet(at(k - 1))
      <4>1. at(k - 1) \subseteq 1..(k - 1) /\ k - 1 \in Int /\ 1 \in Int
        BY <1>1
      <4>2. IsFiniteSet(1..(k - 1))
        BY <4>1, FS_Interval
      <4> QED
        BY <4>1, <4>2, FS_Subset
    <3>3. Cardinality(at(k)) = Cardinality(at(k - 1)) + 1
      BY <3>1, <3>2, FS_AddElement
    <3>4. s[k] \in S
      BY <1>1
    <3> HIDE DEF at
    <3>5. Picks(Append(x, s[k]), s, at(k))
      BY <3>1, <3>4, <2>2, PickOne
    <3>6. Append(x, s[k]) \in Seq(S) /\ Len(Append(x, s[k])) = Len(x) + 1
      BY <3>4, <2>2
    <3> QED
      BY <2>1, <2>2, <2>3, <2>4, <3>3, <3>5, <3>6
  <2>5. CASE k \notin places
    <3>1. at(k) = at(k - 1)
      BY <1>1, <2>5
    <3> HIDE DEF at
    <3> QED
      BY <2>1, <2>2, <2>3, <2>5, <3>1
  <2> QED
    BY <2>4, <2>5
<1> HIDE DEF I, step
<1>4. Only(s, places) \in I[n]
  BY <1>1, <1>2, <1>3, OnlyLeads, LeadInduction DEF step
<1>5. at(n) = places \cap DOMAIN s /\ n \in 0..n
  BY <1>1
<1> HIDE DEF at
<1> QED
  BY <1>4, <1>5 DEF I

\* A number added somewhere in a list of numbers.
Inserted(o, n, b, y) ==
    /\ y \in Seq(Nat) /\ Len(y) = Len(o) + 1
    /\ \A k \in 1..b : y[k] = o[k]
    /\ y[b + 1] = n
    /\ \A k \in (b + 1)..Len(o) : y[k + 1] = o[k]

\* Placed inserts a number at some place of the list.
LEMMA PlacedInserts ==
    ASSUME NEW o \in Seq(Nat), NEW key, NEW n \in Nat
    PROVE  \E b \in 0..Len(o) : Inserted(o, n, b, Placed(o, key, n))
<1> DEFINE T == {k \in DOMAIN o : ~Below(key[n], key[o[k]])}
           b == Cardinality(T)
           front == SubSeq(o, 1, b)
           back == SubSeq(o, b + 1, Len(o))
<1>1. Len(o) \in Nat /\ DOMAIN o = 1..Len(o)
  OBVIOUS
<1>2. b \in 0..Len(o)
  <2>1. T \subseteq 1..Len(o) /\ 1 \in Int /\ Len(o) \in Int
    BY <1>1
  <2>2. IsFiniteSet(1..Len(o)) /\ Cardinality(1..Len(o)) = Len(o)
    BY <1>1, <2>1, FS_Interval
  <2> HIDE DEF T
  <2>3. IsFiniteSet(T) /\ Cardinality(T) <= Cardinality(1..Len(o))
    BY <2>1, <2>2, FS_Subset
  <2>4. Cardinality(T) \in Nat
    BY <2>3, FS_CardinalityType
  <2> QED
    BY <2>2, <2>3, <2>4, <1>1
<1>3. Placed(o, key, n) = front \o <<n>> \o back
  BY DEF Placed
<1> HIDE DEF b
<1>4. /\ front \in Seq(Nat) /\ Len(front) = b
      /\ \A k \in 1..b : front[k] = o[k]
  BY <1>1, <1>2
<1>5. /\ back \in Seq(Nat) /\ Len(back) = Len(o) - b
      /\ \A k \in 1..(Len(o) - b) : back[k] = o[b + k]
  <2> DEFINE m == Len(o)
  <2>1. m \in Nat /\ b \in 0..m /\ \A k \in 1..m : o[k] \in Nat
    BY <1>1, <1>2
  <2>2. b + 1 \in Int /\ m \in Int /\ \A i \in (b + 1)..m : o[i] \in Nat
    BY <2>1
  <2> HIDE DEF m
  <2>3. /\ SubSeq(o, b + 1, m) \in Seq(Nat)
        /\ Len(SubSeq(o, b + 1, m)) = IF b + 1 <= m THEN m - (b + 1) + 1 ELSE 0
        /\ \A i \in 1..(m - (b + 1) + 1) : SubSeq(o, b + 1, m)[i] = o[(b + 1) + i - 1]
    BY <2>2, SubSeqProperties
  <2>4. /\ m - (b + 1) + 1 = m - b
        /\ \A i \in Int : (b + 1) + i - 1 = b + i
    BY <2>1
  <2>5. back = SubSeq(o, b + 1, m)
    BY DEF m
  <2> HIDE DEF back
  <2>6. Len(back) = m - b
    BY <2>1, <2>3, <2>5
  <2>7. \A k \in 1..(m - b) : back[k] = o[b + k]
    <3> SUFFICES ASSUME NEW k \in 1..(m - b)
                 PROVE  back[k] = o[b + k]
      OBVIOUS
    <3>1. k \in 1..(m - (b + 1) + 1) /\ (b + 1) + k - 1 = b + k
      BY <2>1
    <3>2. back[k] = o[(b + 1) + k - 1]
      BY <3>1, <2>3, <2>5
    <3> QED
      BY <3>1, <3>2
  <2> QED
    BY <2>3, <2>5, <2>6, <2>7 DEF m
<1> HIDE DEF front, back
<1> DEFINE mid == front \o <<n>>
           y == mid \o back
<1>6. /\ mid \in Seq(Nat) /\ Len(mid) = b + 1
      /\ \A k \in 1..b : mid[k] = o[k]
      /\ mid[b + 1] = n
  BY <1>4, <1>2
<1> HIDE DEF mid
<1>7. y \in Seq(Nat) /\ Len(y) = Len(o) + 1
  BY <1>5, <1>6, <1>2, <1>1
<1>8. \A k \in 1..(b + 1) : y[k] = mid[k]
  BY <1>5, <1>6, <1>2, <1>1
<1>9. \A k \in (b + 1)..Len(o) : y[k + 1] = o[k]
  <2> SUFFICES ASSUME NEW k \in (b + 1)..Len(o)
               PROVE  y[k + 1] = o[k]
    OBVIOUS
  <2>1. PICK j \in 1..(Len(o) - b) : k = b + j
    <3>1. k - b \in 1..(Len(o) - b) /\ k = b + (k - b)
      BY <1>1, <1>2
    <3> QED
      BY <3>1
  <2>2. j \in 1..Len(back) /\ (b + 1) + j = k + 1 /\ k + 1 \in 1..(Len(o) + 1)
    BY <2>1, <1>1, <1>2, <1>5
  <2>3. y[k + 1] = back[j]
    <3>1. y[k + 1] = IF k + 1 <= Len(mid) THEN mid[k + 1] ELSE back[k + 1 - Len(mid)]
      <4>1. k + 1 \in 1..(Len(mid) + Len(back))
        BY <2>1, <1>5, <1>6, <1>2, <1>1
      <4>2. \A i \in 1..(Len(mid) + Len(back)) :
                y[i] = IF i <= Len(mid) THEN mid[i] ELSE back[i - Len(mid)]
        BY <1>5, <1>6, ConcatProperties
      <4> HIDE DEF y
      <4> QED
        BY <4>1, <4>2
    <3>2. ~(k + 1 <= b + 1) /\ k + 1 - (b + 1) = j
      BY <2>1, <1>1, <1>2
    <3> QED
      BY <3>1, <3>2, <1>6
  <2> QED
    BY <2>1, <2>3, <1>5
<1>10. \A k \in 1..b : y[k] = o[k]
  BY <1>6, <1>8, <1>2
<1>11. y[b + 1] = n
  BY <1>6, <1>8, <1>2
<1> HIDE DEF y
<1>12. Inserted(o, n, b, y)
  BY <1>7, <1>9, <1>10, <1>11 DEF Inserted
<1>13. Placed(o, key, n) = y
  BY <1>3 DEF y, mid
<1> QED
  BY <1>2, <1>12, <1>13

\* A list that has each of the numbers up to n once.
Orders(n, o) ==
    /\ o \in Seq(1..n)
    /\ \A i \in 1..n : \E k \in DOMAIN o : o[k] = i
    /\ \A j, k \in DOMAIN o : o[j] = o[k] => j = k

\* Placing the next number into a list of the numbers before lists them all.
LEMMA PlacedOrders ==
    ASSUME NEW n \in Nat \ {0}, NEW o, Orders(n - 1, o), NEW key
    PROVE  Orders(n, Placed(o, key, n)) /\ Placed(o, key, n) \in Seq(Nat)
<1> DEFINE y == Placed(o, key, n)
<1>1. o \in Seq(Nat) /\ \A k \in DOMAIN o : o[k] \in 1..(n - 1)
  BY DEF Orders
<1>2. PICK b \in 0..Len(o) : Inserted(o, n, b, y)
  BY <1>1, PlacedInserts
<1> HIDE DEF y
<1>3. /\ DOMAIN o = 1..Len(o) /\ DOMAIN y = 1..(Len(o) + 1)
      /\ Len(o) \in Nat /\ y \in Seq(Nat)
  BY <1>1, <1>2 DEF Inserted
<1>4. \A k \in DOMAIN o : \E m \in DOMAIN y : y[m] = o[k]
  <2> SUFFICES ASSUME NEW k \in DOMAIN o
               PROVE  \E m \in DOMAIN y : y[m] = o[k]
    OBVIOUS
  <2>1. CASE k <= b
    BY <2>1, <1>2, <1>3 DEF Inserted
  <2>2. CASE k > b
    <3>1. y[k + 1] = o[k] /\ k + 1 \in DOMAIN y
      BY <2>2, <1>2, <1>3 DEF Inserted
    <3> QED
      BY <3>1
  <2> QED
    BY <2>1, <2>2, <1>3
<1> DEFINE from(m) == IF m <= b THEN m ELSE m - 1
<1>5. \A m \in DOMAIN y : m # b + 1 => from(m) \in DOMAIN o /\ y[m] = o[from(m)]
  <2> SUFFICES ASSUME NEW m \in DOMAIN y, m # b + 1
               PROVE  from(m) \in DOMAIN o /\ y[m] = o[from(m)]
    OBVIOUS
  <2>1. CASE m <= b
    BY <2>1, <1>2, <1>3 DEF Inserted
  <2>2. CASE m > b
    <3>1. m - 1 \in (b + 1)..Len(o) /\ (m - 1) + 1 = m /\ from(m) = m - 1
      BY <2>2, <1>3
    <3>2. y[(m - 1) + 1] = o[m - 1]
      BY <3>1, <1>2 DEF Inserted
    <3> QED
      BY <3>1, <3>2, <1>3
  <2> QED
    BY <2>1, <2>2, <1>3
<1>6. y[b + 1] = n /\ b + 1 \in DOMAIN y
  BY <1>2, <1>3 DEF Inserted
<1>7. \A m \in DOMAIN y : y[m] \in 1..n
  BY <1>1, <1>5, <1>6
<1>8. y \in Seq(1..n)
  BY <1>3, <1>7
<1>9. \A i \in 1..n : \E m \in DOMAIN y : y[m] = i
  <2> SUFFICES ASSUME NEW i \in 1..n
               PROVE  \E m \in DOMAIN y : y[m] = i
    OBVIOUS
  <2>1. CASE i = n
    BY <2>1, <1>6
  <2>2. CASE i # n
    <3>1. i \in 1..(n - 1)
      BY <2>2
    <3>2. PICK k \in DOMAIN o : o[k] = i
      BY <3>1 DEF Orders
    <3> QED
      BY <3>2, <1>4
  <2> QED
    BY <2>1, <2>2
<1>10. ASSUME NEW j \in DOMAIN y, NEW k \in DOMAIN y, y[j] = y[k]
       PROVE  j = k
  <2>1. \A m \in DOMAIN y : m # b + 1 => y[m] # n
    BY <1>1, <1>5
  <2>2. CASE j = b + 1 \/ k = b + 1
    BY <2>1, <2>2, <1>6, <1>10
  <2>3. CASE j # b + 1 /\ k # b + 1
    <3>1. from(j) = from(k)
      <4>1. o[from(j)] = o[from(k)] /\ from(j) \in DOMAIN o /\ from(k) \in DOMAIN o
        BY <1>5, <1>10, <2>3
      <4> QED
        BY <4>1 DEF Orders
    <3> QED
      BY <3>1, <2>3, <1>3
  <2> QED
    BY <2>2, <2>3
<1>11. Orders(n, y)
  BY <1>8, <1>9, <1>10 DEF Orders
<1> QED
  BY <1>3, <1>11 DEF y

\* The step of Sorted: the next number is placed.
SortStep(s, key) == [k \in 1..Len(s) |-> [o \in Seq(Nat) |-> Placed(o, key, k)]]

\* What is sorted is what there was, each item once.
LEMMA SortedPicks ==
    ASSUME NEW S, NEW s \in Seq(S), NEW key
    PROVE  /\ Sorted(s, key) \in Seq(S)
           /\ Picks(Sorted(s, key), s, DOMAIN s)
<1> DEFINE n == Len(s)
           X == Seq(Nat)
           step == SortStep(s, key)
           Order(g) == g = [k \in 0..n |->
                              IF k = 0 THEN <<>> ELSE Placed(g[k - 1], key, k)]
<1>1. n \in Nat /\ <<>> \in X /\ DOMAIN s = 1..n
  OBVIOUS
<1>2. \A k \in 1..n : \A x \in X : Placed(x, key, k) \in X
  <2> SUFFICES ASSUME NEW k \in 1..n, NEW x \in X
               PROVE  Placed(x, key, k) \in X
    OBVIOUS
  <2>1. PICK b \in 0..Len(x) : Inserted(x, k, b, Placed(x, key, k))
    BY <1>1, PlacedInserts
  <2> QED
    BY <2>1 DEF Inserted
<1>3. \A k \in 1..n : \A x \in X : step[k][x] = Placed(x, key, k)
  BY DEF SortStep
<1>4. step \in [1..n -> [X -> X]]
  BY <1>2 DEF SortStep
<1> HIDE DEF X, step
<1>5. \E g : Order(g)
  <2>1. PICK g \in [0..n -> X] : Stepwise(n, <<>>, step, g)
    BY <1>1, <1>4, Recursion
  <2>2. \A k \in 1..n : k # 0 /\ g[k - 1] \in X /\ k \in 0..n
    BY <1>1
  <2>3. \A k \in 0..n : k # 0 => k \in 1..n
    BY <1>1
  <2>4. \A k \in 0..n : g[k] = IF k = 0 THEN <<>> ELSE Placed(g[k - 1], key, k)
    BY <2>1, <2>2, <2>3, <1>3 DEF Stepwise
  <2> QED
    BY <2>4
<1> DEFINE g == CHOOSE g : Order(g)
<1>6. Order(g)
  BY <1>5
<1>7. Sorted(s, key) = [k \in DOMAIN g[n] |-> s[g[n][k]]]
  BY DEF Sorted
<1> HIDE DEF g
<1>8. Follows(n, X, <<>>, step, g)
  <2>1. \A k \in 1..n : k # 0 /\ k \in 0..n
    BY <1>1
  <2>2. \A k \in 0..n : g[k] = IF k = 0 THEN <<>> ELSE Placed(g[k - 1], key, k)
    BY <1>6, Zenon
  <2>3. /\ g[0] = <<>>
        /\ \A k \in 1..n : g[k] = Placed(g[k - 1], key, k)
    BY <2>1, <1>1, <2>2
  <2>4. g = [k \in 0..n |-> g[k]]
    BY <1>6
  <2> QED
    BY <2>3, <2>4, <1>3 DEF Follows
<1>9. Leads(n, X, <<>>, step, g[n])
  BY <1>1, <1>4, <1>8, FollowLeads
<1> DEFINE I == [k \in 0..n |-> {o \in X : Orders(k, o)}]
<1>10. <<>> \in I[0]
  <2>1. 0 \in 0..n /\ 1..0 = {}
    BY <1>1
  <2>2. Orders(0, <<>>)
    BY <2>1 DEF Orders
  <2> QED
    BY <2>1, <2>2, <1>1
<1>11. ASSUME NEW k \in 1..n, NEW x \in I[k - 1]
       PROVE  step[k][x] \in I[k]
  <2>1. k - 1 \in 0..n /\ k \in 0..n /\ k \in Nat \ {0}
    BY <1>1
  <2>2. x \in X /\ Orders(k - 1, x)
    BY <1>11, <2>1
  <2>3. Orders(k, Placed(x, key, k)) /\ Placed(x, key, k) \in X
    BY <2>1, <2>2, PlacedOrders DEF X
  <2> QED
    BY <2>1, <2>2, <2>3, <1>3
<1> HIDE DEF I
<1>12. g[n] \in I[n]
  BY <1>1, <1>9, <1>10, <1>11, LeadInduction
<1>13. Orders(n, g[n])
  BY <1>12, <1>1 DEF I
<1> DEFINE o == g[n]
           r == [k \in DOMAIN o |-> s[o[k]]]
<1>14. o \in Seq(1..n) /\ DOMAIN o = 1..Len(o) /\ Len(o) \in Nat
  BY <1>13 DEF Orders
<1>15. \A k \in DOMAIN o : o[k] \in 1..n
  BY <1>14
<1> HIDE DEF o
<1>16. DOMAIN r = DOMAIN o /\ \A k \in DOMAIN o : r[k] = s[o[k]]
  OBVIOUS
<1>17. r \in Seq(S)
  BY <1>14, <1>15, <1>1
<1> HIDE DEF r
<1>18. Picks(r, s, 1..n)
  <2>1. Orders(n, o)
    BY <1>13 DEF o
  <2>2. \A k \in DOMAIN r : \E i \in 1..n : r[k] = s[i]
    BY <1>15, <1>16
  <2>3. \A i \in 1..n : \E k \in DOMAIN r : r[k] = s[i]
    BY <1>16, <2>1 DEF Orders
  <2>4. \A j, k \in DOMAIN r : j # k =>
            \E a, b \in 1..n : a # b /\ r[j] = s[a] /\ r[k] = s[b]
    BY <1>15, <1>16, <2>1 DEF Orders
  <2> QED
    BY <2>2, <2>3, <2>4 DEF Picks
<1> QED
  BY <1>1, <1>7, <1>17, <1>18 DEF r, o

\* The result of the steps is one, and that of one more step follows it.
LEMMA LeadsNext ==
    ASSUME NEW X, NEW base, NEW n \in Nat, NEW step, NEW r, NEW more, NEW q,
           Leads(n, X, base, step, r), Leads(n + 1, X, base, more, q),
           \A k \in 1..n : more[k] = step[k]
    PROVE  q = more[n + 1][r] /\ r \in X /\ q \in X
<1>1. PICK g \in [0..n -> X] : Stepwise(n, base, step, g) /\ r = g[n]
  BY DEF Leads
<1>2. PICK h \in [0..(n + 1) -> X] : Stepwise(n + 1, base, more, h) /\ q = h[n + 1]
  BY DEF Leads
<1> DEFINE S == {k \in Nat : k <= n => h[k] = g[k]}
<1>3. 0 \in S
  BY <1>1, <1>2 DEF Stepwise
<1>4. ASSUME NEW k \in Nat, k \in S
      PROVE  k + 1 \in S
  <2> SUFFICES ASSUME k + 1 <= n
               PROVE  h[k + 1] = g[k + 1]
    OBVIOUS
  <2>1. k + 1 \in 1..n /\ k + 1 \in 1..(n + 1) /\ (k + 1) - 1 = k
    OBVIOUS
  <2>2. g[k + 1] = step[k + 1][g[k]]
    BY <1>1, <2>1 DEF Stepwise
  <2>3. h[k + 1] = more[k + 1][h[k]]
    BY <1>2, <2>1 DEF Stepwise
  <2>4. h[k] = g[k]
    BY <1>4
  <2> QED
    BY <2>1, <2>2, <2>3, <2>4
<1>5. n \in S
  <2> HIDE DEF S
  <2> QED
    BY <1>3, <1>4, Counting
<1>6. n + 1 \in 1..(n + 1) /\ (n + 1) - 1 = n /\ n \in 0..n /\ n + 1 \in 0..(n + 1)
  OBVIOUS
<1>7. h[n + 1] = more[n + 1][h[n]]
  BY <1>2, <1>6 DEF Stepwise
<1> QED
  BY <1>1, <1>2, <1>5, <1>6, <1>7

\* The step of FlattenSeq: the next list is put behind.
FlattenStep(t, S) == [k \in 1..Len(t) |-> [x \in Seq(S) |-> x \o t[k]]]

\* FlattenSeq is the result of its steps.
LEMMA FlattenLeads ==
    ASSUME NEW S, NEW t \in Seq(Seq(S))
    PROVE  Leads(Len(t), Seq(S), <<>>, FlattenStep(t, S), FlattenSeq(t))
<1> DEFINE n == Len(t)
           X == Seq(S)
           step == FlattenStep(t, S)
           Flat(f) == f = [k \in 1..n |-> IF k = 1 THEN t[k] ELSE f[k - 1] \o t[k]]
<1>1. n \in Nat /\ <<>> \in X /\ \A k \in 1..n : t[k] \in X
  OBVIOUS
<1>2. \A k \in 1..n : \A x \in X : step[k][x] = x \o t[k] /\ x \o t[k] \in X
  BY <1>1 DEF FlattenStep
<1>3. step \in [1..n -> [X -> X]]
  BY <1>2 DEF FlattenStep
<1>4. \A k \in 1..n : <<>> \o t[k] = t[k]
  BY <1>1
<1> HIDE DEF X, step
<1>5. PICK g \in [0..n -> X] : Stepwise(n, <<>>, step, g)
  BY <1>1, <1>3, Recursion
<1>6. CASE n = 0
  <2>1. t = <<>> /\ FlattenSeq(t) = t
    BY <1>6 DEF FlattenSeq
  <2>2. g[n] = <<>>
    BY <1>5, <1>6 DEF Stepwise
  <2> QED
    BY <1>5, <2>1, <2>2 DEF Leads, X, step
<1>7. CASE n # 0
  <2>1. \E f : Flat(f)
    <3> DEFINE f == [k \in 1..n |-> g[k]]
    <3>1. \A k \in 1..n : f[k] = g[k] /\ g[k - 1] \in X
      BY <1>1, SMTT(20)
    <3>2. \A k \in 1..n : g[k] = g[k - 1] \o t[k]
      BY <1>2, <1>5, <3>1 DEF Stepwise
    <3>3. g[0] = <<>> /\ 1 - 1 = 0
      BY <1>5 DEF Stepwise
    <3>4. \A k \in 1..n : k # 1 => k - 1 \in 1..n
      BY <1>1
    <3> HIDE DEF f
    <3>5. ASSUME NEW k \in 1..n
          PROVE  f[k] = IF k = 1 THEN t[k] ELSE f[k - 1] \o t[k]
      <4>1. CASE k = 1
        <5>1. g[k - 1] = <<>>
          BY <4>1, <3>3
        <5> QED
          BY <4>1, <5>1, <3>1, <3>2, <1>4
      <4>2. CASE k # 1
        <5>1. f[k - 1] = g[k - 1]
          BY <4>2, <3>1, <3>4
        <5> QED
          BY <4>2, <5>1, <3>1, <3>2
      <4> QED
        BY <4>1, <4>2
    <3>6. f = [k \in 1..n |-> IF k = 1 THEN t[k] ELSE f[k - 1] \o t[k]]
      <4>1. f = [k \in 1..n |-> f[k]]
        BY DEF f
      <4> QED
        BY <3>5, <4>1
    <3> QED
      BY <3>6
  <2> DEFINE f == CHOOSE f : Flat(f)
  <2>2. Flat(f)
    BY <2>1
  <2>3. FlattenSeq(t) = f[n]
    BY <1>7 DEF FlattenSeq
  <2> HIDE DEF f
  <2> DEFINE h == [k \in 0..n |-> IF k = 0 THEN <<>> ELSE f[k]]
  <2>4. \A k \in 1..n : f[k] = IF k = 1 THEN t[k] ELSE f[k - 1] \o t[k]
    BY <2>2, Zenon
  <2>5. /\ h[0] = <<>>
        /\ \A k \in 1..n : h[k] = f[k]
        /\ h = [k \in 0..n |-> h[k]]
    BY <1>1
  <2> HIDE DEF h
  <2>6. ASSUME NEW k \in 1..n
        PROVE  h[k] = h[k - 1] \o t[k]
    <3>1. CASE k = 1
      <4>1. k - 1 = 0
        BY <3>1
      <4> QED
        BY <3>1, <4>1, <2>4, <2>5, <1>4
    <3>2. CASE k # 1
      <4>1. k - 1 \in 1..n
        BY <1>1, <3>2
      <4> QED
        BY <3>2, <4>1, <2>4, <2>5
    <3> QED
      BY <3>1, <3>2
  <2>7. Follows(n, X, <<>>, step, h)
    BY <2>5, <2>6, <1>2 DEF Follows
  <2>8. Leads(n, X, <<>>, step, h[n])
    BY <1>1, <1>3, <2>7, FollowLeads
  <2>9. h[n] = FlattenSeq(t)
    <3>1. n \in 1..n
      BY <1>1, <1>7
    <3> QED
      BY <3>1, <2>3, <2>5
  <2> QED
    BY <2>8, <2>9 DEF X, step
<1> QED
  BY <1>6, <1>7

\* Lists of items make a list of items.
LEMMA FlattenType ==
    ASSUME NEW S, NEW t \in Seq(Seq(S))
    PROVE  FlattenSeq(t) \in Seq(S)
<1>1. PICK g \in [0..Len(t) -> Seq(S)] : FlattenSeq(t) = g[Len(t)]
  BY FlattenLeads DEF Leads
<1>2. Len(t) \in 0..Len(t)
  OBVIOUS
<1> QED
  BY <1>1, <1>2

\* One list more is put behind the others.
LEMMA FlattenAppend ==
    ASSUME NEW S, NEW t \in Seq(Seq(S)), NEW x \in Seq(S)
    PROVE  FlattenSeq(Append(t, x)) = FlattenSeq(t) \o x
<1> DEFINE n == Len(t)
           u == Append(t, x)
           step == FlattenStep(t, S)
           more == FlattenStep(u, S)
<1>1. n \in Nat /\ u \in Seq(Seq(S)) /\ Len(u) = n + 1 /\ u[n + 1] = x
      /\ \A k \in 1..n : u[k] = t[k]
  OBVIOUS
<1> HIDE DEF u
<1>2. Leads(n, Seq(S), <<>>, step, FlattenSeq(t))
  BY FlattenLeads
<1>3. Leads(n + 1, Seq(S), <<>>, more, FlattenSeq(u))
  BY <1>1, FlattenLeads
<1>4. \A k \in 1..n : more[k] = step[k]
  <2>1. \A k \in 1..n : k \in 1..(n + 1)
    BY <1>1
  <2> QED
    BY <1>1, <2>1 DEF FlattenStep
<1>5. n + 1 \in 1..Len(u)
  BY <1>1
<1>6. FlattenSeq(t) \in Seq(S)
  BY FlattenType
<1>7. more[n + 1][FlattenSeq(t)] = FlattenSeq(t) \o x
  BY <1>1, <1>5, <1>6 DEF FlattenStep
<1> HIDE DEF step, more, n
<1>8. FlattenSeq(u) = more[n + 1][FlattenSeq(t)]
  BY <1>1, <1>2, <1>3, <1>4, LeadsNext
<1> QED
  BY <1>7, <1>8 DEF u

\* No lists make no items.
LEMMA FlattenNone == FlattenSeq(<<>>) = <<>>
<1>1. Len(<<>>) = 0
  OBVIOUS
<1> QED
  BY <1>1 DEF FlattenSeq

\* Lists are flattened one part after the other.
LEMMA FlattenConcat ==
    ASSUME NEW S, NEW s \in Seq(Seq(S)), NEW t \in Seq(Seq(S))
    PROVE  FlattenSeq(s \o t) = FlattenSeq(s) \o FlattenSeq(t)
<1> DEFINE W == Seq(S)
           K == {k \in Nat : \A u \in Seq(W) : Len(u) = k =>
                    FlattenSeq(s \o u) = FlattenSeq(s) \o FlattenSeq(u)}
<1>1. 0 \in K
  <2> SUFFICES ASSUME NEW u \in Seq(W), Len(u) = 0
               PROVE  FlattenSeq(s \o u) = FlattenSeq(s) \o FlattenSeq(u)
    OBVIOUS
  <2>1. u = <<>> /\ s \o u = s
    OBVIOUS
  <2>2. FlattenSeq(s) \in Seq(S)
    BY FlattenType
  <2>3. FlattenSeq(s) \o <<>> = FlattenSeq(s)
    BY <2>2
  <2> QED
    BY <2>1, <2>3, FlattenNone
<1>2. ASSUME NEW k \in Nat, k \in K
      PROVE  k + 1 \in K
  <2> SUFFICES ASSUME NEW u \in Seq(W), Len(u) = k + 1
               PROVE  FlattenSeq(s \o u) = FlattenSeq(s) \o FlattenSeq(u)
    OBVIOUS
  <2> DEFINE front == [i \in 1..k |-> u[i]]
             x == u[k + 1]
  <2>1. \A i \in 1..(k + 1) : u[i] \in W
    OBVIOUS
  <2>2. front \in Seq(W) /\ Len(front) = k /\ x \in W
    BY <2>1
  <2>3. u = Append(front, x)
    OBVIOUS
  <2> HIDE DEF front, x
  <2>4. s \o u = Append(s \o front, x)
    <3> HIDE DEF W
    <3>1. s \in Seq(W)
      BY DEF W
    <3> QED
      BY <3>1, <2>2, <2>3
  <2>5. s \o front \in Seq(W)
    BY <2>2
  <2>6. FlattenSeq(s \o front) = FlattenSeq(s) \o FlattenSeq(front)
    BY <1>2, <2>2
  <2>7. FlattenSeq(s \o u) = FlattenSeq(s \o front) \o x
    BY <2>4, <2>5, <2>2, FlattenAppend
  <2>8. FlattenSeq(u) = FlattenSeq(front) \o x
    BY <2>2, <2>3, FlattenAppend
  <2>9. FlattenSeq(s) \in Seq(S) /\ FlattenSeq(front) \in Seq(S)
    BY <2>2, FlattenType
  <2>10. (FlattenSeq(s) \o FlattenSeq(front)) \o x = FlattenSeq(s) \o (FlattenSeq(front) \o x)
    BY <2>9, <2>2, SMTT(20)
  <2> QED
    BY <2>6, <2>7, <2>8, <2>10
<1> HIDE DEF K
<1>3. \A k \in Nat : k \in K
  BY <1>1, <1>2, Counting
<1>4. Len(t) \in Nat
  OBVIOUS
<1> QED
  BY <1>3, <1>4 DEF K

-----------------------------------------------------------------------------
(* Retrieval: what is found was asked for and answered.                     *)

\* A chunk that may be found is a chunk of an indexed version.
LEMMA EntryOfIsIn ==
    ASSUME NEW entries, NEW c \in EligibleChunks(entries)
    PROVE  /\ EntryOf(entries, c) \in entries
           /\ EntryOf(entries, c).id = c[1]
           /\ c[2] \in DOMAIN EntryOf(entries, c).chunks
<1>1. \E e \in entries : c \in {ChunkId(e, i) : i \in DOMAIN e.chunks}
  BY DEF EligibleChunks
<1>2. PICK e \in entries : c \in {ChunkId(e, i) : i \in DOMAIN e.chunks}
  BY <1>1
<1>3. e.id = c[1] /\ c[2] \in DOMAIN e.chunks
  BY <1>2 DEF ChunkId
<1> QED
  BY <1>3 DEF EntryOf

\* What may be found is indexed as published.
LEMMA EligibleInScope ==
    ASSUME NEW idx, NEW plan, NEW config,
           NEW e \in EligibleEntries(idx, plan, config)
    PROVE  e \in idx /\ e.status = "published"
<1>1. e \in idx /\ InScope(e, plan, config)
  BY DEF EligibleEntries
<1> QED
  BY <1>1 DEF InScope

\* The chunks a search adds are chunks the backend answered.
LEMMA SearchAnswers ==
    ASSUME NEW idx, NEW entries \in SUBSET idx, NEW backend, NEW version
    PROVE  HitChunks(Search(backend, entries, version).hits)
               \in Seq(Answered(backend, idx) \cap EligibleChunks(entries))
<1> DEFINE hits == backend.hits
           A == Answered(backend, idx) \cap EligibleChunks(entries)
<1>1. HitChunks(<<>>) \in Seq(A)
  <2>1. HitChunks(<<>>) = <<>>
    BY DEF HitChunks
  <2> HIDE DEF A
  <2>2. <<>> \in Seq(A)
    OBVIOUS
  <2> QED
    BY <2>1, <2>2
<1>2. CASE backend.health = "healthy" /\ HitsValid(hits, entries, version)
  <2>1. Search(backend, entries, version).hits = hits
    BY <1>2 DEF Search
  <2>2. \A i \in DOMAIN hits :
            /\ hits[i].chunk \in EligibleChunks(entries)
            /\ hits[i].checksum = EntryOf(entries, hits[i].chunk).chunks[hits[i].chunk[2]].checksum
    BY <1>2 DEF HitsValid
  <2>3. \A i \in DOMAIN hits : \E e \in idx :
              /\ e.id = hits[i].chunk[1]
              /\ hits[i].chunk[2] \in DOMAIN e.chunks
              /\ e.chunks[hits[i].chunk[2]].checksum = hits[i].checksum
    <3> SUFFICES ASSUME NEW i \in DOMAIN hits
                 PROVE  \E e \in idx :
                           /\ e.id = hits[i].chunk[1]
                           /\ hits[i].chunk[2] \in DOMAIN e.chunks
                           /\ e.chunks[hits[i].chunk[2]].checksum = hits[i].checksum
      OBVIOUS
    <3> DEFINE c == hits[i].chunk
    <3>1. c \in EligibleChunks(entries) /\ hits[i].checksum = EntryOf(entries, c).chunks[c[2]].checksum
      BY <2>2
    <3> HIDE DEF c
    <3>2. /\ EntryOf(entries, c) \in entries
          /\ EntryOf(entries, c).id = c[1]
          /\ c[2] \in DOMAIN EntryOf(entries, c).chunks
      BY <3>1, EntryOfIsIn
    <3>3. EntryOf(entries, c) \in idx
      BY <3>2
    <3> QED
      BY <3>1, <3>2, <3>3 DEF c
  <2>4. \A i, j \in DOMAIN hits : hits[i].chunk = hits[j].chunk => i = j
    BY <1>2 DEF HitsValid
  <2>5. Answered(backend, idx) = {hits[i].chunk : i \in DOMAIN hits}
    BY <1>2, <2>3, <2>4 DEF Answered
  <2>6. \A i \in DOMAIN hits : hits[i].chunk \in A
    BY <2>2, <2>5
  <2>7. hits \in Seq(Range(hits))
    BY <1>2 DEF HitsValid
  <2> HIDE DEF hits, A
  <2>8. DOMAIN hits = 1..Len(hits) /\ Len(hits) \in Nat
    BY <2>7
  <2>9. HitChunks(hits) \in Seq(A)
    BY <2>6, <2>8 DEF HitChunks
  <2> QED
    BY <2>1, <2>9 DEF A, hits
<1>3. CASE ~(backend.health = "healthy" /\ HitsValid(hits, entries, version))
  <2>1. Search(backend, entries, version).hits = <<>>
    BY <1>3 DEF Search
  <2> QED
    BY <1>1, <2>1
<1> QED
  BY <1>2, <1>3

\* The fused hits are hits of the two backends.
LEMMA FusedType ==
    ASSUME NEW A, NEW lexical, HitChunks(lexical) \in Seq(A),
           NEW semantic, HitChunks(semantic) \in Seq(A),
           NEW entries, NEW plan, NEW config
    PROVE  Fused(lexical, semantic, entries, plan, config) \in Seq(A)
<1> DEFINE other == {i \in DOMAIN semantic : RankIn(lexical, semantic[i].chunk) = None}
           found == HitChunks(lexical) \o Only(HitChunks(semantic), other)
<1>1. \E key : Fused(lexical, semantic, entries, plan, config) = Sorted(found, key)
  BY DEF Fused
<1>2. Only(HitChunks(semantic), other) \in Seq(A)
  BY OnlyPicks
<1>3. found \in Seq(A)
  BY <1>2
<1> QED
  BY <1>1, <1>3, SortedPicks

\* The bound on chunks leaves some of them out and adds none.
LEMMA BoundedType ==
    ASSUME NEW A, NEW chunks \in Seq(A), NEW entries, NEW config
    PROVE  Bounded(chunks, entries, config) \in Seq(A)
<1>1. \E places : Bounded(chunks, entries, config) = Only(chunks, places)
  BY DEF Bounded
<1> QED
  BY <1>1, OnlyPicks

\* A candidate is a chunk of an indexed version that a backend answered.
Sourced(c, idx, lexical, semantic) ==
    \E e \in idx :
        /\ e.status = "published"
        /\ c.document = e.document /\ c.version = e.version
        /\ \E i \in DOMAIN e.chunks : c.claims = e.chunks[i].claims
        /\ \E backend \in {lexical, semantic} : c.chunk \in Answered(backend, idx)

\* Every candidate is a chunk of an indexed version that a backend answered.
LEMMA RetrieveSources ==
    ASSUME NEW idx, NEW plan, NEW config, NEW lexical, NEW semantic
    PROVE  LET found == Retrieve(idx, plan, config, lexical, semantic).candidates
           IN  /\ found \in Seq(Range(found))
               /\ \A i \in DOMAIN found : Sourced(found[i], idx, lexical, semantic)
<1> DEFINE entries == EligibleEntries(idx, plan, config)
           l == Search(lexical, entries, config.lexicalIndex)
           s == Search(semantic, entries, config.vectorIndex)
           A == (Answered(lexical, idx) \cup Answered(semantic, idx))
                    \cap EligibleChunks(entries)
           fused == Fused(l.hits, s.hits, entries, plan, config)
           chunks == Bounded(fused, entries, config)
           found == Retrieve(idx, plan, config, lexical, semantic).candidates
<1>1. entries \in SUBSET idx /\ \A e \in entries : e.status = "published"
  BY EligibleInScope
<1> HIDE DEF entries
<1>2. HitChunks(l.hits) \in Seq(A) /\ HitChunks(s.hits) \in Seq(A)
  <2>1. HitChunks(l.hits) \in Seq(Answered(lexical, idx) \cap EligibleChunks(entries))
    BY <1>1, SearchAnswers
  <2>2. HitChunks(s.hits) \in Seq(Answered(semantic, idx) \cap EligibleChunks(entries))
    BY <1>1, SearchAnswers
  <2> HIDE DEF l, s
  <2> QED
    BY <2>1, <2>2
<1> HIDE DEF A
<1>3. chunks \in Seq(A)
  <2>1. fused \in Seq(A)
    BY <1>2, FusedType
  <2> HIDE DEF fused
  <2> QED
    BY <2>1, BoundedType
<1>4. \/ found = <<>>
      \/ \E version : found = [i \in DOMAIN chunks |->
             CandidateFor(entries, chunks, i, version[i])]
  <2> DEFINE version == [i \in DOMAIN chunks |->
                  IF RankIn(s.hits, chunks[i]) = None
                  THEN config.lexicalIndex ELSE config.vectorIndex]
  <2>1. \A i \in DOMAIN chunks : version[i] =
                  IF RankIn(s.hits, chunks[i]) = None
                  THEN config.lexicalIndex ELSE config.vectorIndex
    OBVIOUS
  <2>2. \/ found = <<>>
        \/ found = [i \in DOMAIN chunks |->
                    CandidateFor(entries, chunks, i,
                                 IF RankIn(s.hits, chunks[i]) = None
                                 THEN config.lexicalIndex
                                 ELSE config.vectorIndex)]
    BY DEF Retrieve, NoCandidates, entries
  <2> HIDE DEF version, chunks, s
  <2> QED
    BY <2>1, <2>2
<1> HIDE DEF chunks, found
<1>5. CASE found = <<>>
  BY <1>5 DEF found
<1>6. CASE found # <<>>
  <2>1. PICK version : found = [i \in DOMAIN chunks |->
             CandidateFor(entries, chunks, i, version[i])]
    BY <1>4, <1>6
  <2>2. DOMAIN chunks = 1..Len(chunks) /\ Len(chunks) \in Nat
        /\ \A i \in DOMAIN chunks : chunks[i] \in A
    BY <1>3
  <2>3. found \in Seq(Range(found))
    BY <2>1, <2>2 DEF Range
  <2>4. ASSUME NEW i \in DOMAIN found
        PROVE  Sourced(found[i], idx, lexical, semantic)
    <3> DEFINE c == chunks[i]
               e == EntryOf(entries, c)
    <3>1. c \in A
      BY <2>1, <2>2, <2>4
    <3>2. /\ c \in EligibleChunks(entries)
          /\ \E backend \in {lexical, semantic} : c \in Answered(backend, idx)
      BY <3>1 DEF A
    <3>3. found[i] = CandidateFor(entries, chunks, i, version[i])
      BY <2>1, <2>4
    <3>4. /\ found[i].document = e.document /\ found[i].version = e.version
          /\ found[i].claims = e.chunks[c[2]].claims /\ found[i].chunk = c
      BY <3>3 DEF CandidateFor
    <3> HIDE DEF c, e
    <3>5. e \in entries /\ c[2] \in DOMAIN e.chunks
      BY <3>2, EntryOfIsIn DEF e
    <3> QED
      BY <1>1, <3>2, <3>4, <3>5 DEF Sourced
  <2> QED
    BY <2>3, <2>4 DEF found
<1> QED
  BY <1>5, <1>6

-----------------------------------------------------------------------------
(* Validation: each filter keeps some of what the ones before it left.      *)

\* The claims of what is accepted.
AcceptedItems(candidates, policy) ==
    UNION {{[candidate |-> candidates[i], claim |-> candidates[i].claims[k]] :
                k \in DOMAIN candidates[i].claims} :
              i \in {i \in DOMAIN candidates : Accepts(candidates[i], policy)}}

\* Candidates in a list, each with its claims in a list.
Claiming(candidates) ==
    /\ candidates \in Seq(Range(candidates))
    /\ \A i \in DOMAIN candidates :
          candidates[i].claims \in Seq(Range(candidates[i].claims))

\* The claims validation starts with are those of the accepted candidates.
LEMMA AcceptedClaimsType ==
    ASSUME NEW candidates, Claiming(candidates), NEW policy
    PROVE  AcceptedClaims(candidates, policy) \in Seq(AcceptedItems(candidates, policy))
<1> DEFINE S == AcceptedItems(candidates, policy)
           part(i) == IF ~Accepts(candidates[i], policy) THEN <<>>
                      ELSE [k \in DOMAIN candidates[i].claims |->
                              [candidate |-> candidates[i],
                               claim |-> candidates[i].claims[k]]]
           t == [i \in DOMAIN candidates |-> part(i)]
<1>1. ASSUME NEW i \in DOMAIN candidates
      PROVE  part(i) \in Seq(S)
  <2>1. CASE Accepts(candidates[i], policy)
    <3> DEFINE claims == candidates[i].claims
               item(k) == [candidate |-> candidates[i], claim |-> claims[k]]
               p == [k \in DOMAIN claims |-> item(k)]
    <3>1. \A k \in DOMAIN claims : item(k) \in S
      <4>1. i \in {j \in DOMAIN candidates : Accepts(candidates[j], policy)}
        BY <2>1
      <4> QED
        BY <4>1 DEF AcceptedItems
    <3>2. DOMAIN claims = 1..Len(claims) /\ Len(claims) \in Nat
      BY DEF Claiming
    <3> HIDE DEF claims, item, S
    <3>3. p \in Seq(S)
      BY <3>1, <3>2
    <3> QED
      BY <3>3, <2>1 DEF p, item, claims
  <2>2. CASE ~Accepts(candidates[i], policy)
    <3> HIDE DEF S
    <3>1. <<>> \in Seq(S)
      OBVIOUS
    <3> QED
      BY <2>2, <3>1
  <2> QED
    BY <2>1, <2>2
<1>2. DOMAIN candidates = 1..Len(candidates) /\ Len(candidates) \in Nat
  BY DEF Claiming
<1>3. t \in Seq(Seq(S))
  <2> HIDE DEF S, part
  <2> QED
    BY <1>1, <1>2
<1>4. AcceptedClaims(candidates, policy) = FlattenSeq(t)
  BY DEF AcceptedClaims
<1> HIDE DEF t, S
<1>5. FlattenSeq(t) \in Seq(S)
  BY <1>3, FlattenType
<1> QED
  BY <1>4, <1>5 DEF S

\* An accepted claim is one its candidate makes, in the version it is of.
LEMMA AcceptedIsRight ==
    ASSUME NEW candidates, NEW policy, NEW x \in AcceptedItems(candidates, policy)
    PROVE  /\ \E i \in DOMAIN candidates : x.candidate = candidates[i]
           /\ x.claim.version = x.candidate.version
<1>1. \E i \in {i \in DOMAIN candidates : Accepts(candidates[i], policy)} :
         x \in {[candidate |-> candidates[i], claim |-> candidates[i].claims[k]] :
                   k \in DOMAIN candidates[i].claims}
  BY DEF AcceptedItems
<1>2. PICK i \in DOMAIN candidates :
         /\ Accepts(candidates[i], policy)
         /\ x \in {[candidate |-> candidates[i], claim |-> candidates[i].claims[k]] :
                      k \in DOMAIN candidates[i].claims}
  BY <1>1
<1>3. PICK k \in DOMAIN candidates[i].claims :
         x = [candidate |-> candidates[i], claim |-> candidates[i].claims[k]]
  BY <1>2
<1>4. ClaimRefusal(candidates[i], candidates[i].claims[k], policy) = None
  BY <1>2 DEF Accepts
<1>5. candidates[i].claims[k].version = candidates[i].version
  BY <1>4, RefusalAssumption DEF ClaimRefusal
<1> QED
  BY <1>3, <1>5

\* No two claims say the same.
Distinct(items) ==
    \A j, k \in DOMAIN items : j # k => Says(items[j]) # Says(items[k])

\* What is picked of distinct claims.
LEMMA PicksSome ==
    ASSUME NEW r, NEW s, NEW P \in SUBSET DOMAIN s, Picks(r, s, P)
    PROVE  /\ Range(r) \subseteq Range(s)
           /\ Distinct(s) => Distinct(r)
<1>1. Range(r) \subseteq Range(s)
  BY DEF Picks, Range
<1>2. ASSUME Distinct(s)
      PROVE  Distinct(r)
  <2> SUFFICES ASSUME NEW j \in DOMAIN r, NEW k \in DOMAIN r, j # k
               PROVE  Says(r[j]) # Says(r[k])
    BY DEF Distinct
  <2>1. PICK a \in P, b \in P : a # b /\ r[j] = s[a] /\ r[k] = s[b]
    BY DEF Picks
  <2>2. Says(s[a]) # Says(s[b])
    BY <1>2, <2>1 DEF Distinct
  <2> QED
    BY <2>1, <2>2
<1> QED
  BY <1>1, <1>2

\* _without_duplicates: of the claims that say the same one is kept.
LEMMA WithoutDuplicatesKeeps ==
    ASSUME NEW S, NEW items \in Seq(S)
    PROVE  LET kept == WithoutDuplicates(items)
           IN  /\ kept \in Seq(S) /\ Range(kept) \subseteq Range(items)
               /\ Distinct(kept)
               /\ \A x \in Range(items) : \E y \in Range(kept) : Says(y) = Says(x)
<1> DEFINE P == {i \in DOMAIN items : \A j \in 1..(i - 1) : Says(items[j]) # Says(items[i])}
           kept == WithoutDuplicates(items)
<1>1. kept = Only(items, P)
  BY DEF WithoutDuplicates
<1>2. DOMAIN items = 1..Len(items) /\ Len(items) \in Nat
  OBVIOUS
<1>3. P \cap DOMAIN items = P /\ P \in SUBSET DOMAIN items
  OBVIOUS
<1>4. \A i, j \in P : i # j => Says(items[i]) # Says(items[j])
  <2> SUFFICES ASSUME NEW i \in P, NEW j \in P, i # j
               PROVE  Says(items[i]) # Says(items[j])
    OBVIOUS
  <2>1. i \in Nat \ {0} /\ j \in Nat \ {0}
    BY <1>2
  <2>2. i \in 1..(j - 1) \/ j \in 1..(i - 1)
    BY <2>1
  <2> QED
    BY <2>2
<1>5. \A i \in DOMAIN items : \E j \in P : Says(items[j]) = Says(items[i])
  <2> SUFFICES ASSUME NEW i \in DOMAIN items
               PROVE  \E j \in P : Says(items[j]) = Says(items[i])
    OBVIOUS
  <2> DEFINE T == {j \in Nat : j \in DOMAIN items /\ Says(items[j]) = Says(items[i])}
  <2>1. T \subseteq Nat /\ i \in T
    BY <1>2
  <2>2. PICK j \in T : \A m \in T : ~(<<m, j>> \in OpToRel(<, Nat))
    BY <2>1, NatLessThanWellFounded, WFMin
  <2>3. \A m \in T : ~(m < j)
    BY <2>2 DEF OpToRel
  <2>4. \A m \in 1..(j - 1) : Says(items[m]) # Says(items[j])
    <3> SUFFICES ASSUME NEW m \in 1..(j - 1)
                 PROVE  Says(items[m]) # Says(items[j])
      OBVIOUS
    <3>1. m \in DOMAIN items /\ m < j /\ m \in Nat
      BY <1>2
    <3> QED
      BY <3>1, <2>3
  <2> QED
    BY <2>2, <2>4
<1> HIDE DEF P, kept
<1>6. kept \in Seq(S) /\ Picks(kept, items, P)
  BY <1>1, <1>3, OnlyPicks
<1>7. Range(kept) \subseteq Range(items)
  BY <1>3, <1>6, PicksSome
<1>8. Distinct(kept)
  <2> SUFFICES ASSUME NEW j \in DOMAIN kept, NEW k \in DOMAIN kept, j # k
               PROVE  Says(kept[j]) # Says(kept[k])
    BY DEF Distinct
  <2>1. PICK a \in P, b \in P : a # b /\ kept[j] = items[a] /\ kept[k] = items[b]
    BY <1>6 DEF Picks
  <2> QED
    BY <2>1, <1>4
<1>9. \A x \in Range(items) : \E y \in Range(kept) : Says(y) = Says(x)
  <2> SUFFICES ASSUME NEW i \in DOMAIN items
               PROVE  \E y \in Range(kept) : Says(y) = Says(items[i])
    BY DEF Range
  <2>1. PICK j \in P : Says(items[j]) = Says(items[i])
    BY <1>5
  <2>2. PICK k \in DOMAIN kept : kept[k] = items[j]
    BY <1>6 DEF Picks
  <2> QED
    BY <2>1, <2>2 DEF Range
<1> QED
  BY <1>6, <1>7, <1>8, <1>9 DEF kept

\* _fresh: only the newest of the claims about a matter are kept.
LEMMA FreshKeeps ==
    ASSUME NEW S, NEW items \in Seq(S), Distinct(items)
    PROVE  LET kept == Fresh(items)
           IN  /\ kept \in Seq(S) /\ Range(kept) \subseteq Range(items)
               /\ Distinct(kept)
               /\ \A x \in Range(kept), y \in Range(items) :
                     About(y) = About(x) => y.claim.version <= x.claim.version
<1> DEFINE P == {i \in DOMAIN items : \A j \in DOMAIN items :
                    About(items[j]) = About(items[i]) =>
                        items[j].claim.version <= items[i].claim.version}
           kept == Fresh(items)
<1>1. kept = Only(items, P) /\ P \cap DOMAIN items = P /\ P \in SUBSET DOMAIN items
  BY DEF Fresh
<1>2. \A i \in P, j \in DOMAIN items :
          About(items[j]) = About(items[i]) =>
              items[j].claim.version <= items[i].claim.version
  OBVIOUS
<1> HIDE DEF P, kept
<1>3. kept \in Seq(S) /\ Picks(kept, items, P)
  BY <1>1, OnlyPicks
<1>4. Range(kept) \subseteq Range(items) /\ Distinct(kept)
  BY <1>1, <1>3, PicksSome
<1>5. \A x \in Range(kept), y \in Range(items) :
          About(y) = About(x) => y.claim.version <= x.claim.version
  <2>1. \A x \in Range(kept) : \E i \in P : x = items[i]
    BY <1>3 DEF Picks, Range
  <2>2. \A y \in Range(items) : \E j \in DOMAIN items : y = items[j]
    BY DEF Range
  <2> QED
    BY <1>2, <2>1, <2>2
<1> QED
  BY <1>3, <1>4, <1>5 DEF kept

\* _consistent: the kept claims about a matter say the same.
LEMMA ConsistentKeeps ==
    ASSUME NEW S, NEW items \in Seq(S), Distinct(items), NEW mode
    PROVE  LET kept == Consistent(items, mode)
           IN  /\ kept \in Seq(S) /\ Range(kept) \subseteq Range(items)
               /\ Distinct(kept)
               /\ \A x, y \in Range(kept) :
                     About(y) = About(x) => y.claim.value = x.claim.value
<1> DEFINE rivals(x) == {y \in Range(items) : About(y) = About(x)}
           P == {i \in DOMAIN items :
                    \/ \A y \in rivals(items[i]) : y.claim.value = items[i].claim.value
                    \/ Winner(rivals(items[i]), mode) = items[i]}
           kept == Consistent(items, mode)
<1>1. kept = Only(items, P) /\ P \cap DOMAIN items = P /\ P \in SUBSET DOMAIN items
  BY DEF Consistent
<1>2. \A i, j \in P : About(items[i]) = About(items[j]) =>
                         items[i].claim.value = items[j].claim.value
  <2> SUFFICES ASSUME NEW i \in P, NEW j \in P, About(items[i]) = About(items[j])
               PROVE  items[i].claim.value = items[j].claim.value
    OBVIOUS
  <2>1. rivals(items[i]) = rivals(items[j])
    OBVIOUS
  <2>2. items[i] \in rivals(items[j]) /\ items[j] \in rivals(items[i])
    BY DEF Range
  <2>3. \A k \in P : \/ \A y \in rivals(items[k]) : y.claim.value = items[k].claim.value
                     \/ Winner(rivals(items[k]), mode) = items[k]
    OBVIOUS
  <2> HIDE DEF P, rivals
  <2> QED
    BY <2>1, <2>2, <2>3
<1> HIDE DEF P, kept, rivals
<1>3. kept \in Seq(S) /\ Picks(kept, items, P)
  BY <1>1, OnlyPicks
<1>4. Range(kept) \subseteq Range(items) /\ Distinct(kept)
  BY <1>1, <1>3, PicksSome
<1>5. \A x, y \in Range(kept) :
          About(y) = About(x) => y.claim.value = x.claim.value
  <2>1. \A x \in Range(kept) : \E i \in P : x = items[i]
    BY <1>3 DEF Picks, Range
  <2> QED
    BY <1>2, <2>1
<1> QED
  BY <1>3, <1>4, <1>5 DEF kept

\* Ranking adds and repeats nothing.
LEMMA RankedKeeps ==
    ASSUME NEW S, NEW items \in Seq(S), Distinct(items)
    PROVE  /\ Ranked(items) \in Seq(S) /\ Range(Ranked(items)) \subseteq Range(items)
           /\ Distinct(Ranked(items))
<1>1. \E key : Ranked(items) = Sorted(items, key)
  BY DEF Ranked
<1>2. Ranked(items) \in Seq(S) /\ Picks(Ranked(items), items, DOMAIN items)
  BY <1>1, SortedPicks
<1>3. DOMAIN items \in SUBSET DOMAIN items
  OBVIOUS
<1> QED
  BY <1>2, <1>3, PicksSome

\* The approvals before the limits.
Approvals(candidates, policy) ==
    LET kept == Consistent(Fresh(WithoutDuplicates(
                    AcceptedClaims(candidates, policy))), policy.conflicts)
        ranked == Ranked(kept)
    IN  [i \in DOMAIN ranked |-> Approval(ranked[i], kept)]

\* An approval is of an accepted claim, and none is newer on the same matter.
Backed(a, candidates, policy) ==
    \E x \in AcceptedItems(candidates, policy) :
        /\ a.document = x.candidate.document /\ a.version = x.claim.version
        /\ a.about = About(x) /\ a.value = x.claim.value
        /\ a.id[3] = x.candidate.chunk
        /\ \A y \in Range(AcceptedClaims(candidates, policy)) :
              About(y) = About(x) => y.claim.version <= x.claim.version

\* Of two approvals on the same matter both say the same, in one version each.
Agreeing(approvals) ==
    \A i, j \in DOMAIN approvals :
        approvals[i].about = approvals[j].about =>
            /\ approvals[i].value = approvals[j].value
            /\ approvals[i].version = approvals[j].version => i = j

\* Every approval, before the limits, is backed and contradicts no other.
LEMMA ApprovalsAreBacked ==
    ASSUME NEW candidates, Claiming(candidates), NEW policy
    PROVE  LET approvals == Approvals(candidates, policy)
           IN  /\ approvals \in Seq(Range(approvals))
               /\ \A i \in DOMAIN approvals : Backed(approvals[i], candidates, policy)
               /\ Agreeing(approvals)
<1> DEFINE S == AcceptedItems(candidates, policy)
           all == AcceptedClaims(candidates, policy)
           once == WithoutDuplicates(all)
           fresh == Fresh(once)
           kept == Consistent(fresh, policy.conflicts)
           ranked == Ranked(kept)
           approvals == Approvals(candidates, policy)
<1>1. all \in Seq(S)
  BY AcceptedClaimsType
<1> HIDE DEF S
<1>2. /\ once \in Seq(S) /\ Distinct(once)
      /\ \A x \in Range(all) : \E y \in Range(once) : Says(y) = Says(x)
  BY <1>1, WithoutDuplicatesKeeps
<1> HIDE DEF once
<1>3. /\ fresh \in Seq(S) /\ Distinct(fresh) /\ Range(fresh) \subseteq Range(once)
      /\ \A x \in Range(fresh), y \in Range(once) :
            About(y) = About(x) => y.claim.version <= x.claim.version
  BY <1>2, FreshKeeps
<1> HIDE DEF fresh
<1>4. /\ kept \in Seq(S) /\ Distinct(kept) /\ Range(kept) \subseteq Range(fresh)
      /\ \A x, y \in Range(kept) : About(y) = About(x) => y.claim.value = x.claim.value
  BY <1>3, ConsistentKeeps
<1> HIDE DEF kept
<1>5. /\ ranked \in Seq(S) /\ Distinct(ranked)
      /\ Range(ranked) \subseteq Range(kept)
  BY <1>4, RankedKeeps
<1>6. approvals = [i \in DOMAIN ranked |-> Approval(ranked[i], kept)]
  BY DEF Approvals, kept, fresh, once
<1> HIDE DEF ranked, approvals, all
<1>7. DOMAIN approvals = DOMAIN ranked /\ DOMAIN ranked = 1..Len(ranked)
      /\ Len(ranked) \in Nat
      /\ \A i \in DOMAIN ranked : ranked[i] \in S /\ ranked[i] \in Range(ranked)
  BY <1>5, <1>6 DEF Range
<1>8. approvals \in Seq(Range(approvals))
  BY <1>6, <1>7 DEF Range
<1>9. \A i \in DOMAIN ranked :
         /\ approvals[i].document = ranked[i].candidate.document
         /\ approvals[i].version = ranked[i].claim.version
         /\ approvals[i].about = About(ranked[i])
         /\ approvals[i].value = ranked[i].claim.value
         /\ approvals[i].id[3] = ranked[i].candidate.chunk
  BY <1>6 DEF Approval
<1>10. ASSUME NEW i \in DOMAIN approvals
       PROVE  Backed(approvals[i], candidates, policy)
  <2> DEFINE x == ranked[i]
  <2>1. x \in S /\ x \in Range(fresh)
    BY <1>4, <1>5, <1>7
  <2>2. ASSUME NEW y \in Range(all), About(y) = About(x)
        PROVE  y.claim.version <= x.claim.version
    <3>1. PICK z \in Range(once) : Says(z) = Says(y)
      BY <1>2
    <3>2. About(z) = About(y) /\ z.claim.version = y.claim.version
      BY <3>1 DEF Says
    <3>3. z.claim.version <= x.claim.version
      BY <1>3, <2>1, <2>2, <3>2
    <3> QED
      BY <3>2, <3>3
  <2>3. \A y \in Range(all) : About(y) = About(x) => y.claim.version <= x.claim.version
    BY <2>2
  <2> HIDE DEF x
  <2>4. /\ approvals[i].document = x.candidate.document
        /\ approvals[i].version = x.claim.version
        /\ approvals[i].about = About(x)
        /\ approvals[i].value = x.claim.value
        /\ approvals[i].id[3] = x.candidate.chunk
    BY <1>7, <1>9 DEF x
  <2> QED
    BY <2>1, <2>3, <2>4 DEF Backed, S, all
<1>11. Agreeing(approvals)
  <2> SUFFICES ASSUME NEW i \in DOMAIN ranked, NEW j \in DOMAIN ranked,
                      approvals[i].about = approvals[j].about
               PROVE  /\ approvals[i].value = approvals[j].value
                      /\ approvals[i].version = approvals[j].version => i = j
    BY <1>7 DEF Agreeing
  <2>1. About(ranked[i]) = About(ranked[j])
    BY <1>9
  <2>2. ranked[i].claim.value = ranked[j].claim.value
    BY <1>4, <1>5, <1>7, <2>1
  <2>3. ASSUME ranked[i].claim.version = ranked[j].claim.version
        PROVE  i = j
    <3>1. Says(ranked[i]) = Says(ranked[j])
      BY <2>1, <2>2, <2>3 DEF Says
    <3> QED
      BY <1>5, <3>1 DEF Distinct
  <2> QED
    BY <1>9, <2>2, <2>3
<1> QED
  BY <1>8, <1>10, <1>11 DEF approvals

\* The limits take nothing of this away.
LEMMA ValidateIsBacked ==
    ASSUME NEW candidates, Claiming(candidates), NEW policy
    PROVE  LET approved == Validate(candidates, policy)
           IN  /\ approved \in Seq(Range(approved))
               /\ \A i \in DOMAIN approved : Backed(approved[i], candidates, policy)
               /\ Agreeing(approved)
<1> DEFINE all == Approvals(candidates, policy)
           approved == Validate(candidates, policy)
<1>1. /\ all \in Seq(Range(all))
      /\ \A i \in DOMAIN all : Backed(all[i], candidates, policy)
      /\ Agreeing(all)
  BY ApprovalsAreBacked
<1>2. \E places : approved = Only(all, places)
  <2>1. approved = WithinLimits(all, policy)
    BY DEF Validate, Approvals
  <2> HIDE DEF all
  <2> QED
    BY <2>1 DEF WithinLimits
<1> HIDE DEF all, approved
<1>3. PICK places : approved = Only(all, places)
  BY <1>2
<1> DEFINE P == places \cap DOMAIN all
<1>4. approved \in Seq(Range(all)) /\ Picks(approved, all, P)
  BY <1>1, <1>3, OnlyPicks
<1>5. P \in SUBSET DOMAIN all
  OBVIOUS
<1> HIDE DEF P
<1>6. approved \in Seq(Range(approved))
  BY <1>4 DEF Range
<1>7. \A i \in DOMAIN approved : Backed(approved[i], candidates, policy)
  BY <1>1, <1>4, <1>5 DEF Picks
<1>8. Agreeing(approved)
  <2> SUFFICES ASSUME NEW i \in DOMAIN approved, NEW j \in DOMAIN approved,
                      approved[i].about = approved[j].about
               PROVE  /\ approved[i].value = approved[j].value
                      /\ approved[i].version = approved[j].version => i = j
    BY DEF Agreeing
  <2>1. CASE i = j
    BY <2>1
  <2>2. CASE i # j
    <3>1. PICK a \in P, b \in P : a # b /\ approved[i] = all[a] /\ approved[j] = all[b]
      BY <1>4, <2>2 DEF Picks
    <3> QED
      BY <1>1, <1>5, <3>1 DEF Agreeing
  <2> QED
    BY <2>1, <2>2
<1> QED
  BY <1>6, <1>7, <1>8 DEF approved

-----------------------------------------------------------------------------
(* Teaching: what is approved is split into what is taught and what waits.  *)

\* The step of Split at an item: it is taught unless there is a reason not to.
SplitStep(ranked, input) ==
    [k \in 1..Len(ranked) |-> [T \in SUBSET (1..Len(ranked)) |->
        IF Suppression(ranked[k], input, Cardinality(T)) = None
        THEN T \cup {k} ELSE T]]

\* Split takes its steps in the order of the ranking.
LEMMA SplitLeads ==
    ASSUME NEW input, NEW S, RankedForTopic(input) \in Seq(S)
    PROVE  LET ranked == RankedForTopic(input)
               n == Len(ranked)
           IN  \E taught : /\ Split(input) = SplitBy(ranked, input, taught)
                           /\ Leads(n, SUBSET (1..n), {}, SplitStep(ranked, input), taught[n])
<1> DEFINE ranked == RankedForTopic(input)
           n == Len(ranked)
           X == SUBSET (1..n)
           step == SplitStep(ranked, input)
           next(T, k) == IF Suppression(ranked[k], input, Cardinality(T)) = None
                         THEN T \cup {k} ELSE T
           Taught(g) == g = [k \in 0..n |-> IF k = 0 THEN {} ELSE
               IF Suppression(ranked[k], input, Cardinality(g[k - 1])) = None
               THEN g[k - 1] \cup {k} ELSE g[k - 1]]
<1>1. n \in Nat /\ {} \in X
  OBVIOUS
<1>2. \A k \in 1..n : \A T \in X : next(T, k) \in X
  OBVIOUS
<1>3. \A k \in 1..n : \A T \in X : step[k][T] = next(T, k)
  BY DEF SplitStep
<1>4. step \in [1..n -> [X -> X]]
  BY <1>2 DEF SplitStep
<1> HIDE DEF X, step
<1>5. \E g : Taught(g)
  <2>1. PICK g \in [0..n -> X] : Stepwise(n, {}, step, g)
    BY <1>1, <1>4, Recursion
  <2>2. \A k \in 1..n : k # 0 /\ g[k - 1] \in X /\ k \in 0..n
    BY <1>1
  <2>3. \A k \in 0..n : k # 0 => k \in 1..n
    BY <1>1
  <2> HIDE DEF n, ranked
  <2>4. \A k \in 0..n : g[k] = IF k = 0 THEN {} ELSE next(g[k - 1], k)
    <3> HIDE DEF next
    <3> QED
      BY <2>1, <2>2, <2>3, <1>3 DEF Stepwise
  <2> QED
    BY <2>4
<1> DEFINE g == CHOOSE g : Taught(g)
<1>6. Taught(g)
  BY <1>5
<1>7. Split(input) = SplitBy(ranked, input, g)
  BY DEF Split
<1> HIDE DEF g, n, ranked
<1>8. Follows(n, X, {}, step, g)
  <2>1. \A k \in 1..n : k # 0 /\ k \in 0..n
    BY <1>1
  <2>2. \A k \in 0..n : g[k] = IF k = 0 THEN {} ELSE next(g[k - 1], k)
    BY <1>6, Zenon
  <2> HIDE DEF next
  <2>3. /\ g[0] = {}
        /\ \A k \in 1..n : g[k] = next(g[k - 1], k)
    BY <2>1, <1>1, <2>2
  <2>4. g = [k \in 0..n |-> g[k]]
    BY <1>6
  <2> QED
    BY <2>3, <2>4, <1>3 DEF Follows
<1>9. Leads(n, X, {}, step, g[n])
  BY <1>1, <1>4, <1>8, FollowLeads
<1> QED
  BY <1>7, <1>9 DEF X, step, n, ranked

\* A prospect may be told one, two or four things at a time.
LEMMA MostIsSome ==
    ASSUME NEW input
    PROVE  MostTaught(Disclosure(input)) \in {1, 2, 4}
<1>1. Disclosure(input) \in {"minimal", "moderate", "full"}
  BY DEF Disclosure
<1> QED
  BY <1>1 DEF MostTaught

\* Places of items that are not suppressed, no more than the prospect may be told.
Teachable(input, ranked, n, taught) ==
    /\ taught \in SUBSET (1..n)
    /\ Cardinality(taught) <= MostTaught(Disclosure(input))
    /\ \A i \in taught : \E c : Suppression(ranked[i], input, c) = None

\* Nothing suppressed is taught, and no more than a prospect may be told.
LEMMA TaughtWithinMost ==
    ASSUME NEW input, NEW ranked, NEW n \in Nat, n = Len(ranked), NEW taught,
           Leads(n, SUBSET (1..n), {}, SplitStep(ranked, input), taught)
    PROVE  Teachable(input, ranked, n, taught)
<1> DEFINE most == MostTaught(Disclosure(input))
           Free(i) == \E c : Suppression(ranked[i], input, c) = None
           I == [k \in 0..n |-> {T \in SUBSET (1..k) :
                                    /\ Cardinality(T) <= most
                                    /\ \A i \in T : Free(i)}]
           step == SplitStep(ranked, input)
<1>1. most \in {1, 2, 4}
  BY MostIsSome
<1>2. {} \in I[0]
  <2>1. Cardinality({}) = 0
    BY FS_EmptySet
  <2>2. 0 \in 0..n
    OBVIOUS
  <2> HIDE DEF most, Free
  <2> QED
    BY <1>1, <2>1, <2>2
<1>3. ASSUME NEW k \in 1..n, NEW T \in I[k - 1]
      PROVE  step[k][T] \in I[k]
  <2>1. k - 1 \in 0..n /\ k \in 0..n /\ 1..(k - 1) \subseteq 1..k /\ k \in 1..k
        /\ 1..(k - 1) \subseteq 1..n /\ k \notin 1..(k - 1)
    OBVIOUS
  <2> HIDE DEF most, Free
  <2>2. T \in SUBSET (1..(k - 1)) /\ Cardinality(T) <= most /\ \A i \in T : Free(i)
    BY <2>1
  <2>3. T \in SUBSET (1..n)
    BY <2>1, <2>2
  <2>4. step[k][T] = IF Suppression(ranked[k], input, Cardinality(T)) = None
                     THEN T \cup {k} ELSE T
    BY <2>3 DEF SplitStep
  <2>5. CASE Suppression(ranked[k], input, Cardinality(T)) = None
    <3>1. ~(Cardinality(T) >= most)
      BY <2>5, SuppressionAssumption DEF Suppression, most
    <3>2. Free(k)
      BY <2>5 DEF Free
    <3>3. IsFiniteSet(T)
      <4>1. k - 1 \in Int /\ 1 \in Int
        OBVIOUS
      <4>2. IsFiniteSet(1..(k - 1))
        BY <4>1, FS_Interval
      <4> QED
        BY <2>2, <4>2, FS_Subset
    <3>4. Cardinality(T) \in Nat /\ Cardinality(T \cup {k}) = Cardinality(T) + 1
      BY <3>3, <2>1, <2>2, FS_CardinalityType, FS_AddElement
    <3>5. Cardinality(T \cup {k}) <= most
      BY <3>1, <3>4, <1>1
    <3>6. T \cup {k} \in SUBSET (1..k) /\ \A i \in T \cup {k} : Free(i)
      BY <2>1, <2>2, <3>2
    <3> QED
      BY <2>1, <2>4, <2>5, <3>5, <3>6
  <2>6. CASE Suppression(ranked[k], input, Cardinality(T)) # None
    BY <2>1, <2>2, <2>4, <2>6
  <2> QED
    BY <2>5, <2>6
<1> HIDE DEF I, step
<1>4. taught \in I[n]
  BY <1>2, <1>3, LeadInduction DEF step
<1>5. n \in 0..n
  OBVIOUS
<1> QED
  BY <1>4, <1>5 DEF I, Teachable

\* All of the evidence is taught or waits with its reason, and none does both.
LEMMA SplitIsSound ==
    ASSUME NEW input, input.evidence \in Seq(Range(input.evidence)),
           \A i, j \in DOMAIN input.evidence :
              input.evidence[i] = input.evidence[j] => i = j
    PROVE  LET split == Split(input)
               withheld == {x.item : x \in Range(split.suppressed)}
           IN  /\ Range(split.selected) \cup withheld = Range(input.evidence)
               /\ Range(split.selected) \cap withheld = {}
               /\ \A e \in Range(split.selected) : \E c : Suppression(e, input, c) = None
               /\ Len(split.selected) <= MostTaught(Disclosure(input))
<1> DEFINE evidence == input.evidence
           E == Range(evidence)
           ranked == RankedForTopic(input)
           n == Len(ranked)
           withheld == {x.item : x \in Range(Split(input).suppressed)}
<1>1. ranked \in Seq(E) /\ Picks(ranked, evidence, DOMAIN evidence)
  <2>1. \E key : ranked = Sorted(evidence, key)
    BY DEF RankedForTopic
  <2> HIDE DEF ranked
  <2> QED
    BY <2>1, SortedPicks
<1> HIDE DEF ranked
<1>2. PICK places :
         /\ Split(input) = SplitBy(ranked, input, places)
         /\ Leads(n, SUBSET (1..n), {}, SplitStep(ranked, input), places[n])
  <2>1. RankedForTopic(input) \in Seq(E)
    BY <1>1 DEF ranked
  <2> QED
    BY <2>1, SplitLeads DEF ranked
<1> DEFINE taught == places[n]
<1>3. n \in Nat /\ DOMAIN ranked = 1..n
  BY <1>1
<1>4. /\ taught \in SUBSET (1..n)
      /\ Cardinality(taught) <= MostTaught(Disclosure(input))
      /\ \A i \in taught : \E c : Suppression(ranked[i], input, c) = None
  <2> HIDE DEF taught
  <2>1. Leads(n, SUBSET (1..n), {}, SplitStep(ranked, input), taught)
    BY <1>2 DEF taught
  <2>2. n = Len(ranked)
    OBVIOUS
  <2> HIDE DEF n
  <2>3. Teachable(input, ranked, n, taught)
    BY <1>3, <2>1, <2>2, TaughtWithinMost, Zenon
  <2> QED
    BY <2>3 DEF Teachable
<1> DEFINE marked == [i \in 1..n |->
                        [item |-> ranked[i],
                         reason |-> Suppression(ranked[i], input,
                                                Cardinality(places[i - 1]))]]
           selected == Only(ranked, taught)
           suppressed == Only(marked, (1..n) \ taught)
<1>5. Split(input).selected = selected /\ Split(input).suppressed = suppressed
  BY <1>2 DEF SplitBy
<1>6. marked \in Seq(Range(marked)) /\ DOMAIN marked = 1..n
      /\ \A i \in 1..n : marked[i].item = ranked[i]
  BY <1>3 DEF Range
<1> HIDE DEF taught, marked, n
<1>7. Picks(selected, ranked, taught) /\ Len(selected) = Cardinality(taught)
  <2>1. taught \cap DOMAIN ranked = taught
    BY <1>3, <1>4
  <2> QED
    BY <1>1, <2>1, OnlyPicks
<1>8. Picks(suppressed, marked, (1..n) \ taught)
  <2>1. ((1..n) \ taught) \cap DOMAIN marked = (1..n) \ taught
    BY <1>6
  <2> QED
    <3> DEFINE S == Range(marked)
               waiting == (1..n) \ taught
    <3>1. marked \in Seq(S)
      BY <1>6
    <3> HIDE DEF S, waiting
    <3>2. Picks(Only(marked, waiting), marked, waiting \cap DOMAIN marked)
      BY <3>1, OnlyPicks
    <3> QED
      BY <2>1, <3>2 DEF waiting, suppressed
<1> HIDE DEF selected, suppressed
<1>9. Range(selected) = {ranked[i] : i \in taught}
  BY <1>7 DEF Picks, Range
<1>10. {x.item : x \in Range(suppressed)} = {ranked[i] : i \in (1..n) \ taught}
  <2>1. Range(suppressed) = {marked[i] : i \in (1..n) \ taught}
    BY <1>8 DEF Picks, Range
  <2> QED
    BY <2>1, <1>6
<1>11. {ranked[i] : i \in 1..n} = E
  BY <1>1, <1>3 DEF Picks, Range
<1>12. \A i, j \in 1..n : ranked[i] = ranked[j] => i = j
  <2> SUFFICES ASSUME NEW i \in 1..n, NEW j \in 1..n, i # j
               PROVE  ranked[i] # ranked[j]
    OBVIOUS
  <2>0. \A k, m \in DOMAIN ranked : k # m =>
            \E a, b \in DOMAIN evidence :
               a # b /\ ranked[k] = evidence[a] /\ ranked[m] = evidence[b]
    BY <1>1, Zenon DEF Picks
  <2>1. PICK a \in DOMAIN evidence, b \in DOMAIN evidence :
            a # b /\ ranked[i] = evidence[a] /\ ranked[j] = evidence[b]
    <3>1. i \in DOMAIN ranked /\ j \in DOMAIN ranked
      BY <1>3
    <3> QED
      BY <2>0, <3>1, Zenon
  <2> QED
    BY <2>1
<1>13. Range(selected) \cup {x.item : x \in Range(suppressed)} = E
  BY <1>4, <1>9, <1>10, <1>11
<1>14. Range(selected) \cap {x.item : x \in Range(suppressed)} = {}
  <2> SUFFICES ASSUME NEW e \in {ranked[i] : i \in taught},
                      e \in {ranked[i] : i \in (1..n) \ taught}
               PROVE  FALSE
    BY <1>9, <1>10
  <2>1. PICK i \in taught, j \in (1..n) \ taught : e = ranked[i] /\ e = ranked[j]
    OBVIOUS
  <2>2. i \in 1..n /\ j \in 1..n /\ i # j
    BY <1>4
  <2> QED
    BY <1>12, <2>1, <2>2
<1>15. \A e \in Range(selected) : \E c : Suppression(e, input, c) = None
  BY <1>4, <1>9
<1>16. Len(selected) <= MostTaught(Disclosure(input))
  BY <1>4, <1>7
<1> QED
  BY <1>5, <1>13, <1>14, <1>15, <1>16

\* The teaching of distinct evidence is sound.
LEMMA TeachingIsSound ==
    ASSUME NEW input, input.evidence \in Seq(Range(input.evidence)),
           \A i, j \in DOMAIN input.evidence :
              input.evidence[i] = input.evidence[j] => i = j
    PROVE  LET teaching == Design(input)
               taught == Range(teaching.selected)
               withheld == {x.item : x \in Range(teaching.suppressed)}
           IN  /\ taught \cup withheld = Range(input.evidence)
               /\ taught \cap withheld = {}
               /\ \A e \in taught : e.id \notin input.told
               /\ input.guidance.trust \in Distrust =>
                     \A e \in taught : e.group # "commercial_policy"
               /\ {item.evidence : item \in Range(Compose(teaching, input).items)} = taught
               /\ Len(teaching.selected) <= teaching.most
               /\ teaching.saturated => taught = {}
<1> DEFINE teaching == Design(input)
           split == Split(input)
           taught == Range(teaching.selected)
           withheld == {x.item : x \in Range(teaching.suppressed)}
<1>1. /\ teaching.selected = split.selected /\ teaching.suppressed = split.suppressed
      /\ teaching.most = MostTaught(Disclosure(input))
      /\ teaching.saturated = Saturated(input)
  BY DEF Design
<1> HIDE DEF teaching
<1>2. /\ taught \cup withheld = Range(input.evidence)
      /\ taught \cap withheld = {}
      /\ \A e \in taught : \E c : Suppression(e, input, c) = None
      /\ Len(teaching.selected) <= teaching.most
  BY <1>1, SplitIsSound
<1>3. \A e \in taught : e.id \notin input.told /\ ~IsPremature(e, input)
  <2> SUFFICES ASSUME NEW e \in taught
               PROVE  e.id \notin input.told /\ ~IsPremature(e, input)
    OBVIOUS
  <2>1. PICK c : Suppression(e, input, c) = None
    BY <1>2
  <2> QED
    BY <2>1, SuppressionAssumption DEF Suppression
<1>4. input.guidance.trust \in Distrust =>
          \A e \in taught : e.group # "commercial_policy"
  BY <1>3 DEF IsPremature
<1>5. {item.evidence : item \in Range(Compose(teaching, input).items)} = taught
  <2> DEFINE items == Compose(teaching, input).items
  <2>1. DOMAIN items = DOMAIN teaching.selected
        /\ \A i \in DOMAIN teaching.selected : items[i].evidence = teaching.selected[i]
    BY DEF Compose
  <2> HIDE DEF items
  <2>2. {item.evidence : item \in Range(items)} = taught
    BY <2>1 DEF Range
  <2> QED
    BY <2>2 DEF items
<1>6. teaching.saturated => taught = {}
  <2> SUFFICES ASSUME Saturated(input)
               PROVE  taught = {}
    BY <1>1
  <2>1. \A e \in Range(input.evidence) : e.id \in input.told
    BY DEF Saturated
  <2> HIDE DEF taught
  <2> QED
    BY <1>2, <1>3, <2>1
<1> QED
  BY <1>2, <1>3, <1>4, <1>5, <1>6 DEF teaching

-----------------------------------------------------------------------------
(* The registry: versions go forward and one of a document is published.    *)

\* What the registry holds of a version.
Version == [id : VersionIds, status : {"draft", "published", "archived"},
            checksum : Contents, format : {Declared[c] : c \in Contents}]

\* The registry lists the versions of every document.
LibraryType == library \in [Documents -> Seq(Version)]

\* One version of a document is published at a time.
OnePublished ==
    \A d \in Documents : \A i, j \in DOMAIN library[d] :
        library[d][i].status = "published" /\ library[d][j].status = "published"
            => i = j

\* Every snapshot is of a version, of its content, and of no other's.
SnapshotsOfVersions ==
    /\ \A p \in DOMAIN snapshots :
          /\ \E d \in Documents, n \in Nat : p = <<d, n>> /\ n \in DOMAIN library[d]
          /\ snapshots[p].id = library[p[1]][p[2]].id
          /\ snapshots[p].checksum = library[p[1]][p[2]].checksum
          /\ snapshots[p].checksum \in Contents \cap checksums
          /\ Prepared[snapshots[p].checksum] # None
          /\ snapshots[p].chunks = Prepared[snapshots[p].checksum]
    /\ \A p, q \in DOMAIN snapshots :
          snapshots[p].checksum = snapshots[q].checksum => p = q

\* What was indexed as published was published then.
IndexOfVersions ==
    \A e \in index :
        /\ e.document \in Documents /\ e.version \in DOMAIN library[e.document]
        /\ e.status = "published" => library[e.document][e.version].status # "draft"
        /\ \A i \in DOMAIN e.chunks :
              e.chunks[i].claims \in Seq(Range(e.chunks[i].claims))

\* The inductive invariant.
IInv ==
    /\ LibraryType
    /\ OnePublished
    /\ SnapshotsOfVersions
    /\ IndexOfVersions
    /\ ApprovedIsSound
    /\ TeachesWhatItMay

\* What a step of the registry keeps of every version.
Forward ==
    \A d \in Documents : \A n \in DOMAIN library[d] :
        /\ n \in DOMAIN library'[d]
        /\ library'[d][n].id = library[d][n].id
        /\ library'[d][n].checksum = library[d][n].checksum
        /\ \/ library'[d][n].status = library[d][n].status
           \/ library[d][n].status = "draft"
           \/ library'[d][n].status = "archived"
        /\ library[d][n].status # "draft" => library'[d][n].status # "draft"

\* A new version is a draft behind the others.
LEMMA AddVersionForward ==
    ASSUME LibraryType, OnePublished,
           NEW d \in Documents, NEW id \in VersionIds, NEW c \in Contents,
           AddVersion(d, id, c)
    PROVE  LibraryType' /\ OnePublished' /\ Forward
<1> DEFINE v == [id |-> id, status |-> "draft", checksum |-> c, format |-> Declared[c]]
           old == library[d]
           new == Append(old, v)
<1>1. v \in Version /\ v.status = "draft"
  BY DEF Version
<1> HIDE DEF v
<1>2. old \in Seq(Version)
  BY DEF LibraryType
<1>3. /\ new \in Seq(Version) /\ DOMAIN old \subseteq DOMAIN new
      /\ \A n \in DOMAIN old : new[n] = old[n]
      /\ \A n \in DOMAIN new : n \notin DOMAIN old => new[n].status = "draft"
  BY <1>1, <1>2
<1>4. library' = [library EXCEPT ![d] = new]
  BY DEF AddVersion, v
<1>5. library'[d] = new /\ \A e \in Documents : e # d => library'[e] = library[e]
  BY <1>4 DEF LibraryType
<1>6. LibraryType'
  BY <1>3, <1>4 DEF LibraryType
<1> HIDE DEF new, old
<1>7. old = library[d]
  BY DEF old
<1>8. OnePublished'
  <2> SUFFICES ASSUME NEW e \in Documents, NEW i \in DOMAIN library'[e],
                      NEW j \in DOMAIN library'[e],
                      library'[e][i].status = "published",
                      library'[e][j].status = "published"
               PROVE  i = j
    BY DEF OnePublished
  <2>1. CASE e = d
    <3>1. i \in DOMAIN old /\ j \in DOMAIN old
      BY <1>3, <1>5, <2>1
    <3> QED
      BY <1>3, <1>5, <1>7, <2>1, <3>1 DEF OnePublished
  <2>2. CASE e # d
    BY <1>5, <2>2 DEF OnePublished
  <2> QED
    BY <2>1, <2>2
<1>9. Forward
  <2> SUFFICES ASSUME NEW e \in Documents, NEW n \in DOMAIN library[e]
               PROVE  n \in DOMAIN library'[e] /\ library'[e][n] = library[e][n]
    BY DEF Forward
  <2>1. CASE e = d
    BY <1>3, <1>5, <1>7, <2>1
  <2>2. CASE e # d
    BY <1>5, <2>2
  <2> QED
    BY <2>1, <2>2
<1> QED
  BY <1>6, <1>8, <1>9

\* Versions of the same places whose status alone changes.
Restated(old, new) ==
    /\ new = [i \in DOMAIN old |-> new[i]]
    /\ \A i \in DOMAIN old :
          /\ new[i] \in Version
          /\ new[i].id = old[i].id /\ new[i].checksum = old[i].checksum
          /\ \/ new[i].status = old[i].status
             \/ old[i].status = "draft" \/ new[i].status = "archived"
          /\ old[i].status # "draft" => new[i].status # "draft"
    /\ \A i, j \in DOMAIN old :
          new[i].status = "published" /\ new[j].status = "published" => i = j

\* A registry whose versions change no more than their status goes forward.
LEMMA RestatedForward ==
    ASSUME LibraryType, OnePublished, NEW d \in Documents, NEW new,
           Restated(library[d], new), library' = [library EXCEPT ![d] = new]
    PROVE  LibraryType' /\ OnePublished' /\ Forward
<1>1. library'[d] = new /\ \A e \in Documents : e # d => library'[e] = library[e]
  BY DEF LibraryType
<1>2. library[d] \in Seq(Version) /\ DOMAIN library[d] = 1..Len(library[d])
      /\ Len(library[d]) \in Nat
  BY DEF LibraryType
<1>3. new \in Seq(Version) /\ DOMAIN new = DOMAIN library[d]
  <2>1. new = [i \in DOMAIN library[d] |-> new[i]]
        /\ \A i \in DOMAIN library[d] : new[i] \in Version
    BY DEF Restated
  <2>2. new \in [1..Len(library[d]) -> Version]
    BY <1>2, <2>1, Zenon
  <2> QED
    BY <1>2, <2>2
<1>4. LibraryType'
  BY <1>3 DEF LibraryType
<1>5. OnePublished'
  <2> SUFFICES ASSUME NEW e \in Documents, NEW i \in DOMAIN library'[e],
                      NEW j \in DOMAIN library'[e],
                      library'[e][i].status = "published",
                      library'[e][j].status = "published"
               PROVE  i = j
    BY DEF OnePublished
  <2>1. CASE e = d
    BY <1>1, <1>3, <2>1 DEF Restated
  <2>2. CASE e # d
    BY <1>1, <2>2 DEF OnePublished
  <2> QED
    BY <2>1, <2>2
<1>6. Forward
  <2> SUFFICES ASSUME NEW e \in Documents, NEW n \in DOMAIN library[e]
               PROVE  /\ n \in DOMAIN library'[e]
                      /\ library'[e][n].id = library[e][n].id
                      /\ library'[e][n].checksum = library[e][n].checksum
                      /\ \/ library'[e][n].status = library[e][n].status
                         \/ library[e][n].status = "draft"
                         \/ library'[e][n].status = "archived"
                      /\ library[e][n].status # "draft" => library'[e][n].status # "draft"
    BY DEF Forward
  <2>1. CASE e = d
    BY <1>1, <1>3, <2>1 DEF Restated
  <2>2. CASE e # d
    BY <1>1, <2>2
  <2> QED
    BY <2>1, <2>2
<1> QED
  BY <1>4, <1>5, <1>6

\* Publishing archives the one published before and so leaves one.
LEMMA PublishForward ==
    ASSUME LibraryType, OnePublished, NEW d \in Documents, NEW n, Publish(d, n)
    PROVE  LibraryType' /\ OnePublished' /\ Forward
<1> DEFINE old == library[d]
           new == Published(old, n)
<1>1. old \in Seq(Version) /\ n \in DOMAIN old /\ old[n].status = "draft"
      /\ library' = [library EXCEPT ![d] = new]
  BY DEF Publish, LibraryType
<1>2. \A i \in DOMAIN old : old[i] \in Version
  BY <1>1
<1>3. \A i \in DOMAIN old :
         /\ [old[i] EXCEPT !.status = "published"] \in Version
         /\ [old[i] EXCEPT !.status = "published"].id = old[i].id
         /\ [old[i] EXCEPT !.status = "published"].checksum = old[i].checksum
         /\ [old[i] EXCEPT !.status = "published"].status = "published"
         /\ [old[i] EXCEPT !.status = "archived"] \in Version
         /\ [old[i] EXCEPT !.status = "archived"].id = old[i].id
         /\ [old[i] EXCEPT !.status = "archived"].checksum = old[i].checksum
         /\ [old[i] EXCEPT !.status = "archived"].status = "archived"
  BY <1>2 DEF Version
<1>4. new = [i \in DOMAIN old |->
                IF i = n THEN [old[i] EXCEPT !.status = "published"]
                ELSE IF old[i].status = "published"
                THEN [old[i] EXCEPT !.status = "archived"] ELSE old[i]]
  BY DEF Published
<1> HIDE DEF new, old
<1>5. \A i \in DOMAIN old :
         new[i] = IF i = n THEN [old[i] EXCEPT !.status = "published"]
                  ELSE IF old[i].status = "published"
                  THEN [old[i] EXCEPT !.status = "archived"] ELSE old[i]
  BY <1>4
<1>6. new = [i \in DOMAIN old |-> new[i]]
  BY <1>4
<1>7. \A i \in DOMAIN old :
          /\ new[i] \in Version
          /\ new[i].id = old[i].id /\ new[i].checksum = old[i].checksum
          /\ \/ new[i].status = old[i].status
             \/ old[i].status = "draft" \/ new[i].status = "archived"
          /\ old[i].status # "draft" => new[i].status # "draft"
          /\ new[i].status = "published" => i = n
  <2> SUFFICES ASSUME NEW i \in DOMAIN old
               PROVE  /\ new[i] \in Version
                      /\ new[i].id = old[i].id /\ new[i].checksum = old[i].checksum
                      /\ \/ new[i].status = old[i].status
                         \/ old[i].status = "draft" \/ new[i].status = "archived"
                      /\ old[i].status # "draft" => new[i].status # "draft"
                      /\ new[i].status = "published" => i = n
    OBVIOUS
  <2>1. CASE i = n
    <3>1. new[i] = [old[i] EXCEPT !.status = "published"]
      BY <1>5, <2>1
    <3> QED
      BY <1>1, <1>3, <2>1, <3>1
  <2>2. CASE i # n /\ old[i].status = "published"
    <3>1. new[i] = [old[i] EXCEPT !.status = "archived"]
      BY <1>5, <2>2
    <3> QED
      BY <1>3, <2>2, <3>1
  <2>3. CASE i # n /\ old[i].status # "published"
    <3>1. new[i] = old[i]
      BY <1>5, <2>3
    <3> QED
      BY <1>2, <2>3, <3>1
  <2> QED
    BY <2>1, <2>2, <2>3
<1>8. Restated(old, new)
  BY <1>6, <1>7 DEF Restated
<1> QED
  BY <1>1, <1>8, RestatedForward DEF old

\* Archiving leaves none.
LEMMA ArchiveForward ==
    ASSUME LibraryType, OnePublished, NEW d \in Documents, NEW n, ArchiveVersion(d, n)
    PROVE  LibraryType' /\ OnePublished' /\ Forward
<1> DEFINE old == library[d]
           v == [old[n] EXCEPT !.status = "archived"]
           new == [old EXCEPT ![n] = v]
<1>1. old \in Seq(Version) /\ n \in DOMAIN old
      /\ library' = [library EXCEPT ![d] = new]
  BY DEF ArchiveVersion, LibraryType
<1>2. \A i \in DOMAIN old : old[i] \in Version
  BY <1>1
<1>3. /\ v \in Version /\ v.id = old[n].id /\ v.checksum = old[n].checksum
      /\ v.status = "archived"
  BY <1>1, <1>2 DEF Version
<1>4. new = [i \in DOMAIN old |-> IF i = n THEN v ELSE old[i]]
  OBVIOUS
<1>5. \A i, j \in DOMAIN old :
          old[i].status = "published" /\ old[j].status = "published" => i = j
  BY DEF OnePublished
<1> HIDE DEF new, old, v
<1>6. \A i \in DOMAIN old : new[i] = IF i = n THEN v ELSE old[i]
  BY <1>4
<1>7. new = [i \in DOMAIN old |-> new[i]]
  BY <1>4
<1>8. Restated(old, new)
  BY <1>2, <1>3, <1>5, <1>6, <1>7 DEF Restated
<1> QED
  BY <1>1, <1>8, RestatedForward DEF old

\* Where no two versions are published, one at most is.
LEMMA OneIsOne ==
    ASSUME NEW versions,
           \A i, j \in DOMAIN versions :
              versions[i].status = "published" /\ versions[j].status = "published"
                  => i = j
    PROVE  Cardinality({n \in DOMAIN versions : versions[n].status = "published"}) <= 1
<1> DEFINE P == {n \in DOMAIN versions : versions[n].status = "published"}
<1>1. \A i, j \in P : i = j
  OBVIOUS
<1> HIDE DEF P
<1>2. CASE P = {}
  BY <1>2, FS_EmptySet DEF P
<1>3. CASE P # {}
  <2>1. PICK n \in P : P = {n}
    BY <1>1, <1>3
  <2>2. Cardinality(P) = 1
    BY <2>1, FS_Singleton
  <2> QED
    BY <2>2 DEF P
<1> QED
  BY <1>2, <1>3

\* A registry that goes forward keeps the invariant: nothing that was built
\* from it depends on what may change.
LEMMA RegistryStep ==
    ASSUME IInv, LibraryType', OnePublished', Forward, answer = None,
           UNCHANGED <<checksums, snapshots, index, told, answer>>
    PROVE  IInv'
<1>1. SnapshotsOfVersions'
  <2>1. ASSUME NEW p \in DOMAIN snapshots
        PROVE  /\ \E d \in Documents, n \in Nat : p = <<d, n>> /\ n \in DOMAIN library'[d]
               /\ snapshots[p].id = library'[p[1]][p[2]].id
               /\ snapshots[p].checksum = library'[p[1]][p[2]].checksum
               /\ snapshots[p].checksum \in Contents \cap checksums
               /\ Prepared[snapshots[p].checksum] # None
               /\ snapshots[p].chunks = Prepared[snapshots[p].checksum]
    <3>1. /\ \E d \in Documents, n \in Nat : p = <<d, n>> /\ n \in DOMAIN library[d]
          /\ snapshots[p].id = library[p[1]][p[2]].id
          /\ snapshots[p].checksum = library[p[1]][p[2]].checksum
          /\ snapshots[p].checksum \in Contents \cap checksums
          /\ Prepared[snapshots[p].checksum] # None
          /\ snapshots[p].chunks = Prepared[snapshots[p].checksum]
      BY DEF IInv, SnapshotsOfVersions
    <3>2. PICK d \in Documents, n \in Nat : p = <<d, n>> /\ n \in DOMAIN library[d]
      BY <3>1
    <3>3. p[1] = d /\ p[2] = n
      BY <3>2
    <3>4. /\ n \in DOMAIN library'[d]
          /\ library'[d][n].id = library[d][n].id
          /\ library'[d][n].checksum = library[d][n].checksum
      BY <3>2 DEF Forward
    <3> QED
      BY <3>1, <3>2, <3>3, <3>4
  <2>2. \A p, q \in DOMAIN snapshots :
            snapshots[p].checksum = snapshots[q].checksum => p = q
    BY DEF IInv, SnapshotsOfVersions
  <2>3. snapshots' = snapshots /\ checksums' = checksums
    OBVIOUS
  <2> QED
    BY <2>1, <2>2, <2>3 DEF SnapshotsOfVersions
<1>2. IndexOfVersions'
  <2>1. ASSUME NEW e \in index
        PROVE  /\ e.document \in Documents /\ e.version \in DOMAIN library'[e.document]
               /\ e.status = "published" => library'[e.document][e.version].status # "draft"
               /\ \A i \in DOMAIN e.chunks :
                     e.chunks[i].claims \in Seq(Range(e.chunks[i].claims))
    BY DEF IInv, IndexOfVersions, Forward
  <2> QED
    BY <2>1 DEF IndexOfVersions
<1>3. answer' = None
  OBVIOUS
<1> QED
  BY <1>1, <1>2, <1>3 DEF IInv, ApprovedIsSound, TeachesWhatItMay

\* A snapshot is of the content of its version, which has none yet.
LEMMA ProcessStep ==
    ASSUME IInv, answer = None, NEW d \in Documents, NEW n \in 1..MaxVersions,
           NEW c \in Contents, Process(d, n, c), UNCHANGED <<index, told, answer>>
    PROVE  IInv'
<1> DEFINE w == <<d, n>>
           s == [id |-> library[d][n].id, checksum |-> c, chunks |-> Prepared[c]]
<1>1. n \in Nat /\ n \in DOMAIN library[d]
  BY LimitAssumption DEF Process
<1>2. /\ c = library[d][n].checksum /\ w \notin DOMAIN snapshots
      /\ c \notin checksums /\ Prepared[c] # None
  <2>1. ProcessingFailure(d, n, c) = None
    BY DEF Process
  <2>2. c = library[d][n].checksum
    BY <2>1, FailureAssumption DEF ProcessingFailure
  <2>3. w \notin DOMAIN snapshots
    BY <2>1, <2>2, FailureAssumption DEF ProcessingFailure
  <2>4. library[d][n].checksum \notin checksums
    BY <2>1, <2>2, <2>3, FailureAssumption DEF ProcessingFailure
  <2>5. Prepared[c] # None
    BY <2>1, <2>2, <2>3, <2>4, FailureAssumption DEF ProcessingFailure
  <2> QED
    BY <2>2, <2>3, <2>4, <2>5
<1>3. /\ library' = library /\ index' = index /\ answer' = None
      /\ checksums' = checksums \cup {c}
  BY DEF Process
<1>4. /\ DOMAIN snapshots' = DOMAIN snapshots \cup {w}
      /\ snapshots'[w] = s
      /\ \A p \in DOMAIN snapshots : snapshots'[p] = snapshots[p]
  <2>1. snapshots' = [p \in DOMAIN snapshots \cup {w} |->
                         IF p = w THEN s ELSE snapshots[p]]
    BY DEF Process
  <2> HIDE DEF w, s
  <2> QED
    BY <2>1, <1>2
<1>5. s.id = library[d][n].id /\ s.checksum = c /\ s.chunks = Prepared[c]
  OBVIOUS
<1> HIDE DEF s
<1>6. w[1] = d /\ w[2] = n
  OBVIOUS
<1>7. \A p \in DOMAIN snapshots :
          /\ \E e \in Documents, m \in Nat : p = <<e, m>> /\ m \in DOMAIN library[e]
          /\ snapshots[p].id = library[p[1]][p[2]].id
          /\ snapshots[p].checksum = library[p[1]][p[2]].checksum
          /\ snapshots[p].checksum \in Contents \cap checksums
          /\ Prepared[snapshots[p].checksum] # None
          /\ snapshots[p].chunks = Prepared[snapshots[p].checksum]
  BY DEF IInv, SnapshotsOfVersions
<1>8. SnapshotsOfVersions'
  <2>1. ASSUME NEW p \in DOMAIN snapshots'
        PROVE  /\ \E e \in Documents, m \in Nat : p = <<e, m>> /\ m \in DOMAIN library[e]
               /\ snapshots'[p].id = library[p[1]][p[2]].id
               /\ snapshots'[p].checksum = library[p[1]][p[2]].checksum
               /\ snapshots'[p].checksum \in Contents \cap checksums'
               /\ Prepared[snapshots'[p].checksum] # None
               /\ snapshots'[p].chunks = Prepared[snapshots'[p].checksum]
    <3>1. CASE p = w
      <4>1. \E e \in Documents, m \in Nat : p = <<e, m>> /\ m \in DOMAIN library[e]
        BY <1>1, <3>1
      <4> HIDE DEF w
      <4> QED
        BY <1>2, <1>3, <1>4, <1>5, <1>6, <3>1, <4>1
    <3>2. CASE p \in DOMAIN snapshots
      <4> HIDE DEF w
      <4> QED
        BY <1>3, <1>4, <1>7, <3>2
    <3> QED
      BY <1>4, <3>1, <3>2
  <2>2. ASSUME NEW p \in DOMAIN snapshots', NEW q \in DOMAIN snapshots',
               snapshots'[p].checksum = snapshots'[q].checksum
        PROVE  p = q
    <3> HIDE DEF w
    <3>1. snapshots'[w].checksum = c
          /\ \A r \in DOMAIN snapshots : snapshots'[r].checksum # c
      BY <1>2, <1>4, <1>5, <1>7
    <3>2. CASE p \in DOMAIN snapshots /\ q \in DOMAIN snapshots
      BY <3>2, <2>2, <1>4 DEF IInv, SnapshotsOfVersions
    <3> QED
      BY <1>4, <2>2, <3>1, <3>2
  <2> QED
    BY <1>3, <2>1, <2>2 DEF SnapshotsOfVersions
<1>9. LibraryType' /\ OnePublished' /\ IndexOfVersions'
  BY <1>3 DEF IInv, LibraryType, OnePublished, IndexOfVersions
<1> QED
  BY <1>3, <1>8, <1>9 DEF IInv, ApprovedIsSound, TeachesWhatItMay

\* What is indexed as published is published now.
LEMMA IndexStep ==
    ASSUME IInv, answer = None, NEW d \in Documents, NEW n, NEW v, Index(d, n, v)
    PROVE  IInv'
<1> DEFINE e == Entry(d, n, v)
           p == <<d, n>>
<1>1. /\ p \in DOMAIN snapshots /\ library' = library /\ snapshots' = snapshots
      /\ checksums' = checksums /\ answer' = None
      /\ \A x \in index' : x \in index \/ x = e
  BY DEF Index, libraryVars
<1>2. n \in DOMAIN library[d]
  <2>1. PICK f \in Documents, m \in Nat : p = <<f, m>> /\ m \in DOMAIN library[f]
    BY <1>1 DEF IInv, SnapshotsOfVersions
  <2> QED
    BY <2>1
<1>3. e.document = d /\ e.version = n /\ e.status = library[d][n].status
      /\ e.chunks = [i \in DOMAIN snapshots[p].chunks |-> IndexedChunk(d, n, i)]
  BY DEF Entry
<1> DEFINE c == snapshots[p].checksum
<1>4. c \in Contents /\ Prepared[c] # None /\ snapshots[p].chunks = Prepared[c]
  BY <1>1 DEF IInv, SnapshotsOfVersions
<1>5. ASSUME NEW i \in DOMAIN e.chunks
      PROVE  e.chunks[i].claims \in Seq(Range(e.chunks[i].claims))
  <2> DEFINE facts == Facts[c][i]
             claims == IndexedChunk(d, n, i).claims
  <2>1. i \in DOMAIN Prepared[c] /\ e.chunks[i] = IndexedChunk(d, n, i)
    BY <1>3, <1>4, <1>5
  <2>2. facts \in Seq(Range(facts))
    BY <1>4, <2>1, FactAssumption
  <2>3. DOMAIN facts = 1..Len(facts) /\ Len(facts) \in Nat
    BY <2>2
  <2>4. \E fact : claims = [k \in DOMAIN facts |-> fact[k]]
    <3> DEFINE fact == IndexedChunk(d, n, i).claims
    <3>1. DOMAIN fact = DOMAIN facts /\ fact = [k \in DOMAIN fact |-> fact[k]]
      BY DEF IndexedChunk
    <3> HIDE DEF fact
    <3>2. claims = fact
      BY DEF fact
    <3> HIDE DEF claims
    <3> QED
      BY <3>1, <3>2
  <2> HIDE DEF facts, claims
  <2>5. PICK fact : claims = [k \in 1..Len(facts) |-> fact[k]]
    BY <2>3, <2>4
  <2>6. claims \in Seq(Range(claims))
    BY <2>3, <2>5 DEF Range
  <2> QED
    BY <2>1, <2>6 DEF claims
<1> HIDE DEF e, p, c
<1>6. IndexOfVersions'
  <2> SUFFICES ASSUME NEW x \in index'
               PROVE  /\ x.document \in Documents /\ x.version \in DOMAIN library[x.document]
                      /\ x.status = "published" =>
                            library[x.document][x.version].status # "draft"
                      /\ \A i \in DOMAIN x.chunks :
                            x.chunks[i].claims \in Seq(Range(x.chunks[i].claims))
    BY <1>1 DEF IndexOfVersions
  <2>1. CASE x \in index
    BY <2>1 DEF IInv, IndexOfVersions
  <2>2. CASE x = e
    <3>1. /\ e.document \in Documents /\ e.version \in DOMAIN library[e.document]
          /\ e.status = "published" => library[e.document][e.version].status # "draft"
      BY <1>2, <1>3
    <3> QED
      BY <1>5, <2>2, <3>1
  <2> QED
    BY <1>1, <2>1, <2>2
<1>7. LibraryType' /\ OnePublished' /\ SnapshotsOfVersions'
  BY <1>1 DEF IInv, LibraryType, OnePublished, SnapshotsOfVersions
<1> QED
  BY <1>1, <1>6, <1>7 DEF IInv, ApprovedIsSound, TeachesWhatItMay

\* What a turn finds was indexed and answered.
LEMMA FoundIsSourced ==
    ASSUME IndexOfVersions, NEW readable, NEW plan, NEW config, NEW lexical, NEW semantic
    PROVE  LET found == Retrieve(IF readable THEN index ELSE None, plan, config,
                                 lexical, semantic).candidates
           IN  /\ Claiming(found)
               /\ \A i \in DOMAIN found : Sourced(found[i], index, lexical, semantic)
<1> DEFINE idx == IF readable THEN index ELSE None
           found == Retrieve(idx, plan, config, lexical, semantic).candidates
<1>1. CASE readable
  <2>1. /\ found \in Seq(Range(found))
        /\ \A i \in DOMAIN found : Sourced(found[i], index, lexical, semantic)
    BY <1>1, RetrieveSources
  <2> HIDE DEF found
  <2>2. ASSUME NEW i \in DOMAIN found
        PROVE  found[i].claims \in Seq(Range(found[i].claims))
    BY <2>1 DEF Sourced, IndexOfVersions
  <2>3. Claiming(found)
    BY <2>1, <2>2 DEF Claiming
  <2> QED
    BY <2>1, <2>3 DEF found
<1>2. CASE ~readable
  <2>1. found = <<>>
    BY <1>2 DEF Retrieve, NoCandidates
  <2> HIDE DEF found
  <2>2. Claiming(found) /\ DOMAIN found = {}
    <3>1. <<>> \in Seq(Range(<<>>)) /\ DOMAIN <<>> = {}
      BY DEF Range
    <3> QED
      BY <2>1, <3>1 DEF Claiming
  <2> QED
    BY <2>2 DEF found
<1> QED
  BY <1>1, <1>2

\* What is approved of what was found was indexed, published and answered.
LEMMA TurnIsSound ==
    ASSUME IndexOfVersions, NEW found, NEW lexical, NEW semantic, Claiming(found),
           \A i \in DOMAIN found : Sourced(found[i], index, lexical, semantic),
           NEW a \in Range(Validate(found, Policy))
    PROVE  /\ \E e \in index :
                 /\ e.document = a.document /\ e.version = a.version
                 /\ e.status = "published"
                 /\ library[e.document][e.version].status # "draft"
           /\ \E backend \in {lexical, semantic} : a.id[3] \in Answered(backend, index)
           /\ \A b \in Range(Validate(found, Policy)) :
                 b.about = a.about => b.value = a.value
           /\ \A x \in Range(AcceptedClaims(found, Policy)) :
                 About(x) = a.about => x.claim.version <= a.version
<1> DEFINE approved == Validate(found, Policy)
<1>1. /\ approved \in Seq(Range(approved))
      /\ \A i \in DOMAIN approved : Backed(approved[i], found, Policy)
      /\ Agreeing(approved)
  BY ValidateIsBacked
<1> HIDE DEF approved
<1>2. PICK i \in DOMAIN approved : a = approved[i]
  BY DEF approved, Range
<1>3. Backed(a, found, Policy)
  BY <1>1, <1>2
<1>4. PICK x \in AcceptedItems(found, Policy) :
        /\ a.document = x.candidate.document /\ a.version = x.claim.version
        /\ a.about = About(x) /\ a.value = x.claim.value
        /\ a.id[3] = x.candidate.chunk
        /\ \A y \in Range(AcceptedClaims(found, Policy)) :
              About(y) = About(x) => y.claim.version <= x.claim.version
  BY <1>3 DEF Backed
<1>5. PICK j \in DOMAIN found : x.candidate = found[j]
  BY AcceptedIsRight
<1>6. x.claim.version = x.candidate.version
  BY AcceptedIsRight
<1>7. PICK e \in index :
        /\ e.status = "published"
        /\ found[j].document = e.document /\ found[j].version = e.version
        /\ \E backend \in {lexical, semantic} :
              found[j].chunk \in Answered(backend, index)
  BY DEF Sourced
<1>8. /\ e.document = a.document /\ e.version = a.version
      /\ library[e.document][e.version].status # "draft"
  BY <1>4, <1>5, <1>6, <1>7 DEF IndexOfVersions
<1>9. \E backend \in {lexical, semantic} : a.id[3] \in Answered(backend, index)
  BY <1>4, <1>5, <1>7
<1>10. \A b \in Range(approved) : b.about = a.about => b.value = a.value
  BY <1>1, <1>2 DEF Agreeing, Range
<1>11. \A y \in Range(AcceptedClaims(found, Policy)) :
          About(y) = a.about => y.claim.version <= a.version
  BY <1>4
<1> QED
  BY <1>7, <1>8, <1>9, <1>10, <1>11 DEF approved

\* A turn answers soundly.
LEMMA TurnStep ==
    ASSUME IInv, NEW needs, NEW context, NEW config, NEW search,
           NEW situation \in Situations, Turn(needs, context, config, search, situation)
    PROVE  IInv'
<1> DEFINE plan == Plan(needs, Policy, context)
           found == Retrieve(IF search.readable THEN index ELSE None, plan, config,
                             search.lexical, search.semantic)
           approved == Validate(found.candidates, Policy)
           input == [situation EXCEPT !.evidence = approved, !.told = told]
           teaching == Design(input)
           grounded == Compose(teaching, input)
<1>1. /\ answer' = [plan |-> plan, found |-> found, approved |-> approved,
                    input |-> input, teaching |-> teaching,
                    search |-> search, grounded |-> grounded]
      /\ library' = library /\ checksums' = checksums /\ snapshots' = snapshots
      /\ index' = index
  BY DEF Turn, libraryVars
<1>2. /\ Claiming(found.candidates)
      /\ \A i \in DOMAIN found.candidates :
            Sourced(found.candidates[i], index, search.lexical, search.semantic)
  BY FoundIsSourced DEF IInv
<1>3. /\ approved \in Seq(Range(approved))
      /\ \A i \in DOMAIN approved : Backed(approved[i], found.candidates, Policy)
      /\ Agreeing(approved)
  <2> HIDE DEF found
  <2> QED
    BY <1>2, ValidateIsBacked
<1>4. /\ answer'.found = found /\ answer'.approved = approved
      /\ answer'.input = input /\ answer'.teaching = teaching
      /\ answer'.search = search /\ answer'.grounded = grounded
  <2> HIDE DEF plan, found, approved, input, teaching, grounded
  <2> QED
    BY <1>1
<1>5. input.evidence = approved
  <2> HIDE DEF approved
  <2> QED
    BY SituationAssumption
<1>6. ApprovedIsSound'
  <2> SUFFICES ASSUME NEW a \in Range(approved)
               PROVE  /\ \E e \in index :
                            /\ e.document = a.document /\ e.version = a.version
                            /\ e.status = "published"
                            /\ library[e.document][e.version].status # "draft"
                      /\ \E backend \in {search.lexical, search.semantic} :
                            a.id[3] \in Answered(backend, index)
                      /\ \A b \in Range(approved) : b.about = a.about => b.value = a.value
                      /\ \A x \in Range(AcceptedClaims(found.candidates, Policy)) :
                            About(x) = a.about => x.claim.version <= a.version
    <3> HIDE DEF plan, found, approved, input, teaching, grounded
    <3> QED
      BY <1>1, <1>4 DEF ApprovedIsSound
  <2> HIDE DEF found
  <2> QED
    BY <1>2, TurnIsSound DEF IInv
<1>7. \A i, j \in DOMAIN approved : approved[i] = approved[j] => i = j
  <2> HIDE DEF approved
  <2> QED
    BY <1>3 DEF Agreeing
<1>8. TeachesWhatItMay'
  <2> HIDE DEF plan, found, approved, input
  <2>1. /\ input.evidence \in Seq(Range(input.evidence))
        /\ \A i, j \in DOMAIN input.evidence :
              input.evidence[i] = input.evidence[j] => i = j
    BY <1>3, <1>5, <1>7
  <2> DEFINE taught == Range(teaching.selected)
             withheld == {x.item : x \in Range(teaching.suppressed)}
  <2>2. /\ taught \cup withheld = Range(input.evidence)
        /\ taught \cap withheld = {}
        /\ \A e \in taught : e.id \notin input.told
        /\ input.guidance.trust \in Distrust =>
              \A e \in taught : e.group # "commercial_policy"
        /\ {item.evidence : item \in Range(grounded.items)} = taught
        /\ Len(teaching.selected) <= teaching.most
        /\ teaching.saturated => taught = {}
    BY <2>1, TeachingIsSound
  <2> HIDE DEF teaching, grounded
  <2> QED
    BY <1>4, <1>5, <2>2 DEF TeachesWhatItMay
<1>9. LibraryType' /\ OnePublished' /\ SnapshotsOfVersions' /\ IndexOfVersions'
  BY <1>1 DEF IInv, LibraryType, OnePublished, SnapshotsOfVersions, IndexOfVersions
<1> QED
  BY <1>6, <1>8, <1>9 DEF IInv

\* The invariant holds of the empty library.
LEMMA InitInv == Init => IInv
<1> SUFFICES ASSUME Init
             PROVE  IInv
  OBVIOUS
<1>1. /\ library = [d \in Documents |-> <<>>] /\ snapshots = <<>> /\ checksums = {}
      /\ index = {} /\ answer = None
  BY DEF Init, InitLibrary
<1>2. <<>> \in Seq(Version) /\ DOMAIN <<>> = {}
  OBVIOUS
<1>3. LibraryType /\ OnePublished
  BY <1>1, <1>2 DEF LibraryType, OnePublished
<1>4. SnapshotsOfVersions
  BY <1>1, <1>2 DEF SnapshotsOfVersions
<1> QED
  BY <1>1, <1>3, <1>4 DEF IInv, IndexOfVersions, ApprovedIsSound, TeachesWhatItMay

\* A step of the library is a snapshot or takes the registry forward.
LEMMA LibraryStep ==
    ASSUME IInv, LibraryNext
    PROVE  \/ LibraryType' /\ OnePublished' /\ Forward /\ UNCHANGED <<checksums, snapshots>>
           \/ \E d \in Documents, n \in 1..MaxVersions, c \in Contents : Process(d, n, c)
<1>1. CASE \E d \in Documents, id \in VersionIds, c \in Contents : AddVersion(d, id, c)
  <2>1. PICK d \in Documents, id \in VersionIds, c \in Contents : AddVersion(d, id, c)
    BY <1>1
  <2>2. LibraryType' /\ OnePublished' /\ Forward
    BY <2>1, AddVersionForward DEF IInv
  <2> QED
    BY <2>1, <2>2 DEF AddVersion
<1>2. CASE \E d \in Documents, n \in 1..MaxVersions : Publish(d, n)
  <2>1. PICK d \in Documents, n \in 1..MaxVersions : Publish(d, n)
    BY <1>2
  <2>2. LibraryType' /\ OnePublished' /\ Forward
    BY <2>1, PublishForward DEF IInv
  <2> QED
    BY <2>1, <2>2 DEF Publish
<1>3. CASE \E d \in Documents, n \in 1..MaxVersions : ArchiveVersion(d, n)
  <2>1. PICK d \in Documents, n \in 1..MaxVersions : ArchiveVersion(d, n)
    BY <1>3
  <2>2. LibraryType' /\ OnePublished' /\ Forward
    BY <2>1, ArchiveForward DEF IInv
  <2> QED
    BY <2>1, <2>2 DEF ArchiveVersion
<1>4. CASE \E d \in Documents, n \in 1..MaxVersions, c \in Contents : Process(d, n, c)
  BY <1>4
<1> QED
  BY <1>1, <1>2, <1>3, <1>4 DEF LibraryNext

\* Every step keeps the invariant.
LEMMA InvStep == IInv /\ [Next]_vars => IInv'
<1> SUFFICES ASSUME IInv, [Next]_vars
             PROVE  IInv'
  OBVIOUS
<1>1. CASE answer # None /\ Given
  BY <1>1 DEF Given, libraryVars, IInv, LibraryType, OnePublished, SnapshotsOfVersions,
     IndexOfVersions, ApprovedIsSound, TeachesWhatItMay
<1>2. CASE answer = None /\ Keep
  <2>1. LibraryNext /\ UNCHANGED <<index, told, answer>>
    BY <1>2 DEF Keep
  <2>2. CASE LibraryType' /\ OnePublished' /\ Forward /\ UNCHANGED <<checksums, snapshots>>
    BY <1>2, <2>1, <2>2, RegistryStep
  <2>3. CASE \E d \in Documents, n \in 1..MaxVersions, c \in Contents : Process(d, n, c)
    BY <1>2, <2>1, <2>3, ProcessStep
  <2> QED
    BY <2>1, <2>2, <2>3, LibraryStep
<1>3. CASE answer = None /\ \E d \in Documents, n \in 1..MaxVersions, v \in IndexVersions :
                Index(d, n, v)
  BY <1>3, IndexStep
<1>4. CASE /\ answer = None
           /\ \E needs \in Needs, context \in Contexts, config \in Configs,
                 situation \in Situations :
                 \E search \in Searches(index, config) :
                    Turn(needs, context, config, search, situation)
  BY <1>4, TurnStep
<1>5. CASE UNCHANGED vars
  BY <1>5 DEF vars, libraryVars, IInv, LibraryType, OnePublished, SnapshotsOfVersions,
     IndexOfVersions, ApprovedIsSound, TeachesWhatItMay
<1> QED
  BY <1>1, <1>2, <1>3, <1>4, <1>5 DEF Next

\* Every step takes every version forward or leaves it.
LEMMA StepForward == IInv /\ IInv' /\ [Next]_vars =>
    \A d \in Documents :
          /\ \A n \in DOMAIN library[d] :
                /\ n \in DOMAIN library'[d]
                /\ library'[d][n].id = library[d][n].id
                /\ library'[d][n].checksum = library[d][n].checksum
                /\ Step[library'[d][n].status] >= Step[library[d][n].status]
          /\ Cardinality({n \in DOMAIN library'[d] :
                            library'[d][n].status = "published"}) <= 1
<1> SUFFICES ASSUME IInv, IInv', [Next]_vars, NEW d \in Documents
             PROVE  /\ \A n \in DOMAIN library[d] :
                          /\ n \in DOMAIN library'[d]
                          /\ library'[d][n].id = library[d][n].id
                          /\ library'[d][n].checksum = library[d][n].checksum
                          /\ Step[library'[d][n].status] >= Step[library[d][n].status]
                    /\ Cardinality({n \in DOMAIN library'[d] :
                                      library'[d][n].status = "published"}) <= 1
  OBVIOUS
<1>1. Forward
  <2>1. CASE UNCHANGED library
    BY <2>1 DEF Forward
  <2>2. CASE LibraryNext
    <3>1. ASSUME \E e \in Documents, n \in 1..MaxVersions, c \in Contents : Process(e, n, c)
          PROVE  UNCHANGED library
      BY <3>1 DEF Process
    <3> QED
      BY <2>1, <2>2, <3>1, LibraryStep
  <2>3. UNCHANGED library \/ LibraryNext
    <3>1. CASE UNCHANGED vars
      BY <3>1 DEF vars, libraryVars
    <3>2. CASE Given \/ Keep
      BY <3>2 DEF Given, Keep, libraryVars
    <3>3. CASE \E e \in Documents, n \in 1..MaxVersions, v \in IndexVersions : Index(e, n, v)
      BY <3>3 DEF Index, libraryVars
    <3>4. CASE \E needs \in Needs, context \in Contexts, config \in Configs,
                situation \in Situations : \E search \in Searches(index, config) :
                   Turn(needs, context, config, search, situation)
      BY <3>4 DEF Turn, libraryVars
    <3> QED
      BY <3>1, <3>2, <3>3, <3>4 DEF Next
  <2> QED
    BY <2>1, <2>2, <2>3
<1>2. ASSUME NEW n \in DOMAIN library[d]
      PROVE  /\ n \in DOMAIN library'[d]
             /\ library'[d][n].id = library[d][n].id
             /\ library'[d][n].checksum = library[d][n].checksum
             /\ Step[library'[d][n].status] >= Step[library[d][n].status]
  <2>1. /\ n \in DOMAIN library'[d]
        /\ library'[d][n].id = library[d][n].id
        /\ library'[d][n].checksum = library[d][n].checksum
        /\ \/ library'[d][n].status = library[d][n].status
           \/ library[d][n].status = "draft"
           \/ library'[d][n].status = "archived"
    BY <1>1 DEF Forward
  <2>2. /\ library[d][n].status \in {"draft", "published", "archived"}
        /\ library'[d][n].status \in {"draft", "published", "archived"}
    <3>1. library[d] \in Seq(Version) /\ library'[d] \in Seq(Version)
      BY DEF IInv, LibraryType
    <3>2. library[d][n] \in Version /\ library'[d][n] \in Version
      BY <3>1, <2>1
    <3> QED
      BY <3>2 DEF Version
  <2>3. Step["draft"] = 0 /\ Step["published"] = 1 /\ Step["archived"] = 2
    BY DEF Step
  <2>4. Step[library'[d][n].status] >= Step[library[d][n].status]
    BY <2>1, <2>2, <2>3
  <2> QED
    BY <2>1, <2>4
<1>3. Cardinality({n \in DOMAIN library'[d] : library'[d][n].status = "published"}) <= 1
  <2>1. \A i, j \in DOMAIN library'[d] :
            library'[d][i].status = "published" /\ library'[d][j].status = "published"
                => i = j
    BY DEF IInv, OnePublished
  <2> QED
    BY <2>1, OneIsOne
<1> QED
  BY <1>2, <1>3

\* The invariant holds always.
LEMMA Invariance == Spec => []IInv
  BY InitInv, InvStep, PTL DEF Spec

\* However documents are published, archived and indexed between the turns and
\* whatever the backends answer, what a turn approves (EvidenceValidator.validate)
\* was indexed, published by then and answered, and no two approvals differ on a
\* matter.
THEOREM ApprovedCorrect == Spec => []ApprovedIsSound
<1>1. IInv => ApprovedIsSound
  BY DEF IInv
<1> QED
  BY <1>1, Invariance, PTL

\* Whatever was approved, _select_and_suppress teaches it or holds it back and never
\* both; what it teaches was not told before, is all that is grounded, holds no
\* terms while there is no trust, and is no more than the prospect may be told.
THEOREM TeachingCorrect == Spec => []TeachesWhatItMay
<1>1. IInv => TeachesWhatItMay
  BY DEF IInv
<1> QED
  BY <1>1, Invariance, PTL

\* KnowledgeRegistry never takes a version back: a status only goes forward, what a
\* version is of never changes, and one version of a document is published.
THEOREM LifecycleCorrect == Spec => LifecycleForward
<1>1. Spec => []IInv
  BY Invariance
<1> QED
  BY <1>1, StepForward, PTL DEF Spec, LifecycleForward

-----------------------------------------------------------------------------
(* The texts of what has texts: paragraphs, sentences, pieces and chunks.   *)

\* The texts of a list of such things, in their order.
Words(ps) == FlattenSeq([i \in DOMAIN ps |-> ps[i].texts])

\* What has texts.
Texted(R, T) == \A r \in R : r.texts \in Seq(T)

\* A list has a last item, which may be replaced.
Fronted(R, ps, q) ==
    \E front \in Seq(R) :
        /\ ps = Append(front, Last(ps)) /\ Last(ps) \in R
        /\ [ps EXCEPT ![Len(ps)] = q] = Append(front, q)

\* A list is its last item behind the others, also when that is replaced.
LEMMA LastReplaced ==
    ASSUME NEW R, NEW ps \in Seq(R), ps # <<>>, NEW q \in R
    PROVE  Fronted(R, ps, q)
<1> DEFINE n == Len(ps)
           front == [i \in 1..(n - 1) |-> ps[i]]
<1>1. n \in Nat \ {0} /\ DOMAIN ps = 1..n /\ \A i \in 1..n : ps[i] \in R
  OBVIOUS
<1>2. front \in Seq(R) /\ Len(front) = n - 1 /\ \A i \in 1..(n - 1) : front[i] = ps[i]
  BY <1>1
<1>3. Last(ps) = ps[n] /\ ps[n] \in R
  BY <1>1 DEF Last
<1>4. ps = Append(front, ps[n])
  BY <1>1
<1>5. [ps EXCEPT ![n] = q] = Append(front, q)
  <2> DEFINE l == [ps EXCEPT ![n] = q]
             r == Append(front, q)
  <2>1. l \in Seq(R) /\ Len(l) = n /\ \A i \in 1..n : l[i] = IF i = n THEN q ELSE ps[i]
    BY <1>1
  <2>2. r \in Seq(R) /\ Len(r) = n /\ \A i \in 1..n : r[i] = IF i = n THEN q ELSE ps[i]
    <3> HIDE DEF front, n
    <3>1. r \in Seq(R) /\ Len(r) = n /\ r[n] = q
          /\ \A i \in 1..(n - 1) : r[i] = ps[i]
      BY <1>1, <1>2
    <3>2. \A i \in 1..n : i # n => i \in 1..(n - 1)
      BY <1>1
    <3> QED
      BY <3>1, <3>2
  <2> HIDE DEF l, r
  <2>3. l = r
    BY <2>1, <2>2
  <2> QED
    BY <2>3 DEF l, r
<1> QED
  BY <1>2, <1>3, <1>4, <1>5 DEF Fronted

\* The texts of what has texts are texts.
LEMMA WordsType ==
    ASSUME NEW T, NEW R, Texted(R, T), NEW ps \in Seq(R)
    PROVE  Words(ps) \in Seq(T)
<1> DEFINE t == [i \in DOMAIN ps |-> ps[i].texts]
<1>1. t \in Seq(Seq(T))
  BY DEF Texted
<1> HIDE DEF t
<1>2. FlattenSeq(t) \in Seq(T)
  BY <1>1, FlattenType
<1> QED
  BY <1>2 DEF Words, t

\* Nothing has no texts.
LEMMA WordsNone == Words(<<>>) = <<>>
<1>1. [i \in DOMAIN <<>> |-> <<>>[i].texts] = <<>>
  OBVIOUS
<1> QED
  BY <1>1, FlattenNone DEF Words

\* One thing more has its texts behind the others.
LEMMA WordsAppend ==
    ASSUME NEW T, NEW R, Texted(R, T), NEW ps \in Seq(R), NEW p \in R
    PROVE  Words(Append(ps, p)) = Words(ps) \o p.texts
<1> DEFINE t == [i \in DOMAIN ps |-> ps[i].texts]
           q == Append(ps, p)
           u == [i \in DOMAIN q |-> q[i].texts]
<1>1. t \in Seq(Seq(T)) /\ p.texts \in Seq(T) /\ Len(t) = Len(ps)
      /\ \A i \in DOMAIN ps : t[i] = ps[i].texts
  BY DEF Texted
<1>2. q \in Seq(R) /\ Len(q) = Len(ps) + 1 /\ q[Len(ps) + 1] = p
      /\ \A i \in 1..Len(ps) : q[i] = ps[i]
  OBVIOUS
<1>3. u = Append(t, p.texts)
  <2> DEFINE v == Append(t, p.texts)
  <2> HIDE DEF q, t
  <2>1. u \in Seq(Seq(T)) /\ Len(u) = Len(q) /\ \A i \in 1..Len(q) : u[i] = q[i].texts
    BY <1>2 DEF Texted
  <2>2. v \in Seq(Seq(T)) /\ Len(v) = Len(ps) + 1 /\ v[Len(ps) + 1] = p.texts
        /\ \A i \in 1..Len(ps) : v[i] = ps[i].texts
    BY <1>1
  <2> HIDE DEF u, v
  <2>3. u = v
    <3>1. Len(u) = Len(v)
      BY <1>2, <2>1, <2>2
    <3>2. \A i \in 1..Len(v) : u[i] = v[i]
      BY <1>2, <2>1, <2>2
    <3> QED
      BY <2>1, <2>2, <3>1, <3>2
  <2> QED
    BY <2>3 DEF v
<1> HIDE DEF t, u, q
<1>4. FlattenSeq(Append(t, p.texts)) = FlattenSeq(t) \o p.texts
  BY <1>1, FlattenAppend
<1>5. Words(q) = FlattenSeq(u) /\ Words(ps) = FlattenSeq(t)
  BY DEF Words, u, t
<1> QED
  BY <1>3, <1>4, <1>5 DEF q

\* The last thing replaced.
Replaced(ps, q) == [ps EXCEPT ![Len(ps)] = q]

\* q has the texts of the last thing, and then t.
Lengthens(q, ps, t) == ps # <<>> /\ q.texts = Last(ps).texts \o t

\* The last thing replaced by a longer one has what is longer behind the others.
LEMMA WordsReplaced ==
    ASSUME NEW T, NEW R, Texted(R, T), NEW ps \in Seq(R),
           NEW q \in R, NEW t \in Seq(T), Lengthens(q, ps, t)
    PROVE  /\ Replaced(ps, q) \in Seq(R)
           /\ Words(Replaced(ps, q)) = Words(ps) \o t
<1> ps # <<>> /\ q.texts = Last(ps).texts \o t
  BY DEF Lengthens
<1>1. PICK front \in Seq(R) :
         /\ ps = Append(front, Last(ps)) /\ Last(ps) \in R
         /\ [ps EXCEPT ![Len(ps)] = q] = Append(front, q)
  <2>1. Fronted(R, ps, q)
    BY LastReplaced
  <2> QED
    BY <2>1, Zenon DEF Fronted
<1>2. Words(Append(front, q)) = Words(front) \o q.texts
  BY WordsAppend
<1>3. Words(Append(front, Last(ps))) = Words(front) \o Last(ps).texts
  BY <1>1, WordsAppend
<1>4. Words(front) \in Seq(T) /\ Last(ps).texts \in Seq(T)
  BY <1>1, WordsType DEF Texted
<1>5. Words(front) \o (Last(ps).texts \o t) = (Words(front) \o Last(ps).texts) \o t
  <2>1. PICK a, b : a = Words(front) /\ b = Last(ps).texts
    OBVIOUS
  <2>2. a \in Seq(T) /\ b \in Seq(T)
    BY <1>4, <2>1
  <2>3. a \o (b \o t) = (a \o b) \o t
    BY <2>2
  <2> QED
    BY <2>1, <2>3
<1>6. Words(ps) = Words(front) \o Last(ps).texts
  BY <1>1, <1>3
<1>7. Words([ps EXCEPT ![Len(ps)] = q]) = Words(ps) \o t
  BY <1>1, <1>2, <1>5, <1>6
<1>8. Append(front, q) \in Seq(R)
  OBVIOUS
<1> QED
  BY <1>1, <1>7, <1>8 DEF Replaced

\* Two lists have the texts of both.
LEMMA WordsConcat ==
    ASSUME NEW T, NEW R, Texted(R, T), NEW ps \in Seq(R), NEW qs \in Seq(R)
    PROVE  Words(ps \o qs) = Words(ps) \o Words(qs)
<1> DEFINE t == [i \in DOMAIN ps |-> ps[i].texts]
           u == [i \in DOMAIN qs |-> qs[i].texts]
           r == ps \o qs
           v == [i \in DOMAIN r |-> r[i].texts]
<1>1. /\ t \in Seq(Seq(T)) /\ Len(t) = Len(ps) /\ \A i \in 1..Len(ps) : t[i] = ps[i].texts
      /\ u \in Seq(Seq(T)) /\ Len(u) = Len(qs) /\ \A i \in 1..Len(qs) : u[i] = qs[i].texts
  <2>1. t \in Seq(Seq(T)) /\ Len(t) = Len(ps) /\ \A i \in 1..Len(ps) : t[i] = ps[i].texts
    BY DEF Texted
  <2>2. u \in Seq(Seq(T)) /\ Len(u) = Len(qs) /\ \A i \in 1..Len(qs) : u[i] = qs[i].texts
    BY DEF Texted
  <2> QED
    BY <2>1, <2>2
<1>2. /\ r \in Seq(R) /\ Len(r) = Len(ps) + Len(qs)
      /\ \A i \in 1..(Len(ps) + Len(qs)) :
            r[i] = IF i <= Len(ps) THEN ps[i] ELSE qs[i - Len(ps)]
  BY ConcatProperties
<1> DEFINE w == t \o u
<1>3. /\ w \in Seq(Seq(T)) /\ Len(w) = Len(t) + Len(u)
      /\ \A i \in 1..(Len(t) + Len(u)) : w[i] = IF i <= Len(t) THEN t[i] ELSE u[i - Len(t)]
  <2> HIDE DEF t, u
  <2>1. PICK S : S = Seq(T)
    OBVIOUS
  <2>2. t \in Seq(S) /\ u \in Seq(S)
    BY <1>1, <2>1
  <2>3. /\ w \in Seq(S) /\ Len(w) = Len(t) + Len(u)
        /\ \A i \in 1..(Len(t) + Len(u)) : w[i] = IF i <= Len(t) THEN t[i] ELSE u[i - Len(t)]
    BY <2>2, ConcatProperties
  <2> QED
    BY <2>1, <2>3
<1>4. v = w
  <2> HIDE DEF r, t, u, w
  <2>1. v \in Seq(Seq(T)) /\ Len(v) = Len(r) /\ \A i \in 1..Len(r) : v[i] = r[i].texts
    BY <1>2 DEF Texted
  <2> HIDE DEF v
  <2>2. Len(v) = Len(w)
    BY <1>1, <1>2, <1>3, <2>1
  <2>3. ASSUME NEW i \in 1..Len(w)
        PROVE  v[i] = w[i]
    <3>1. i \in 1..(Len(ps) + Len(qs)) /\ i \in 1..(Len(t) + Len(u)) /\ i \in 1..Len(r)
      BY <1>1, <1>2, <1>3
    <3>2. CASE i <= Len(ps)
      <4>1. i \in 1..Len(ps)
        BY <3>1, <3>2
      <4> QED
        BY <1>1, <1>2, <1>3, <2>1, <3>1, <3>2, <4>1
    <3>3. CASE ~(i <= Len(ps))
      <4>1. i - Len(ps) \in 1..Len(qs)
        BY <3>1, <3>3
      <4> QED
        BY <1>1, <1>2, <1>3, <2>1, <3>1, <3>3, <4>1
    <3> QED
      BY <3>2, <3>3
  <2> QED
    BY <1>3, <2>1, <2>2, <2>3
<1>5. FlattenSeq(w) = FlattenSeq(t) \o FlattenSeq(u)
  <2> HIDE DEF t, u
  <2> QED
    BY <1>1, FlattenConcat
<1>6. Words(r) = FlattenSeq(v) /\ Words(ps) = FlattenSeq(t) /\ Words(qs) = FlattenSeq(u)
  BY DEF Words
<1> HIDE DEF v, w, t, u
<1> QED
  BY <1>4, <1>5, <1>6

\* The texts of lists one after the other are their texts one after the other.
LEMMA WordsFlatten ==
    ASSUME NEW T, NEW R, Texted(R, T), NEW pp \in Seq(Seq(R))
    PROVE  Words(FlattenSeq(pp)) = FlattenSeq([i \in DOMAIN pp |-> Words(pp[i])])
<1> DEFINE W == Seq(R)
           ww(x) == [i \in DOMAIN x |-> Words(x[i])]
           K == {k \in Nat : \A x \in Seq(W) : Len(x) = k =>
                    Words(FlattenSeq(x)) = FlattenSeq(ww(x))}
<1>1. 0 \in K
  <2> SUFFICES ASSUME NEW x \in Seq(W), Len(x) = 0
               PROVE  Words(FlattenSeq(x)) = FlattenSeq(ww(x))
    OBVIOUS
  <2>1. x = <<>> /\ ww(x) = <<>>
    OBVIOUS
  <2> QED
    BY <2>1, FlattenNone, WordsNone
<1>2. ASSUME NEW k \in Nat, k \in K
      PROVE  k + 1 \in K
  <2> SUFFICES ASSUME NEW x \in Seq(W), Len(x) = k + 1
               PROVE  Words(FlattenSeq(x)) = FlattenSeq(ww(x))
    OBVIOUS
  <2> DEFINE front == [i \in 1..k |-> x[i]]
             y == x[k + 1]
  <2>1. \A i \in 1..(k + 1) : x[i] \in W
    OBVIOUS
  <2>2. front \in Seq(W) /\ Len(front) = k /\ y \in W /\ \A i \in 1..k : front[i] = x[i]
    BY <2>1
  <2>3. x = Append(front, y)
    OBVIOUS
  <2>4. DOMAIN x = 1..(k + 1) /\ DOMAIN front = 1..k
    OBVIOUS
  <2> HIDE DEF front
  <2>5. /\ \A i \in 1..k : Words(front[i]) \in Seq(T)
        /\ Words(y) \in Seq(T)
    BY <2>1, <2>2, WordsType
  <2>6. ww(x) = Append(ww(front), Words(y)) /\ ww(front) \in Seq(Seq(T))
    <3> DEFINE a == ww(front)
               b == ww(x)
    <3>1. a \in Seq(Seq(T)) /\ Len(a) = k /\ \A i \in 1..k : a[i] = Words(x[i])
      BY <2>2, <2>4, <2>5
    <3>2. b = [i \in 1..(k + 1) |-> Words(x[i])]
      BY <2>4
    <3>3. \A i \in 1..(k + 1) : i # k + 1 => i \in 1..k
      OBVIOUS
    <3>4. \A i \in 1..(k + 1) : Words(x[i]) \in Seq(T)
      BY <2>2, <2>5, <3>3
    <3>5. b \in Seq(Seq(T)) /\ Len(b) = k + 1 /\ \A i \in 1..(k + 1) : b[i] = Words(x[i])
      BY <3>2, <3>4
    <3> HIDE DEF a, b
    <3> DEFINE c == Append(a, Words(y))
    <3>6. c \in Seq(Seq(T)) /\ Len(c) = k + 1 /\ c[k + 1] = Words(x[k + 1])
          /\ \A i \in 1..k : c[i] = Words(x[i])
      <4>1. PICK z, S : z = Words(y) /\ S = Seq(T)
        OBVIOUS
      <4>2. a \in Seq(S) /\ z \in S /\ c = Append(a, z)
        BY <3>1, <2>5, <4>1
      <4> HIDE DEF c
      <4>3. c \in Seq(S) /\ Len(c) = Len(a) + 1 /\ c[Len(a) + 1] = z
            /\ \A i \in 1..Len(a) : c[i] = a[i]
        BY <4>2
      <4> QED
        BY <3>1, <4>1, <4>3 DEF y
    <3> HIDE DEF c
    <3>7. b = c
      <4>1. \A i \in 1..(k + 1) : b[i] = c[i]
        BY <3>3, <3>5, <3>6
      <4> QED
        BY <3>5, <3>6, <4>1
    <3> QED
      BY <3>1, <3>7 DEF a, b, c
  <2> HIDE DEF y, ww
  <2>7. FlattenSeq(x) = FlattenSeq(front) \o y
    BY <2>2, <2>3, FlattenAppend
  <2>8. FlattenSeq(front) \in W
    BY <2>2, FlattenType
  <2>9. Words(FlattenSeq(x)) = Words(FlattenSeq(front)) \o Words(y)
    BY <2>2, <2>7, <2>8, WordsConcat, SMTT(20)
  <2>10. Words(FlattenSeq(front)) = FlattenSeq(ww(front))
    BY <1>2, <2>2
  <2>11. FlattenSeq(Append(ww(front), Words(y))) = FlattenSeq(ww(front)) \o Words(y)
    BY <2>5, <2>6, FlattenAppend
  <2> QED
    BY <2>6, <2>9, <2>10, <2>11
<1> HIDE DEF K
<1>3. \A k \in Nat : k \in K
  BY <1>1, <1>2, Counting
<1>4. Len(pp) \in Nat
  OBVIOUS
<1> QED
  BY <1>3, <1>4 DEF K

\* The step of Joined at a line.
JoinLineStep(s, X) == [k \in 1..Len(s) |-> [x \in X |-> JoinLine(x, s[k])]]

\* Joined is the result of its steps.
LEMMA JoinLineLeads ==
    ASSUME NEW X, NEW Y, NEW base \in X, NEW s \in Seq(Y),
           \A x \in X, y \in Y : JoinLine(x, y) \in X
    PROVE  Leads(Len(s), X, base, JoinLineStep(s, X), FoldLeft(JoinLine, base, s))
<1> DEFINE n == Len(s)
           step == JoinLineStep(s, X)
           Iterates(f) == f = [U \in SUBSET (DOMAIN s) |->
                               IF U = {} THEN base
                               ELSE JoinLine(f[U \ {Max(U)}], s[Max(U)])]
<1>1. n \in Nat /\ DOMAIN s = 1..n /\ \A k \in 1..n : s[k] \in Y
  OBVIOUS
<1>2. \A k \in 1..n, x \in X : step[k][x] = JoinLine(x, s[k]) /\ JoinLine(x, s[k]) \in X
  BY <1>1 DEF JoinLineStep
<1>3. step \in [1..n -> [X -> X]]
  BY <1>2 DEF JoinLineStep
<1> HIDE DEF step
<1>4. \A U \in SUBSET (1..n) : U # {} => Max(U) \in 1..n /\ U \ {Max(U)} \in SUBSET (1..n)
  BY <1>1, MaxIsIn
<1> HIDE DEF n
<1>5. \E f : Iterates(f)
  <2>1. Foldable(n, X, base, step)
    BY <1>1, <1>3, Folding, Zenon
  <2>2. PICK f \in [SUBSET (1..n) -> X] : Folded(n, base, step, f)
    BY <2>1, Zenon DEF Foldable
  <2>3. ASSUME NEW U \in SUBSET (1..n)
        PROVE  f[U] = IF U = {} THEN base ELSE JoinLine(f[U \ {Max(U)}], s[Max(U)])
    <3>1. CASE U = {}
      BY <2>2, <3>1 DEF Folded
    <3>2. CASE U # {}
      <4>1. f[U] = step[Max(U)][f[U \ {Max(U)}]]
        BY <2>2, <3>2 DEF Folded
      <4>2. Max(U) \in 1..n /\ f[U \ {Max(U)}] \in X
        BY <1>4, <3>2
      <4> QED
        BY <1>2, <3>2, <4>1, <4>2
    <3> QED
      BY <3>1, <3>2
  <2>4. f = [U \in SUBSET (DOMAIN s) |-> f[U]]
    BY <1>1
  <2> QED
    BY <1>1, <2>3, <2>4, Zenon
<1> DEFINE f == CHOOSE f : Iterates(f)
<1>6. Iterates(f)
  BY <1>5
<1>7. FoldLeft(JoinLine, base, s) = f[DOMAIN s]
  BY Zenon DEF FoldLeft, MapThenFoldSet
<1> HIDE DEF f
<1>8. Folds(n, X, base, step, f)
  <2>1. \A U \in SUBSET (1..n) :
           f[U] = IF U = {} THEN base ELSE JoinLine(f[U \ {Max(U)}], s[Max(U)])
    BY <1>1, <1>6, Zenon
  <2>2. {} \in SUBSET (1..n)
    OBVIOUS
  <2> QED
    BY <1>2, <1>4, <2>1, <2>2 DEF Folds
<1>9. Leads(n, X, base, step, f[1..n])
  BY <1>1, <1>3, <1>8, FoldLeads
<1> QED
  BY <1>1, <1>7, <1>9 DEF step, n

\* The step of a block at a paragraph.
ParagraphStep(s, X) == [k \in 1..Len(s) |-> [x \in X |-> AddParagraph(x, s[k])]]

\* The paragraphs of a block are added step by step.
LEMMA AddParagraphLeads ==
    ASSUME NEW X, NEW Y, NEW base \in X, NEW s \in Seq(Y),
           \A x \in X, y \in Y : AddParagraph(x, y) \in X
    PROVE  Leads(Len(s), X, base, ParagraphStep(s, X), FoldLeft(AddParagraph, base, s))
<1> DEFINE n == Len(s)
           step == ParagraphStep(s, X)
           Iterates(f) == f = [U \in SUBSET (DOMAIN s) |->
                               IF U = {} THEN base
                               ELSE AddParagraph(f[U \ {Max(U)}], s[Max(U)])]
<1>1. n \in Nat /\ DOMAIN s = 1..n /\ \A k \in 1..n : s[k] \in Y
  OBVIOUS
<1>2. \A k \in 1..n, x \in X : step[k][x] = AddParagraph(x, s[k]) /\ AddParagraph(x, s[k]) \in X
  BY <1>1 DEF ParagraphStep
<1>3. step \in [1..n -> [X -> X]]
  BY <1>2 DEF ParagraphStep
<1> HIDE DEF step
<1>4. \A U \in SUBSET (1..n) : U # {} => Max(U) \in 1..n /\ U \ {Max(U)} \in SUBSET (1..n)
  BY <1>1, MaxIsIn
<1> HIDE DEF n
<1>5. \E f : Iterates(f)
  <2>1. Foldable(n, X, base, step)
    BY <1>1, <1>3, Folding, Zenon
  <2>2. PICK f \in [SUBSET (1..n) -> X] : Folded(n, base, step, f)
    BY <2>1, Zenon DEF Foldable
  <2>3. ASSUME NEW U \in SUBSET (1..n)
        PROVE  f[U] = IF U = {} THEN base ELSE AddParagraph(f[U \ {Max(U)}], s[Max(U)])
    <3>1. CASE U = {}
      BY <2>2, <3>1 DEF Folded
    <3>2. CASE U # {}
      <4>1. f[U] = step[Max(U)][f[U \ {Max(U)}]]
        BY <2>2, <3>2 DEF Folded
      <4>2. Max(U) \in 1..n /\ f[U \ {Max(U)}] \in X
        BY <1>4, <3>2
      <4> QED
        BY <1>2, <3>2, <4>1, <4>2
    <3> QED
      BY <3>1, <3>2
  <2>4. f = [U \in SUBSET (DOMAIN s) |-> f[U]]
    BY <1>1
  <2> QED
    BY <1>1, <2>3, <2>4, Zenon
<1> DEFINE f == CHOOSE f : Iterates(f)
<1>6. Iterates(f)
  BY <1>5
<1>7. FoldLeft(AddParagraph, base, s) = f[DOMAIN s]
  BY Zenon DEF FoldLeft, MapThenFoldSet
<1> HIDE DEF f
<1>8. Folds(n, X, base, step, f)
  <2>1. \A U \in SUBSET (1..n) :
           f[U] = IF U = {} THEN base ELSE AddParagraph(f[U \ {Max(U)}], s[Max(U)])
    BY <1>1, <1>6, Zenon
  <2>2. {} \in SUBSET (1..n)
    OBVIOUS
  <2> QED
    BY <1>2, <1>4, <2>1, <2>2 DEF Folds
<1>9. Leads(n, X, base, step, f[1..n])
  BY <1>1, <1>3, <1>8, FoldLeads
<1> QED
  BY <1>1, <1>7, <1>9 DEF step, n

\* The step of Sections at a block.
BlockStep(s, X) == [k \in 1..Len(s) |-> [x \in X |-> AddBlock(x, s[k])]]

\* The blocks are added step by step.
LEMMA AddBlockLeads ==
    ASSUME NEW X, NEW Y, NEW base \in X, NEW s \in Seq(Y),
           \A x \in X, y \in Y : AddBlock(x, y) \in X
    PROVE  Leads(Len(s), X, base, BlockStep(s, X), FoldLeft(AddBlock, base, s))
<1> DEFINE n == Len(s)
           step == BlockStep(s, X)
           Iterates(f) == f = [U \in SUBSET (DOMAIN s) |->
                               IF U = {} THEN base
                               ELSE AddBlock(f[U \ {Max(U)}], s[Max(U)])]
<1>1. n \in Nat /\ DOMAIN s = 1..n /\ \A k \in 1..n : s[k] \in Y
  OBVIOUS
<1>2. \A k \in 1..n, x \in X : step[k][x] = AddBlock(x, s[k]) /\ AddBlock(x, s[k]) \in X
  BY <1>1 DEF BlockStep
<1>3. step \in [1..n -> [X -> X]]
  BY <1>2 DEF BlockStep
<1> HIDE DEF step
<1>4. \A U \in SUBSET (1..n) : U # {} => Max(U) \in 1..n /\ U \ {Max(U)} \in SUBSET (1..n)
  BY <1>1, MaxIsIn
<1> HIDE DEF n
<1>5. \E f : Iterates(f)
  <2>1. Foldable(n, X, base, step)
    BY <1>1, <1>3, Folding, Zenon
  <2>2. PICK f \in [SUBSET (1..n) -> X] : Folded(n, base, step, f)
    BY <2>1, Zenon DEF Foldable
  <2>3. ASSUME NEW U \in SUBSET (1..n)
        PROVE  f[U] = IF U = {} THEN base ELSE AddBlock(f[U \ {Max(U)}], s[Max(U)])
    <3>1. CASE U = {}
      BY <2>2, <3>1 DEF Folded
    <3>2. CASE U # {}
      <4>1. f[U] = step[Max(U)][f[U \ {Max(U)}]]
        BY <2>2, <3>2 DEF Folded
      <4>2. Max(U) \in 1..n /\ f[U \ {Max(U)}] \in X
        BY <1>4, <3>2
      <4> QED
        BY <1>2, <3>2, <4>1, <4>2
    <3> QED
      BY <3>1, <3>2
  <2>4. f = [U \in SUBSET (DOMAIN s) |-> f[U]]
    BY <1>1
  <2> QED
    BY <1>1, <2>3, <2>4, Zenon
<1> DEFINE f == CHOOSE f : Iterates(f)
<1>6. Iterates(f)
  BY <1>5
<1>7. FoldLeft(AddBlock, base, s) = f[DOMAIN s]
  BY Zenon DEF FoldLeft, MapThenFoldSet
<1> HIDE DEF f
<1>8. Folds(n, X, base, step, f)
  <2>1. \A U \in SUBSET (1..n) :
           f[U] = IF U = {} THEN base ELSE AddBlock(f[U \ {Max(U)}], s[Max(U)])
    BY <1>1, <1>6, Zenon
  <2>2. {} \in SUBSET (1..n)
    OBVIOUS
  <2> QED
    BY <1>2, <1>4, <2>1, <2>2 DEF Folds
<1>9. Leads(n, X, base, step, f[1..n])
  BY <1>1, <1>3, <1>8, FoldLeads
<1> QED
  BY <1>1, <1>7, <1>9 DEF step, n

\* The step of Sentences at a paragraph.
SentenceStep(s, X) == [k \in 1..Len(s) |-> [x \in X |-> JoinParagraph(x, s[k])]]

\* Sentences is the result of its steps.
LEMMA JoinParagraphLeads ==
    ASSUME NEW X, NEW Y, NEW base \in X, NEW s \in Seq(Y),
           \A x \in X, y \in Y : JoinParagraph(x, y) \in X
    PROVE  Leads(Len(s), X, base, SentenceStep(s, X), FoldLeft(JoinParagraph, base, s))
<1> DEFINE n == Len(s)
           step == SentenceStep(s, X)
           Iterates(f) == f = [U \in SUBSET (DOMAIN s) |->
                               IF U = {} THEN base
                               ELSE JoinParagraph(f[U \ {Max(U)}], s[Max(U)])]
<1>1. n \in Nat /\ DOMAIN s = 1..n /\ \A k \in 1..n : s[k] \in Y
  OBVIOUS
<1>2. \A k \in 1..n, x \in X : step[k][x] = JoinParagraph(x, s[k]) /\ JoinParagraph(x, s[k]) \in X
  BY <1>1 DEF SentenceStep
<1>3. step \in [1..n -> [X -> X]]
  BY <1>2 DEF SentenceStep
<1> HIDE DEF step
<1>4. \A U \in SUBSET (1..n) : U # {} => Max(U) \in 1..n /\ U \ {Max(U)} \in SUBSET (1..n)
  BY <1>1, MaxIsIn
<1> HIDE DEF n
<1>5. \E f : Iterates(f)
  <2>1. Foldable(n, X, base, step)
    BY <1>1, <1>3, Folding, Zenon
  <2>2. PICK f \in [SUBSET (1..n) -> X] : Folded(n, base, step, f)
    BY <2>1, Zenon DEF Foldable
  <2>3. ASSUME NEW U \in SUBSET (1..n)
        PROVE  f[U] = IF U = {} THEN base ELSE JoinParagraph(f[U \ {Max(U)}], s[Max(U)])
    <3>1. CASE U = {}
      BY <2>2, <3>1 DEF Folded
    <3>2. CASE U # {}
      <4>1. f[U] = step[Max(U)][f[U \ {Max(U)}]]
        BY <2>2, <3>2 DEF Folded
      <4>2. Max(U) \in 1..n /\ f[U \ {Max(U)}] \in X
        BY <1>4, <3>2
      <4> QED
        BY <1>2, <3>2, <4>1, <4>2
    <3> QED
      BY <3>1, <3>2
  <2>4. f = [U \in SUBSET (DOMAIN s) |-> f[U]]
    BY <1>1
  <2> QED
    BY <1>1, <2>3, <2>4, Zenon
<1> DEFINE f == CHOOSE f : Iterates(f)
<1>6. Iterates(f)
  BY <1>5
<1>7. FoldLeft(JoinParagraph, base, s) = f[DOMAIN s]
  BY Zenon DEF FoldLeft, MapThenFoldSet
<1> HIDE DEF f
<1>8. Folds(n, X, base, step, f)
  <2>1. \A U \in SUBSET (1..n) :
           f[U] = IF U = {} THEN base ELSE JoinParagraph(f[U \ {Max(U)}], s[Max(U)])
    BY <1>1, <1>6, Zenon
  <2>2. {} \in SUBSET (1..n)
    OBVIOUS
  <2> QED
    BY <1>2, <1>4, <2>1, <2>2 DEF Folds
<1>9. Leads(n, X, base, step, f[1..n])
  BY <1>1, <1>3, <1>8, FoldLeads
<1> QED
  BY <1>1, <1>7, <1>9 DEF step, n

\* The step of SplitText at a piece.
FillStep(s, X) == [k \in 1..Len(s) |-> [x \in X |-> Fill(x, s[k])]]

\* The pieces are put into chunks step by step.
LEMMA FillLeads ==
    ASSUME NEW X, NEW Y, NEW base \in X, NEW s \in Seq(Y),
           \A x \in X, y \in Y : Fill(x, y) \in X
    PROVE  Leads(Len(s), X, base, FillStep(s, X), FoldLeft(Fill, base, s))
<1> DEFINE n == Len(s)
           step == FillStep(s, X)
           Iterates(f) == f = [U \in SUBSET (DOMAIN s) |->
                               IF U = {} THEN base
                               ELSE Fill(f[U \ {Max(U)}], s[Max(U)])]
<1>1. n \in Nat /\ DOMAIN s = 1..n /\ \A k \in 1..n : s[k] \in Y
  OBVIOUS
<1>2. \A k \in 1..n, x \in X : step[k][x] = Fill(x, s[k]) /\ Fill(x, s[k]) \in X
  BY <1>1 DEF FillStep
<1>3. step \in [1..n -> [X -> X]]
  BY <1>2 DEF FillStep
<1> HIDE DEF step
<1>4. \A U \in SUBSET (1..n) : U # {} => Max(U) \in 1..n /\ U \ {Max(U)} \in SUBSET (1..n)
  BY <1>1, MaxIsIn
<1> HIDE DEF n
<1>5. \E f : Iterates(f)
  <2>1. Foldable(n, X, base, step)
    BY <1>1, <1>3, Folding, Zenon
  <2>2. PICK f \in [SUBSET (1..n) -> X] : Folded(n, base, step, f)
    BY <2>1, Zenon DEF Foldable
  <2>3. ASSUME NEW U \in SUBSET (1..n)
        PROVE  f[U] = IF U = {} THEN base ELSE Fill(f[U \ {Max(U)}], s[Max(U)])
    <3>1. CASE U = {}
      BY <2>2, <3>1 DEF Folded
    <3>2. CASE U # {}
      <4>1. f[U] = step[Max(U)][f[U \ {Max(U)}]]
        BY <2>2, <3>2 DEF Folded
      <4>2. Max(U) \in 1..n /\ f[U \ {Max(U)}] \in X
        BY <1>4, <3>2
      <4> QED
        BY <1>2, <3>2, <4>1, <4>2
    <3> QED
      BY <3>1, <3>2
  <2>4. f = [U \in SUBSET (DOMAIN s) |-> f[U]]
    BY <1>1
  <2> QED
    BY <1>1, <2>3, <2>4, Zenon
<1> DEFINE f == CHOOSE f : Iterates(f)
<1>6. Iterates(f)
  BY <1>5
<1>7. FoldLeft(Fill, base, s) = f[DOMAIN s]
  BY Zenon DEF FoldLeft, MapThenFoldSet
<1> HIDE DEF f
<1>8. Folds(n, X, base, step, f)
  <2>1. \A U \in SUBSET (1..n) :
           f[U] = IF U = {} THEN base ELSE Fill(f[U \ {Max(U)}], s[Max(U)])
    BY <1>1, <1>6, Zenon
  <2>2. {} \in SUBSET (1..n)
    OBVIOUS
  <2> QED
    BY <1>2, <1>4, <2>1, <2>2 DEF Folds
<1>9. Leads(n, X, base, step, f[1..n])
  BY <1>1, <1>3, <1>8, FoldLeads
<1> QED
  BY <1>1, <1>7, <1>9 DEF step, n

-----------------------------------------------------------------------------
(* What an upload is read as: paragraphs of its lines, in sections.         *)

\* The paragraphs of the lines of L.
ParagraphsOf(L) ==
    [texts : Seq({l.text : l \in L}), length : Nat \ {0},
     ends : {l.ends : l \in L}, kind : {l.kind : l \in L} \cup {"upper", "plain"}]

\* No line is empty.
Sized(L) == \A l \in L : l.length \in Nat \ {0}

\* A line joins a paragraph or makes one.
LEMMA JoinLineType ==
    ASSUME NEW L, Sized(L), NEW ps \in Seq(ParagraphsOf(L)), NEW l \in L
    PROVE  JoinLine(ps, l) \in Seq(ParagraphsOf(L))
<1> DEFINE P == ParagraphsOf(L)
           T == {m.text : m \in L}
           p == Paragraph(l)
<1>1. p \in P
  BY DEF Paragraph, ParagraphsOf, Sized
<1>2. CASE ps = <<>>
  <2> HIDE DEF P, p
  <2> QED
    BY <1>1, <1>2 DEF JoinLine, P, p
<1>3. CASE ps # <<>> /\ Last(ps).ends # "open"
  <2>1. JoinLine(ps, l) = Append(ps, p)
    BY <1>3 DEF JoinLine
  <2> HIDE DEF P, p
  <2>2. ps \in Seq(P)
    BY DEF P
  <2>3. Append(ps, p) \in Seq(P)
    BY <1>1, <2>2
  <2> QED
    BY <2>1, <2>3 DEF P
<1>4. CASE ps # <<>> /\ Last(ps).ends = "open"
  <2> DEFINE q == Continued(ps[Len(ps)], l)
  <2>1. JoinLine(ps, l) = [ps EXCEPT ![Len(ps)] = q]
    BY <1>4 DEF JoinLine
  <2>2. ps[Len(ps)] \in P
    <3> HIDE DEF P
    <3>1. ps \in Seq(P)
      BY DEF P
    <3> QED
      BY <1>4, <3>1
  <2>3. q \in P
    <3>1. PICK o \in P : o = ps[Len(ps)]
      BY <2>2
    <3>2. /\ o.texts \in Seq(T) /\ o.length \in Nat \ {0} /\ l.text \in T
          /\ l.length \in Nat \ {0} /\ l.ends \in {m.ends : m \in L}
      BY DEF ParagraphsOf, Sized
    <3>3. Append(o.texts, l.text) \in Seq(T)
      <4> HIDE DEF T
      <4> QED
        BY <3>2
    <3>4. o.length + 1 + l.length \in Nat \ {0}
      BY <3>2
    <3>5. Continued(o, l) \in P
      BY <3>2, <3>3, <3>4 DEF Continued, ParagraphsOf
    <3> QED
      BY <3>1, <3>5
  <2> HIDE DEF q, P
  <2>4. ps \in Seq(P)
    BY DEF P
  <2>5. [ps EXCEPT ![Len(ps)] = q] \in Seq(P)
    <3>1. PICK o \in P : o = q
      BY <2>3
    <3>2. Len(ps) \in 1..Len(ps)
      BY <1>4, <2>4
    <3>3. [ps EXCEPT ![Len(ps)] = o] \in Seq(P)
      BY <2>4, <3>2
    <3> QED
      BY <3>1, <3>3
  <2> QED
    BY <2>1, <2>5 DEF P
<1> QED
  BY <1>2, <1>3, <1>4

\* A sequence of steps gives what it is typed to give.
LEMMA LeadsType ==
    ASSUME NEW n \in Nat, NEW X, NEW base, NEW step, NEW r, Leads(n, X, base, step, r)
    PROVE  r \in X
BY DEF Leads

\* Lines make paragraphs.
LEMMA JoinedType ==
    ASSUME NEW L, Sized(L), NEW lines \in Seq(L)
    PROVE  Joined(lines) \in Seq(ParagraphsOf(L))
<1> DEFINE X == Seq(ParagraphsOf(L))
<1>1. \A x \in X, l \in L : JoinLine(x, l) \in X
  BY JoinLineType
<1>2. <<>> \in X
  <2> DEFINE P == ParagraphsOf(L)
  <2> HIDE DEF P
  <2>1. <<>> \in Seq(P)
    OBVIOUS
  <2> QED
    BY <2>1 DEF P
<1> HIDE DEF X
<1>3. Leads(Len(lines), X, <<>>, JoinLineStep(lines, X), Joined(lines))
  BY <1>1, <1>2, JoinLineLeads DEF Joined
<1>4. Len(lines) \in Nat
  OBVIOUS
<1> QED
  BY <1>3, <1>4, LeadsType DEF X

\* A heading opens a section, what is none goes to the last.
LEMMA AddParagraphType ==
    ASSUME NEW P, NEW sections \in Seq(Seq(P)) \ {<<>>}, NEW p \in P
    PROVE  AddParagraph(sections, p) \in Seq(Seq(P)) \ {<<>>}
<1>1. PICK S : S = Seq(P)
  OBVIOUS
<1>2. sections \in Seq(S) /\ sections # <<>> /\ sections[Len(sections)] \in S
      /\ <<>> \in S /\ Append(sections[Len(sections)], p) \in S
  BY <1>1
<1>3. NewSection(sections) \in Seq(S) \ {<<>>}
  <2>1. Append(sections, <<>>) \in Seq(S) /\ Append(sections, <<>>) # <<>>
    BY <1>2
  <2> QED
    BY <1>2, <2>1 DEF NewSection
<1>4. [sections EXCEPT ![Len(sections)] = Append(sections[Len(sections)], p)] \in Seq(S) \ {<<>>}
  <2>1. PICK q \in S : q = Append(sections[Len(sections)], p)
    BY <1>2
  <2>2. [sections EXCEPT ![Len(sections)] = q] \in Seq(S)
        /\ [sections EXCEPT ![Len(sections)] = q] # <<>>
    BY <1>2
  <2> QED
    BY <2>1, <2>2
<1> QED
  BY <1>1, <1>3, <1>4 DEF AddParagraph

\* There is always a section to go on with.
LEMMA NewSectionType ==
    ASSUME NEW P, NEW sections \in Seq(Seq(P)) \ {<<>>}
    PROVE  NewSection(sections) \in Seq(Seq(P)) \ {<<>>}
<1>1. PICK S : S = Seq(P)
  OBVIOUS
<1>2. sections \in Seq(S) /\ sections # <<>> /\ <<>> \in S
  BY <1>1
<1>3. Append(sections, <<>>) \in Seq(S) /\ Append(sections, <<>>) # <<>>
  BY <1>2
<1> QED
  BY <1>1, <1>2, <1>3 DEF NewSection

\* A block adds its paragraphs to the sections.
LEMMA AddBlockType ==
    ASSUME NEW P, NEW sections \in Seq(Seq(P)) \ {<<>>}, NEW b, b.paragraphs \in Seq(P)
    PROVE  AddBlock(sections, b) \in Seq(Seq(P)) \ {<<>>}
<1> DEFINE X == Seq(Seq(P)) \ {<<>>}
           s == b.paragraphs
<1>1. \A x \in X, p \in P : AddParagraph(x, p) \in X
  BY AddParagraphType
<1>2. NewSection(sections) \in X
  BY NewSectionType
<1>3. sections \in X /\ s \in Seq(P) /\ Len(s) \in Nat
  OBVIOUS
<1> HIDE DEF X
<1>4. Leads(Len(s), X, sections, ParagraphStep(s, X), FoldLeft(AddParagraph, sections, s))
  BY <1>1, <1>3, AddParagraphLeads
<1>5. FoldLeft(AddParagraph, sections, s) \in X
  BY <1>3, <1>4, LeadsType
<1> QED
  BY <1>2, <1>5 DEF AddBlock, X

\* What is cleaned makes sections of paragraphs.
LEMMA SectionsType ==
    ASSUME NEW P, NEW B, \A b \in B : b.paragraphs \in Seq(P), NEW cleaned \in Seq(B)
    PROVE  Sections(cleaned) \in Seq(Seq(P))
<1> DEFINE X == Seq(Seq(P)) \ {<<>>}
           all == FoldLeft(AddBlock, <<<<>>>>, cleaned)
<1>1. \A x \in X, b \in B : AddBlock(x, b) \in X
  BY AddBlockType
<1>2. <<<<>>>> \in X
  <2>1. PICK S : S = Seq(P)
    OBVIOUS
  <2>2. <<>> \in S
    BY <2>1
  <2>3. <<<<>>>> \in Seq(S) /\ <<<<>>>> # <<>>
    BY <2>2
  <2> QED
    BY <2>1, <2>3
<1>3. Len(cleaned) \in Nat
  OBVIOUS
<1>4. \A x \in X : x \in Seq(Seq(P))
  OBVIOUS
<1> HIDE DEF X
<1>5. Leads(Len(cleaned), X, <<<<>>>>, BlockStep(cleaned, X), all)
  BY <1>1, <1>2, AddBlockLeads
<1>6. all \in X
  BY <1>3, <1>5, LeadsType
<1>7. Sections(cleaned) = Only(all, {i \in DOMAIN all : all[i] # <<>>})
  BY DEF Sections
<1> HIDE DEF all
<1>8. PICK S : S = Seq(P)
  OBVIOUS
<1>9. Only(all, {i \in DOMAIN all : all[i] # <<>>}) \in Seq(S)
  BY <1>4, <1>6, <1>8, OnlyPicks
<1> QED
  BY <1>7, <1>8, <1>9

\* The lines of what an upload was read as.
LinesIn(blocks) == UNION {Range(b.lines) : b \in Range(blocks)}

\* The lines of a block that are kept make paragraphs.
LEMMA ParagraphsJoined ==
    ASSUME NEW blocks, blocks \in Seq(Range(blocks)),
           \A b \in Range(blocks) : b.lines \in Seq(Range(b.lines)),
           Sized(LinesIn(blocks)), NEW i \in DOMAIN blocks
    PROVE  Joined(KeptLines(blocks, blocks[i])) \in Seq(ParagraphsOf(LinesIn(blocks)))
<1> DEFINE L == LinesIn(blocks)
           P == ParagraphsOf(L)
           lines == blocks[i].lines
           kept == KeptLines(blocks, blocks[i])
<1>1. blocks[i] \in Range(blocks) /\ Range(lines) \subseteq L
  BY DEF Range, LinesIn
<1>2. lines \in Seq(Range(lines))
  BY <1>1
<1>3. lines \in Seq(L)
  <2> HIDE DEF lines, L
  <2> QED
    BY <1>1, <1>2
<1>4. \E places : kept = Only(lines, places)
  BY DEF KeptLines
<1> HIDE DEF lines, kept
<1>5. kept \in Seq(L)
  BY <1>3, <1>4, OnlyPicks
<1>6. Joined(kept) \in Seq(P)
  BY <1>5, JoinedType
<1> QED
  BY <1>6 DEF kept

\* _clean_blocks makes paragraphs of the lines.
LEMMA CleanedType ==
    ASSUME NEW blocks, blocks \in Seq(Range(blocks)),
           \A b \in Range(blocks) : b.lines \in Seq(Range(b.lines)),
           Sized(LinesIn(blocks))
    PROVE  \E B : /\ \A b \in B : b.paragraphs \in Seq(ParagraphsOf(LinesIn(blocks)))
                  /\ Cleaned(blocks) \in Seq(B)
<1> DEFINE L == LinesIn(blocks)
           P == ParagraphsOf(L)
           joined(i) == [level |-> blocks[i].level,
                         paragraphs |-> Joined(KeptLines(blocks, blocks[i]))]
           cleaned == [i \in DOMAIN blocks |-> joined(i)]
           B == Range(cleaned)
<1>1. DOMAIN blocks = 1..Len(blocks) /\ Len(blocks) \in Nat
  OBVIOUS
<1>2. ASSUME NEW i \in DOMAIN blocks
      PROVE  joined(i).paragraphs \in Seq(P)
  BY ParagraphsJoined
<1>3. \A b \in B : b.paragraphs \in Seq(P)
  BY <1>2 DEF Range
<1>4. cleaned \in Seq(B)
  <2> HIDE DEF joined
  <2> QED
    BY <1>1 DEF Range
<1>5. \E places : Cleaned(blocks) = Only(cleaned, places)
  BY DEF Cleaned
<1> HIDE DEF cleaned, B
<1>6. Cleaned(blocks) \in Seq(B)
  BY <1>4, <1>5, OnlyPicks
<1> QED
  BY <1>3, <1>6

-----------------------------------------------------------------------------
(* A section split into chunks: its texts once, in order.                   *)

\* The first k items.
Prefix(s, k) == [i \in 1..k |-> s[i]]

\* The texts of one item more are those of the items before and its own.
LEMMA WordsOfPrefix ==
    ASSUME NEW T, NEW R, Texted(R, T), NEW s \in Seq(R)
    PROVE  /\ Words(Prefix(s, 0)) = <<>>
           /\ \A k \in 1..Len(s) : Words(Prefix(s, k)) = Words(Prefix(s, k - 1)) \o s[k].texts
           /\ Prefix(s, Len(s)) = s
<1>1. Words(Prefix(s, 0)) = <<>>
  <2>1. Prefix(s, 0) = <<>>
    BY DEF Prefix
  <2> QED
    BY <2>1, WordsNone
<1>2. ASSUME NEW k \in 1..Len(s)
      PROVE  Words(Prefix(s, k)) = Words(Prefix(s, k - 1)) \o s[k].texts
  <2> DEFINE a == Prefix(s, k - 1)
             b == Prefix(s, k)
  <2>1. k - 1 \in Nat /\ k \in Nat /\ (k - 1) + 1 = k
        /\ \A i \in 1..k : s[i] \in R
        /\ \A j \in 1..k : j # k => j \in 1..(k - 1)
    OBVIOUS
  <2>2. a \in Seq(R) /\ Len(a) = k - 1 /\ \A i \in 1..(k - 1) : a[i] = s[i]
    BY <2>1 DEF Prefix
  <2>3. b \in Seq(R) /\ Len(b) = k /\ \A i \in 1..k : b[i] = s[i]
    BY <2>1 DEF Prefix
  <2> HIDE DEF a, b
  <2>4. b = Append(a, s[k])
    <3> DEFINE c == Append(a, s[k])
    <3>1. c \in Seq(R) /\ Len(c) = k /\ c[k] = s[k] /\ \A i \in 1..(k - 1) : c[i] = s[i]
      BY <2>1, <2>2
    <3> HIDE DEF c
    <3>2. \A i \in 1..k : b[i] = c[i]
      BY <2>1, <2>3, <3>1
    <3>3. b = c
      BY <2>3, <3>1, <3>2
    <3> QED
      BY <3>3 DEF c
  <2>5. s[k] \in R
    BY <2>1
  <2>6. Words(Append(a, s[k])) = Words(a) \o s[k].texts
    BY <2>2, <2>5, WordsAppend
  <2> QED
    BY <2>4, <2>6 DEF a, b
<1>3. Prefix(s, Len(s)) = s
  BY DEF Prefix
<1> QED
  BY <1>1, <1>2, <1>3

\* Steps that add the texts of one item each add the texts of all.
LEMMA LeadsWords ==
    ASSUME NEW T, NEW R, Texted(R, T), NEW s \in Seq(R), NEW X, <<>> \in X, NEW step, NEW r,
           Leads(Len(s), X, <<>>, step, r),
           \A k \in 1..Len(s) : \A x \in X :
              step[k][x] \in X /\ Words(step[k][x]) = Words(x) \o s[k].texts
    PROVE  r \in X /\ Words(r) = Words(s)
<1> DEFINE n == Len(s)
           I == [k \in 0..n |-> {x \in X : Words(x) = Words(Prefix(s, k))}]
<1>1. n \in Nat
  OBVIOUS
<1>2. /\ Words(Prefix(s, 0)) = <<>>
      /\ \A k \in 1..n : Words(Prefix(s, k)) = Words(Prefix(s, k - 1)) \o s[k].texts
      /\ Prefix(s, n) = s
  BY WordsOfPrefix
<1> HIDE DEF n
<1>3. <<>> \in I[0]
  <2>1. 0 \in 0..n
    BY <1>1
  <2> QED
    BY <1>2, <2>1, WordsNone
<1>4. \A k \in 1..n : \A x \in I[k - 1] : step[k][x] \in I[k]
  <2> SUFFICES ASSUME NEW k \in 1..n, NEW x \in I[k - 1]
               PROVE  step[k][x] \in I[k]
    OBVIOUS
  <2>1. k - 1 \in 0..n /\ k \in 0..n
    BY <1>1
  <2>2. x \in X /\ Words(x) = Words(Prefix(s, k - 1))
    BY <2>1
  <2>3. step[k][x] \in X /\ Words(step[k][x]) = Words(x) \o s[k].texts
    BY <2>2 DEF n
  <2> QED
    BY <1>2, <2>1, <2>2, <2>3
<1> HIDE DEF I
<1>5. r \in I[n]
  <2>1. Leads(n, X, <<>>, step, r)
    BY DEF n
  <2> QED
    BY <1>1, <1>3, <1>4, <2>1, LeadInduction
<1>6. n \in 0..n
  BY <1>1
<1> QED
  BY <1>2, <1>5, <1>6 DEF I

\* Paragraphs have texts.
LEMMA ParagraphsTexted ==
    ASSUME NEW L
    PROVE  Texted(ParagraphsOf(L), {l.text : l \in L})
BY DEF Texted, ParagraphsOf

\* A paragraph adds its texts to the sentences.
LEMMA JoinParagraphWords ==
    ASSUME NEW L, NEW us \in Seq(ParagraphsOf(L)), NEW p \in ParagraphsOf(L)
    PROVE  /\ JoinParagraph(us, p) \in Seq(ParagraphsOf(L))
           /\ Words(JoinParagraph(us, p)) = Words(us) \o p.texts
<1> DEFINE P == ParagraphsOf(L)
           T == {l.text : l \in L}
<1>1. Texted(P, T)
  BY ParagraphsTexted
<1>2. p.texts \in Seq(T) /\ us \in Seq(P) /\ p \in P
  BY DEF ParagraphsOf
<1>3. \A o \in P : [texts |-> o.texts \o p.texts, ends |-> p.ends,
                    length |-> o.length + 1 + p.length, kind |-> "plain"] \in P
  <2> SUFFICES ASSUME NEW o \in P
               PROVE  [texts |-> o.texts \o p.texts, ends |-> p.ends,
                       length |-> o.length + 1 + p.length, kind |-> "plain"] \in P
    OBVIOUS
  <2>1. /\ o.texts \in Seq(T) /\ p.texts \in Seq(T)
        /\ o.length \in Nat \ {0} /\ p.length \in Nat \ {0}
        /\ p.ends \in {l.ends : l \in L}
    BY DEF ParagraphsOf
  <2>2. o.texts \o p.texts \in Seq(T)
    <3> HIDE DEF T
    <3> QED
      BY <2>1
  <2>3. o.length + 1 + p.length \in Nat \ {0}
    BY <2>1
  <2> QED
    BY <2>1, <2>2, <2>3 DEF ParagraphsOf
<1> HIDE DEF P, T
<1>4. CASE us = <<>>
  <2>1. JoinParagraph(us, p) = Append(us, p)
    BY <1>4 DEF JoinParagraph
  <2> QED
    BY <1>1, <1>2, <2>1, WordsAppend DEF P
<1>5. CASE us # <<>> /\ Last(us).ends = "stop"
  <2>1. JoinParagraph(us, p) = Append(us, p)
    BY <1>5 DEF JoinParagraph
  <2> QED
    BY <1>1, <1>2, <2>1, WordsAppend DEF P
<1>6. CASE us # <<>> /\ Last(us).ends # "stop"
  <2> DEFINE o == us[Len(us)]
             q == [texts |-> o.texts \o p.texts, ends |-> p.ends,
                   length |-> o.length + 1 + p.length, kind |-> "plain"]
  <2>1. JoinParagraph(us, p) = [us EXCEPT ![Len(us)] = q]
    BY <1>6 DEF JoinParagraph
  <2>2. o \in P /\ o = Last(us)
    BY <1>2, <1>6 DEF Last
  <2>3. q \in P /\ q.texts = Last(us).texts \o p.texts
    BY <1>3, <2>2
  <2> HIDE DEF q
  <2>4. PICK t, r : t = p.texts /\ r = q
    OBVIOUS
  <2>5. t \in Seq(T) /\ r \in P /\ Lengthens(r, us, t) /\ us \in Seq(P)
    BY <1>2, <1>6, <2>3, <2>4 DEF Lengthens
  <2>6. /\ Replaced(us, r) \in Seq(P)
        /\ Words(Replaced(us, r)) = Words(us) \o t
    <3>1. t \in Seq(T) /\ r \in P /\ us \in Seq(P) /\ Texted(P, T) /\ Lengthens(r, us, t)
      BY <1>1, <2>5
    <3> QED
      BY <3>1, WordsReplaced
  <2> QED
    BY <2>1, <2>4, <2>6 DEF P, Replaced
<1> QED
  BY <1>4, <1>5, <1>6

\* _split_text: the sentences of a section have its texts.
LEMMA SentencesWords ==
    ASSUME NEW L, NEW section \in Seq(ParagraphsOf(L))
    PROVE  /\ Sentences(section) \in Seq(ParagraphsOf(L))
           /\ Words(Sentences(section)) = Words(section)
<1> DEFINE P == ParagraphsOf(L)
           T == {l.text : l \in L}
           X == Seq(P)
           step == SentenceStep(section, X)
           n == Len(section)
<1>1. Texted(P, T)
  BY ParagraphsTexted
<1>2. \A x \in X, p \in P : JoinParagraph(x, p) \in X
                            /\ Words(JoinParagraph(x, p)) = Words(x) \o p.texts
  BY JoinParagraphWords
<1> HIDE DEF P
<1>3. section \in Seq(P) /\ <<>> \in X /\ \A k \in 1..n : section[k] \in P
  BY DEF P
<1> HIDE DEF X, T
<1>4. Leads(n, X, <<>>, step, Sentences(section))
  BY <1>2, <1>3, JoinParagraphLeads DEF Sentences
<1>5. \A k \in 1..n : \A x \in X :
         step[k][x] \in X /\ Words(step[k][x]) = Words(x) \o section[k].texts
  BY <1>2, <1>3 DEF SentenceStep
<1> HIDE DEF step
<1>6. Sentences(section) \in X /\ Words(Sentences(section)) = Words(section)
  BY <1>1, <1>3, <1>4, <1>5, LeadsWords
<1> QED
  BY <1>6 DEF X, P

-----------------------------------------------------------------------------
(* What is too long is cut, what is short is put together.                  *)

\* Pieces no longer than a chunk.
PiecesOf(T) == [texts : Seq(T), length : 1..ChunkLimit]

\* How often something of length n is cut to pieces of c, the last of them short.
LEMMA Rounded ==
    ASSUME NEW c \in Nat \ {0}, NEW n \in Nat \ {0}
    PROVE  /\ (n + c - 1) \div c \in Nat \ {0}
           /\ \A i \in 1..((n + c - 1) \div c) : i * c > n => n % c \in 1..c
<1> DEFINE m == n \div c
           q == (n + c - 1) \div c
<1>1. /\ m \in Nat /\ n % c \in 0..(c - 1) /\ n = c * m + (n % c)
  OBVIOUS
<1>2. /\ q \in Nat /\ (n + c - 1) % c \in 0..(c - 1)
      /\ n + c - 1 = c * q + ((n + c - 1) % c)
  OBVIOUS
<1> HIDE DEF m, q
<1>3. q # 0
  <2> SUFFICES ASSUME q = 0
               PROVE  FALSE
    OBVIOUS
  <2>1. c * q = 0
    OBVIOUS
  <2> QED
    BY <1>2, <2>1
<1>4. ASSUME NEW i \in 1..q, i * c > n, n % c = 0
      PROVE  FALSE
  <2>1. n = c * m
    BY <1>1, <1>4
  <2>2. i > m
    <3> SUFFICES ASSUME i <= m
                 PROVE  FALSE
      BY <1>1, <1>2
    <3>1. i * c <= m * c
      BY <1>1, <1>2
    <3>2. m * c = c * m
      BY <1>1
    <3> QED
      BY <1>1, <1>2, <1>4, <2>1, <3>1, <3>2
  <2>3. q >= m + 1
    BY <1>1, <1>2, <2>2
  <2>4. c * q >= c * (m + 1)
    BY <1>1, <1>2, <2>3
  <2>5. c * (m + 1) = c * m + c
    BY <1>1
  <2>6. c * q >= n + c
    BY <1>1, <1>2, <2>1, <2>4, <2>5
  <2> QED
    BY <1>2, <2>6
<1> QED
  BY <1>1, <1>2, <1>3, <1>4 DEF q

\* A sentence cut to pieces has its texts in the first, and none is too long.
LEMMA PiecesWords ==
    ASSUME NEW T, NEW u, u.texts \in Seq(T), u.length \in Nat \ {0}
    PROVE  /\ Pieces(u) \in Seq(PiecesOf(T))
           /\ Words(Pieces(u)) = u.texts
<1> DEFINE C == ChunkLimit
           n == u.length
           q == (n + C - 1) \div C
           P == PiecesOf(T)
           s == Pieces(u)
<1>1. C \in Nat \ {0}
  BY LimitAssumption
<1>2. q \in Nat \ {0} /\ \A i \in 1..q : i * C > n => n % C \in 1..C
  <2> HIDE DEF C, n
  <2>1. n \in Nat \ {0}
    BY DEF n
  <2> QED
    BY <1>1, <2>1, Rounded
<1> HIDE DEF C
<1>3. s = [i \in 1..q |-> [texts |-> IF i = 1 THEN u.texts ELSE <<>>,
                           length |-> IF i * C <= n THEN C ELSE n % C]]
  BY DEF Pieces, C
<1> HIDE DEF q
<1>4. ASSUME NEW i \in 1..q
      PROVE  s[i] \in P /\ s[i].texts = IF i = 1 THEN u.texts ELSE <<>>
  <2> DEFINE l == IF i * C <= n THEN C ELSE n % C
             t == IF i = 1 THEN u.texts ELSE <<>>
  <2>1. s[i] = [texts |-> t, length |-> l]
    BY <1>3
  <2>2. l \in 1..C
    <3>1. i * C \in Int /\ n \in Int
      BY <1>1, <1>2
    <3>2. C \in 1..C
      BY <1>1
    <3>3. i * C <= n \/ i * C > n
      BY <3>1
    <3> QED
      BY <1>2, <3>2, <3>3
  <2>3. t \in Seq(T)
    OBVIOUS
  <2> HIDE DEF l, t, s
  <2>4. [texts |-> t, length |-> l] \in P
    BY <2>2, <2>3 DEF PiecesOf, C
  <2> QED
    BY <2>1, <2>4 DEF t
<1>5. s \in Seq(P) /\ Len(s) = q
  <2>1. DOMAIN s = 1..q /\ s = [i \in 1..q |-> s[i]]
    BY <1>3
  <2> HIDE DEF s, P
  <2> QED
    BY <1>2, <1>4, <2>1
<1> HIDE DEF s
<1>6. Texted(P, T)
  BY DEF Texted, PiecesOf
<1> HIDE DEF P
<1>7. /\ Words(Prefix(s, 0)) = <<>> /\ Prefix(s, q) = s
      /\ \A k \in 1..q : Words(Prefix(s, k)) = Words(Prefix(s, k - 1)) \o s[k].texts
  BY <1>5, <1>6, WordsOfPrefix
<1> DEFINE K == {k \in Nat : k + 1 <= q => Words(Prefix(s, k + 1)) = u.texts}
<1>8. 0 \in K
  <2>1. 1 \in 1..q
    BY <1>2
  <2>2. Words(Prefix(s, 1)) = <<>> \o u.texts
    <3>1. Words(Prefix(s, 1)) = Words(Prefix(s, 1 - 1)) \o s[1].texts
      BY <1>7, <2>1
    <3>2. s[1].texts = u.texts /\ 1 - 1 = 0
      BY <1>4, <2>1
    <3> QED
      BY <1>7, <3>1, <3>2
  <2> QED
    BY <2>2
<1>9. ASSUME NEW k \in Nat, k \in K
      PROVE  k + 1 \in K
  <2> SUFFICES ASSUME (k + 1) + 1 <= q
               PROVE  Words(Prefix(s, (k + 1) + 1)) = u.texts
    OBVIOUS
  <2>0. q \in Nat /\ k + 1 + 1 <= q
    BY <1>2
  <2> HIDE DEF q
  <2>1. k + 2 \in 1..q /\ k + 2 # 1 /\ (k + 1) + 1 = k + 2 /\ (k + 2) - 1 = k + 1 /\ k + 1 <= q
    BY <2>0
  <2>2. Words(Prefix(s, k + 2)) = Words(Prefix(s, k + 1)) \o <<>>
    <3>1. Words(Prefix(s, k + 2)) = Words(Prefix(s, k + 1)) \o s[k + 2].texts
      BY <1>7, <2>1
    <3>2. s[k + 2].texts = <<>>
      BY <1>4, <2>1
    <3> QED
      BY <3>1, <3>2
  <2>3. Words(Prefix(s, k + 1)) = u.texts
    BY <1>9, <2>1
  <2> QED
    BY <2>1, <2>2, <2>3
<1> HIDE DEF K
<1>10. \A k \in Nat : k \in K
  BY <1>8, <1>9, Counting
<1>11. q - 1 \in Nat /\ (q - 1) + 1 = q
  BY <1>2
<1>12. Words(Prefix(s, q)) = u.texts
  <2>1. q - 1 \in K /\ (q - 1) + 1 <= q
    BY <1>2, <1>10, <1>11
  <2> QED
    BY <1>11, <2>1 DEF K
<1> QED
  BY <1>5, <1>7, <1>12 DEF s, P

\* Pieces have texts.
LEMMA PiecesTexted ==
    ASSUME NEW T
    PROVE  Texted(PiecesOf(T), T)
BY DEF Texted, PiecesOf

\* A piece adds its texts to the chunks and makes none too long.
LEMMA FillWords ==
    ASSUME NEW T, NEW x \in Seq(PiecesOf(T)), NEW p \in PiecesOf(T)
    PROVE  /\ Fill(x, p) \in Seq(PiecesOf(T))
           /\ Words(Fill(x, p)) = Words(x) \o p.texts
<1> DEFINE P == PiecesOf(T)
<1>1. Texted(P, T)
  BY PiecesTexted
<1>2. p.texts \in Seq(T) /\ p.length \in 1..ChunkLimit /\ ChunkLimit \in Nat
  BY LimitAssumption DEF PiecesOf
<1>3. ASSUME NEW o \in P, o.length + 1 + p.length <= ChunkLimit
      PROVE  [texts |-> o.texts \o p.texts, length |-> o.length + 1 + p.length] \in P
  <2>1. o.texts \in Seq(T) /\ o.length \in 1..ChunkLimit
    BY DEF PiecesOf
  <2>2. o.texts \o p.texts \in Seq(T)
    BY <1>2, <2>1
  <2>3. o.length + 1 + p.length \in 1..ChunkLimit
    BY <1>2, <1>3, <2>1
  <2> QED
    BY <2>2, <2>3 DEF PiecesOf
<1>4. x \in Seq(P) /\ p \in P
  OBVIOUS
<1> HIDE DEF P
<1>5. CASE Fill(x, p) = Append(x, p)
  <2>1. Append(x, p) \in Seq(P)
    BY <1>4
  <2>2. Words(Append(x, p)) = Words(x) \o p.texts
    BY <1>1, <1>4, WordsAppend
  <2> QED
    BY <1>5, <2>1, <2>2 DEF P
<1>6. CASE x # <<>> /\ Last(x).length + 1 + p.length <= ChunkLimit
  <2> DEFINE o == x[Len(x)]
             q == [texts |-> o.texts \o p.texts, length |-> o.length + 1 + p.length]
  <2>1. Fill(x, p) = [x EXCEPT ![Len(x)] = q]
    BY <1>6 DEF Fill
  <2>2. o \in P /\ o = Last(x)
    BY <1>4, <1>6 DEF Last
  <2>3. q \in P /\ q.texts = Last(x).texts \o p.texts
    BY <1>3, <1>6, <2>2
  <2> HIDE DEF q
  <2>4. PICK t, r : t = p.texts /\ r = q
    OBVIOUS
  <2>5. t \in Seq(T) /\ r \in P /\ Lengthens(r, x, t)
    BY <1>2, <1>6, <2>3, <2>4 DEF Lengthens
  <2>6. /\ Replaced(x, r) \in Seq(P)
        /\ Words(Replaced(x, r)) = Words(x) \o t
    BY <1>1, <1>4, <2>5, WordsReplaced
  <2> QED
    BY <2>1, <2>4, <2>6 DEF P, Replaced
<1>7. \/ Fill(x, p) = Append(x, p)
      \/ x # <<>> /\ Last(x).length + 1 + p.length <= ChunkLimit
  BY DEF Fill
<1> QED
  BY <1>5, <1>6, <1>7

\* _split_text: the chunks of a section have its texts.
LEMMA SplitTextWords ==
    ASSUME NEW L, Sized(L), NEW section \in Seq(ParagraphsOf(L))
    PROVE  /\ SplitText(section) \in Seq(PiecesOf({l.text : l \in L}))
           /\ Words(SplitText(section)) = Words(section)
<1> DEFINE P == ParagraphsOf(L)
           T == {l.text : l \in L}
           Q == PiecesOf(T)
           us == Sentences(section)
           pp == [i \in DOMAIN us |-> Pieces(us[i])]
           all == FlattenSeq(pp)
           r == FoldLeft(Fill, <<>>, all)
           X == Seq(Q)
<1>1. us \in Seq(P) /\ Words(us) = Words(section)
  BY SentencesWords
<1>2. Texted(Q, T)
  BY PiecesTexted
<1>3. \A u \in P : Pieces(u) \in Seq(Q) /\ Words(Pieces(u)) = u.texts
  <2>1. \A u \in P : u.texts \in Seq(T) /\ u.length \in Nat \ {0}
    BY DEF ParagraphsOf
  <2> HIDE DEF P, T
  <2> QED
    BY <2>1, PiecesWords
<1>4. SplitText(section) = r
  BY DEF SplitText
<1>5. \A x \in X, p \in Q : Fill(x, p) \in X /\ Words(Fill(x, p)) = Words(x) \o p.texts
  BY FillWords
<1> HIDE DEF us, P, T, Q
<1>6. DOMAIN us = 1..Len(us) /\ Len(us) \in Nat /\ \A i \in DOMAIN us : us[i] \in P
  BY <1>1
<1>7. pp \in Seq(Seq(Q)) /\ DOMAIN pp = DOMAIN us
  BY <1>3, <1>6
<1>8. \A i \in DOMAIN pp : Words(pp[i]) = us[i].texts
  BY <1>3, <1>6
<1> HIDE DEF pp
<1>9. [i \in DOMAIN pp |-> Words(pp[i])] = [i \in DOMAIN us |-> us[i].texts]
  BY <1>7, <1>8
<1>10. Words(all) = FlattenSeq([i \in DOMAIN pp |-> Words(pp[i])])
  BY <1>2, <1>7, WordsFlatten
<1>11. Words(all) = Words(us)
  BY <1>9, <1>10 DEF Words
<1>12. all \in Seq(Q)
  BY <1>7, FlattenType
<1> HIDE DEF all
<1>13. <<>> \in X
  OBVIOUS
<1> HIDE DEF X
<1>14. Leads(Len(all), X, <<>>, FillStep(all, X), r)
  BY <1>5, <1>12, <1>13, FillLeads
<1>15. \A k \in 1..Len(all) : all[k] \in Q
  BY <1>12
<1>16. \A k \in 1..Len(all) : \A x \in X :
          FillStep(all, X)[k][x] \in X
          /\ Words(FillStep(all, X)[k][x]) = Words(x) \o all[k].texts
  BY <1>5, <1>15 DEF FillStep
<1> DEFINE step == FillStep(all, X)
<1> HIDE DEF r, step
<1>17. /\ Leads(Len(all), X, <<>>, step, r)
       /\ \A k \in 1..Len(all) : \A x \in X :
             step[k][x] \in X /\ Words(step[k][x]) = Words(x) \o all[k].texts
  BY <1>14, <1>16 DEF step
<1>18. r \in X /\ Words(r) = Words(all)
  BY <1>2, <1>12, <1>13, <1>17, LeadsWords
<1> QED
  BY <1>1, <1>4, <1>11, <1>18 DEF X, Q, T

\* The chunks of an upload have the texts of its sections.
LEMMA ChunksWords ==
    ASSUME NEW L, Sized(L), NEW sections \in Seq(Seq(ParagraphsOf(L))), NEW blocks,
           sections = Sections(Cleaned(blocks))
    PROVE  /\ Words(Chunks(blocks)) = Words(FlattenSeq(sections))
           /\ \A i \in DOMAIN Chunks(blocks) : Chunks(blocks)[i].length \in 1..ChunkLimit
<1> DEFINE P == ParagraphsOf(L)
           T == {l.text : l \in L}
           Q == PiecesOf(T)
           R == [section : Nat, texts : Seq(T), length : 1..ChunkLimit]
           part(i) == [j \in DOMAIN SplitText(sections[i]) |->
                          [section |-> i, texts |-> SplitText(sections[i])[j].texts,
                           length |-> SplitText(sections[i])[j].length]]
           parts == [i \in DOMAIN sections |-> part(i)]
<1>1. Chunks(blocks) = FlattenSeq(parts)
  BY DEF Chunks
<1>2. DOMAIN sections = 1..Len(sections) /\ Len(sections) \in Nat
      /\ \A i \in DOMAIN sections : sections[i] \in Seq(P)
  <2> DEFINE S == Seq(P)
  <2>1. sections \in Seq(S)
    OBVIOUS
  <2> HIDE DEF S
  <2>2. DOMAIN sections = 1..Len(sections) /\ Len(sections) \in Nat
        /\ \A i \in DOMAIN sections : sections[i] \in S
    BY <2>1
  <2> QED
    BY <2>2 DEF S
<1>3. ASSUME NEW i \in DOMAIN sections
      PROVE  part(i) \in Seq(R) /\ Words(part(i)) = Words(sections[i])
  <2> DEFINE s == SplitText(sections[i])
  <2>1. s \in Seq(Q) /\ Words(s) = Words(sections[i])
    BY <1>2, SplitTextWords
  <2> HIDE DEF s
  <2>2. DOMAIN s = 1..Len(s) /\ Len(s) \in Nat /\ \A j \in DOMAIN s : s[j] \in Q
    <3> HIDE DEF Q
    <3> QED
      BY <2>1
  <2> DEFINE c == [j \in DOMAIN s |-> [section |-> i, texts |-> s[j].texts,
                                        length |-> s[j].length]]
  <2>3. \A j \in DOMAIN s : c[j] \in R /\ c[j].texts = s[j].texts
    <3> SUFFICES ASSUME NEW j \in DOMAIN s
                 PROVE  c[j] \in R /\ c[j].texts = s[j].texts
      OBVIOUS
    <3>1. s[j].texts \in Seq(T) /\ s[j].length \in 1..ChunkLimit
      BY <2>2 DEF PiecesOf
    <3>2. c[j] = [section |-> i, texts |-> s[j].texts, length |-> s[j].length]
      OBVIOUS
    <3>3. i \in Nat
      BY <1>2
    <3> HIDE DEF c, T
    <3> QED
      BY <3>1, <3>2, <3>3
  <2>4. c \in Seq(R) /\ DOMAIN c = DOMAIN s
    <3> HIDE DEF R
    <3>1. c = [j \in 1..Len(s) |-> c[j]] /\ \A j \in 1..Len(s) : c[j] \in R
      BY <2>2, <2>3
    <3> HIDE DEF c
    <3>2. c \in Seq(R)
      BY <2>2, <3>1
    <3> QED
      BY <2>2, <3>1, <3>2
  <2>5. c = part(i)
    BY DEF s
  <2> HIDE DEF c, part
  <2>6. [j \in DOMAIN c |-> c[j].texts] = [j \in DOMAIN s |-> s[j].texts]
    BY <2>3, <2>4
  <2> QED
    BY <2>1, <2>4, <2>5, <2>6 DEF Words
<1> HIDE DEF part
<1>4. parts \in Seq(Seq(R)) /\ DOMAIN parts = DOMAIN sections
  <2> HIDE DEF R
  <2> QED
    BY <1>2, <1>3
<1>5. [i \in DOMAIN parts |-> Words(parts[i])] = [i \in DOMAIN sections |-> Words(sections[i])]
  BY <1>3
<1>6. Texted(R, T)
  BY DEF Texted
<1>7. Texted(P, T)
  BY ParagraphsTexted
<1>8. FlattenSeq(parts) \in Seq(R)
  <2> HIDE DEF parts, R
  <2> QED
    BY <1>4, FlattenType
<1>9. \A i \in DOMAIN FlattenSeq(parts) : FlattenSeq(parts)[i].length \in 1..ChunkLimit
  <2> DEFINE f == FlattenSeq(parts)
  <2>1. \A i \in DOMAIN f : f[i] \in R
    <3> HIDE DEF f, R
    <3>1. f \in Seq(R)
      BY <1>8 DEF f
    <3> QED
      BY <3>1
  <2> HIDE DEF f
  <2>2. \A i \in DOMAIN f : f[i].length \in 1..ChunkLimit
    BY <2>1
  <2> QED
    BY <2>2 DEF f
<1> HIDE DEF parts, R, P, T
<1>10. Words(FlattenSeq(parts)) = FlattenSeq([i \in DOMAIN parts |-> Words(parts[i])])
  BY <1>4, <1>6, WordsFlatten
<1>11. sections \in Seq(Seq(P))
  BY DEF P
<1>12. Words(FlattenSeq(sections)) = FlattenSeq([i \in DOMAIN sections |-> Words(sections[i])])
  BY <1>7, <1>11, WordsFlatten
<1> QED
  BY <1>1, <1>5, <1>9, <1>10, <1>12

-----------------------------------------------------------------------------
(* Sections: what is no heading once, in order.                             *)

\* One list more of those to flatten adds its items.
LEMMA FlattenPrefix ==
    ASSUME NEW S, NEW t \in Seq(Seq(S))
    PROVE  /\ FlattenSeq(Prefix(t, 0)) = <<>>
           /\ \A k \in 1..Len(t) :
                 FlattenSeq(Prefix(t, k)) = FlattenSeq(Prefix(t, k - 1)) \o t[k]
           /\ Prefix(t, Len(t)) = t
<1>1. FlattenSeq(Prefix(t, 0)) = <<>>
  <2>1. Prefix(t, 0) = <<>>
    BY DEF Prefix
  <2> QED
    BY <2>1, FlattenNone
<1>2. ASSUME NEW k \in 1..Len(t)
      PROVE  FlattenSeq(Prefix(t, k)) = FlattenSeq(Prefix(t, k - 1)) \o t[k]
  <2> DEFINE a == Prefix(t, k - 1)
             b == Prefix(t, k)
             R == Seq(S)
  <2>1. k - 1 \in Nat /\ k \in Nat /\ (k - 1) + 1 = k
        /\ \A i \in 1..k : t[i] \in R
        /\ \A j \in 1..k : j # k => j \in 1..(k - 1)
    OBVIOUS
  <2> HIDE DEF R
  <2>2. a \in Seq(R) /\ Len(a) = k - 1 /\ \A i \in 1..(k - 1) : a[i] = t[i]
    BY <2>1 DEF Prefix
  <2>3. b \in Seq(R) /\ Len(b) = k /\ \A i \in 1..k : b[i] = t[i]
    BY <2>1 DEF Prefix
  <2> HIDE DEF a, b
  <2>4. b = Append(a, t[k])
    <3> DEFINE c == Append(a, t[k])
    <3>1. c \in Seq(R) /\ Len(c) = k /\ c[k] = t[k] /\ \A i \in 1..(k - 1) : c[i] = t[i]
      BY <2>1, <2>2
    <3> HIDE DEF c
    <3>2. \A i \in 1..k : b[i] = c[i]
      BY <2>1, <2>3, <3>1
    <3>3. b = c
      BY <2>3, <3>1, <3>2
    <3> QED
      BY <3>3 DEF c
  <2>5. t[k] \in R
    BY <2>1
  <2>6. FlattenSeq(Append(a, t[k])) = FlattenSeq(a) \o t[k]
    BY <2>2, <2>5, FlattenAppend DEF R
  <2> QED
    BY <2>4, <2>6 DEF a, b
<1>3. Prefix(t, Len(t)) = t
  BY DEF Prefix
<1> QED
  BY <1>1, <1>2, <1>3

\* Steps to r that add the items of a list each, as m measures them.
Adds(t, S, X, base, step, r, m) ==
    /\ t \in Seq(Seq(S)) /\ m \in [X -> Seq(S)]
    /\ base \in X /\ Leads(Len(t), X, base, step, r)
    /\ \A k \in 1..Len(t) : \A x \in X :
          step[k][x] \in X /\ m[step[k][x]] = m[x] \o t[k]

\* Such steps add all of the items, in order.
LEMMA LeadsAdds ==
    ASSUME NEW S, NEW t, NEW X, NEW base, NEW step, NEW r, NEW m,
           Adds(t, S, X, base, step, r, m)
    PROVE  r \in X /\ m[r] = m[base] \o FlattenSeq(t)
<1> /\ t \in Seq(Seq(S)) /\ m \in [X -> Seq(S)]
    /\ base \in X /\ Leads(Len(t), X, base, step, r)
    /\ \A k \in 1..Len(t) : \A x \in X :
          step[k][x] \in X /\ m[step[k][x]] = m[x] \o t[k]
  BY DEF Adds
<1> DEFINE n == Len(t)
           f(k) == FlattenSeq(Prefix(t, k))
           I == [k \in 0..n |-> {x \in X : m[x] = m[base] \o f(k)}]
<1>1. n \in Nat /\ \A k \in 1..n : t[k] \in Seq(S)
  OBVIOUS
<1>2. /\ f(0) = <<>> /\ Prefix(t, n) = t
      /\ \A k \in 1..n : f(k) = f(k - 1) \o t[k]
  BY FlattenPrefix
<1>3. m[base] \in Seq(S)
  OBVIOUS
<1>4. \A k \in 1..n : f(k - 1) \in Seq(S)
  <2> SUFFICES ASSUME NEW k \in 1..n
               PROVE  f(k - 1) \in Seq(S)
    OBVIOUS
  <2> DEFINE W == Seq(S)
             p == Prefix(t, k - 1)
  <2>1. k - 1 \in Nat /\ \A i \in 1..(k - 1) : t[i] \in W
    OBVIOUS
  <2> HIDE DEF W
  <2>2. p \in Seq(W)
    <3>1. PICK j : j = k - 1
      OBVIOUS
    <3>2. [i \in 1..j |-> t[i]] \in Seq(W)
      BY <2>1, <3>1
    <3> QED
      BY <3>1, <3>2 DEF Prefix
  <2> HIDE DEF p
  <2>3. FlattenSeq(p) \in Seq(S)
    BY <2>2, FlattenType DEF W
  <2> QED
    BY <2>3 DEF p
<1> HIDE DEF n, f
<1>5. base \in I[0]
  <2>1. 0 \in 0..n
    BY <1>1
  <2>2. m[base] = m[base] \o <<>>
    BY <1>3
  <2> QED
    BY <1>2, <2>1, <2>2
<1>6. \A k \in 1..n : \A x \in I[k - 1] : step[k][x] \in I[k]
  <2> SUFFICES ASSUME NEW k \in 1..n, NEW x \in I[k - 1]
               PROVE  step[k][x] \in I[k]
    OBVIOUS
  <2>1. k - 1 \in 0..n /\ k \in 0..n
    BY <1>1
  <2>2. x \in X /\ m[x] = m[base] \o f(k - 1)
    BY <2>1
  <2>3. step[k][x] \in X /\ m[step[k][x]] = m[x] \o t[k]
    BY <2>2 DEF n
  <2>4. (m[base] \o f(k - 1)) \o t[k] = m[base] \o (f(k - 1) \o t[k])
    <3>1. PICK a, b, c : a = m[base] /\ b = f(k - 1) /\ c = t[k]
      OBVIOUS
    <3>2. a \in Seq(S) /\ b \in Seq(S) /\ c \in Seq(S)
      BY <1>1, <1>3, <1>4, <3>1
    <3>3. (a \o b) \o c = a \o (b \o c)
      BY <3>2
    <3> QED
      BY <3>1, <3>3
  <2> QED
    BY <1>2, <2>1, <2>2, <2>3, <2>4
<1> HIDE DEF I
<1>7. r \in I[n]
  <2>1. Leads(n, X, base, step, r)
    BY DEF n
  <2> QED
    BY <1>1, <1>5, <1>6, <2>1, LeadInduction
<1>8. n \in 0..n
  BY <1>1
<1>9. r \in X /\ m[r] = m[base] \o f(n)
  BY <1>7, <1>8 DEF I
<1> QED
  BY <1>2, <1>9 DEF f

\* What has nothing at the other places.
Dispensable(s, places, B, S, g) ==
    /\ s \in Seq(B) /\ g \in [B -> Seq(S)]
    /\ \A i \in DOMAIN s : i \notin places => g[s[i]] = <<>>

\* What Only leaves out of lists is not missed when it is empty.
LEMMA FlattenOnly ==
    ASSUME NEW S, NEW B, NEW s, NEW places, NEW g, Dispensable(s, places, B, S, g)
    PROVE  LET kept == Only(s, places)
           IN  FlattenSeq([i \in DOMAIN kept |-> g[kept[i]]])
                  = FlattenSeq([i \in DOMAIN s |-> g[s[i]]])
<1> /\ s \in Seq(B) /\ g \in [B -> Seq(S)]
    /\ \A i \in DOMAIN s : i \notin places => g[s[i]] = <<>>
  BY DEF Dispensable
<1> DEFINE X == Seq(B)
           all(x) == [i \in DOMAIN x |-> g[x[i]]]
           m == [x \in X |-> FlattenSeq(all(x))]
           t == all(s)
           step == OnlyStep(s, places, B)
           r == Only(s, places)
<1>1. \A x \in X : all(x) \in Seq(Seq(S))
  <2> SUFFICES ASSUME NEW x \in X
               PROVE  all(x) \in Seq(Seq(S))
    OBVIOUS
  <2>1. DOMAIN x = 1..Len(x) /\ Len(x) \in Nat /\ \A i \in DOMAIN x : g[x[i]] \in Seq(S)
    OBVIOUS
  <2> QED
    BY <2>1
<1>2. ASSUME NEW x \in X, NEW b \in B
      PROVE  all(Append(x, b)) = Append(all(x), g[b])
  <2> DEFINE a == all(x)
             c == all(Append(x, b))
             d == Append(all(x), g[b])
             y == Append(x, b)
  <2>1. y \in Seq(B) /\ Len(y) = Len(x) + 1 /\ y[Len(x) + 1] = b
        /\ \A i \in 1..Len(x) : y[i] = x[i]
    OBVIOUS
  <2>2. a \in Seq(Seq(S)) /\ Len(a) = Len(x) /\ \A i \in 1..Len(x) : a[i] = g[x[i]]
    BY <1>1
  <2>3. y \in X
    BY <2>1
  <2> HIDE DEF y, a
  <2>4. c \in Seq(Seq(S)) /\ Len(c) = Len(x) + 1
        /\ \A i \in 1..(Len(x) + 1) : c[i] = g[y[i]]
    <3> DEFINE e == all(y)
    <3>1. e \in Seq(Seq(S)) /\ Len(e) = Len(y) /\ \A i \in 1..Len(y) : e[i] = g[y[i]]
      BY <1>1, <2>1, <2>3
    <3>2. c = e
      BY DEF y
    <3> HIDE DEF e, c
    <3> QED
      BY <2>1, <3>1, <3>2
  <2>5. d \in Seq(Seq(S)) /\ Len(d) = Len(x) + 1 /\ d[Len(x) + 1] = g[b]
        /\ \A i \in 1..Len(x) : d[i] = g[x[i]]
    <3>1. PICK z, W : z = g[b] /\ W = Seq(S)
      OBVIOUS
    <3>2. a \in Seq(W) /\ z \in W /\ d = Append(a, z)
      BY <2>2, <3>1 DEF a
    <3> HIDE DEF d
    <3>3. d \in Seq(W) /\ Len(d) = Len(a) + 1 /\ d[Len(a) + 1] = z
          /\ \A i \in 1..Len(a) : d[i] = a[i]
      BY <3>2
    <3> QED
      BY <2>2, <3>1, <3>3
  <2> HIDE DEF c, d
  <2>6. c = d
    <3>1. \A i \in 1..(Len(x) + 1) : i # Len(x) + 1 => i \in 1..Len(x)
      OBVIOUS
    <3>2. ASSUME NEW i \in 1..(Len(x) + 1)
          PROVE  c[i] = d[i]
      <4>1. CASE i = Len(x) + 1
        BY <2>1, <2>4, <2>5, <4>1
      <4>2. CASE i # Len(x) + 1
        <5>1. i \in 1..Len(x)
          BY <3>1, <4>2
        <5>2. c[i] = g[y[i]]
          BY <2>4
        <5>3. y[i] = x[i]
          BY <2>1, <5>1
        <5>4. d[i] = g[x[i]]
          BY <2>5, <5>1
        <5> QED
          BY <5>2, <5>3, <5>4
      <4> QED
        BY <4>1, <4>2
    <3> QED
      BY <2>4, <2>5, <3>2
  <2> QED
    BY <2>6 DEF c, d
<1>3. m \in [X -> Seq(S)]
  <2>1. \A x \in X : FlattenSeq(all(x)) \in Seq(S)
    <3> HIDE DEF all
    <3> QED
      BY <1>1, FlattenType
  <2> HIDE DEF all
  <2> QED
    BY <2>1
<1>4. s \in X /\ <<>> \in X /\ m[<<>>] = <<>>
  <2>1. s \in X /\ <<>> \in X
    OBVIOUS
  <2>2. all(<<>>) = <<>>
    OBVIOUS
  <2> QED
    BY <2>1, <2>2, FlattenNone
<1>5. DOMAIN s = 1..Len(s) /\ Len(s) \in Nat /\ (\A i \in DOMAIN s : s[i] \in B)
      /\ Len(t) = Len(s) /\ t \in Seq(Seq(S)) /\ \A k \in DOMAIN s : t[k] = g[s[k]]
  BY <1>1, <1>4
<1>6. Leads(Len(s), X, <<>>, step, r)
  BY OnlyLeads
<1> HIDE DEF all, t, r, X
<1>7. \A k \in 1..Len(s) : \A x \in X :
         step[k][x] \in X /\ m[step[k][x]] = m[x] \o t[k]
  <2> SUFFICES ASSUME NEW k \in 1..Len(s), NEW x \in X
               PROVE  step[k][x] \in X /\ m[step[k][x]] = m[x] \o t[k]
    OBVIOUS
  <2>1. step[k][x] = IF k \in places THEN Append(x, s[k]) ELSE x
    BY DEF OnlyStep, X
  <2>2. CASE k \in places
    <3>1. Append(x, s[k]) \in X
      BY <1>5 DEF X
    <3>2. s[k] \in B
      BY <1>5
    <3>3. FlattenSeq(Append(all(x), g[s[k]])) = FlattenSeq(all(x)) \o g[s[k]]
      BY <1>1, <3>2, FlattenAppend
    <3> QED
      BY <1>2, <1>5, <2>1, <2>2, <3>1, <3>2, <3>3
  <2>3. CASE k \notin places
    <3>1. t[k] = <<>>
      BY <1>5, <2>3
    <3>2. m[x] \in Seq(S)
      BY <1>3
    <3>3. m[x] \o <<>> = m[x]
      BY <3>2
    <3> QED
      BY <2>1, <2>3, <3>1, <3>3
  <2> QED
    BY <2>2, <2>3
<1> HIDE DEF step, m
<1>8. r \in X /\ m[r] = m[<<>>] \o FlattenSeq(t)
  <2>1. PICK base : base = <<>>
    OBVIOUS
  <2>2. base \in X /\ Leads(Len(t), X, base, step, r)
    BY <1>4, <1>5, <1>6, <2>1
  <2>3. Adds(t, S, X, base, step, r, m)
    BY <1>3, <1>5, <1>7, <2>2 DEF Adds
  <2>4. r \in X /\ m[r] = m[base] \o FlattenSeq(t)
    BY <2>3, LeadsAdds
  <2> QED
    BY <2>1, <2>4
<1>9. FlattenSeq(t) \in Seq(S)
  BY <1>5, FlattenType
<1>10. m[r] = FlattenSeq(t)
  BY <1>4, <1>8, <1>9
<1> QED
  BY <1>8, <1>10 DEF m, r, t, all

\* A new section is empty.
LEMMA NewSectionTexts ==
    ASSUME NEW P, NEW sections \in Seq(Seq(P))
    PROVE  FlattenSeq(NewSection(sections)) = FlattenSeq(sections)
<1>1. <<>> \in Seq(P)
  OBVIOUS
<1>2. FlattenSeq(Append(sections, <<>>)) = FlattenSeq(sections) \o <<>>
  BY <1>1, FlattenAppend
<1>3. FlattenSeq(sections) \in Seq(P)
  BY FlattenType
<1>4. FlattenSeq(sections) \o <<>> = FlattenSeq(sections)
  BY <1>3
<1> QED
  BY <1>2, <1>4 DEF NewSection

\* A paragraph adds its texts, a heading none.
LEMMA AddParagraphTexts ==
    ASSUME NEW T, NEW P, Texted(P, T), NEW sections \in Seq(Seq(P)), sections # <<>>,
           NEW p \in P
    PROVE  Words(FlattenSeq(AddParagraph(sections, p)))
              = Words(FlattenSeq(sections)) \o TextsBelow(p)
<1> DEFINE all == FlattenSeq(sections)
<1>1. all \in Seq(P)
  BY FlattenType
<1>2. Words(all) \in Seq(T)
  BY <1>1, WordsType
<1>3. CASE IsHeading(p)
  <2>1. AddParagraph(sections, p) = NewSection(sections)
    BY <1>3 DEF AddParagraph
  <2>2. FlattenSeq(NewSection(sections)) = all
    BY NewSectionTexts
  <2>3. TextsBelow(p) = <<>>
    BY <1>3 DEF TextsBelow
  <2> HIDE DEF all
  <2>4. Words(all) \o <<>> = Words(all)
    BY <1>2
  <2> QED
    BY <2>1, <2>2, <2>3, <2>4 DEF all
<1>4. CASE ~IsHeading(p)
  <2> DEFINE q == Append(sections[Len(sections)], p)
             S == Seq(P)
  <2>1. AddParagraph(sections, p) = [sections EXCEPT ![Len(sections)] = q]
    BY <1>4 DEF AddParagraph
  <2>2. sections \in Seq(S) /\ sections[Len(sections)] = Last(sections)
        /\ sections[Len(sections)] \in S /\ q \in S
    BY DEF Last
  <2> HIDE DEF S, q
  <2>3. Fronted(S, sections, q)
    BY <2>2, LastReplaced
  <2>4. PICK front \in Seq(S) :
           /\ sections = Append(front, Last(sections)) /\ Last(sections) \in S
           /\ [sections EXCEPT ![Len(sections)] = q] = Append(front, q)
    BY <2>3, Zenon DEF Fronted
  <2> DEFINE a == FlattenSeq(front)
             l == Last(sections)
  <2>5. FlattenSeq(Append(front, q)) = a \o q
    BY <2>2, FlattenAppend DEF S
  <2>6. FlattenSeq(Append(front, l)) = a \o l
    BY <2>4, FlattenAppend DEF S
  <2>7. a \in Seq(P)
    BY FlattenType DEF S
  <2>8. q = Append(l, p) /\ l \in Seq(P)
    BY <2>2, <2>4 DEF q, S
  <2> HIDE DEF a, l
  <2>9. a \o Append(l, p) = Append(a \o l, p)
    BY <2>7, <2>8
  <2>10. a \o l = all
    BY <2>4, <2>6 DEF l
  <2>11. FlattenSeq(AddParagraph(sections, p)) = Append(all, p)
    BY <2>1, <2>4, <2>5, <2>8, <2>9, <2>10
  <2> HIDE DEF all
  <2>12. Words(Append(all, p)) = Words(all) \o p.texts
    BY <1>1, WordsAppend
  <2> QED
    BY <1>4, <2>11, <2>12 DEF TextsBelow, all
<1> QED
  BY <1>3, <1>4

\* A block adds the texts of its paragraphs but for the headings.
LEMMA AddBlockTexts ==
    ASSUME NEW T, NEW P, Texted(P, T), NEW sections \in Seq(Seq(P)) \ {<<>>},
           NEW b, b.paragraphs \in Seq(P)
    PROVE  /\ TextsOf(b) \in Seq(T)
           /\ Words(FlattenSeq(AddBlock(sections, b)))
                 = Words(FlattenSeq(sections)) \o TextsOf(b)
<1> DEFINE X == Seq(Seq(P)) \ {<<>>}
           s == b.paragraphs
           t == [i \in DOMAIN s |-> TextsBelow(s[i])]
           m == [x \in X |-> Words(FlattenSeq(x))]
           step == ParagraphStep(s, X)
           r == FoldLeft(AddParagraph, sections, s)
<1>1. \A x \in X : Words(FlattenSeq(x)) \in Seq(T)
  <2> SUFFICES ASSUME NEW x \in X
               PROVE  Words(FlattenSeq(x)) \in Seq(T)
    OBVIOUS
  <2>1. FlattenSeq(x) \in Seq(P)
    BY FlattenType
  <2> QED
    BY <2>1, WordsType
<1>2. s \in Seq(P) /\ DOMAIN s = 1..Len(s) /\ Len(s) \in Nat /\ \A i \in DOMAIN s : s[i] \in P
  OBVIOUS
<1>3. \A p \in P : TextsBelow(p) \in Seq(T)
  <2>1. <<>> \in Seq(T)
    OBVIOUS
  <2> QED
    BY <2>1 DEF TextsBelow, Texted
<1>4. t \in Seq(Seq(T)) /\ DOMAIN t = DOMAIN s /\ Len(t) = Len(s)
  BY <1>2, <1>3
<1>5. \A x \in X, p \in P :
         /\ AddParagraph(x, p) \in X
         /\ Words(FlattenSeq(AddParagraph(x, p))) = Words(FlattenSeq(x)) \o TextsBelow(p)
  <2> SUFFICES ASSUME NEW x \in X, NEW p \in P
               PROVE  /\ AddParagraph(x, p) \in X
                      /\ Words(FlattenSeq(AddParagraph(x, p)))
                            = Words(FlattenSeq(x)) \o TextsBelow(p)
    OBVIOUS
  <2>1. x \in Seq(Seq(P)) /\ x # <<>>
    OBVIOUS
  <2> QED
    BY <2>1, AddParagraphTexts, AddParagraphType
<1>6. sections \in X
  OBVIOUS
<1> HIDE DEF X
<1>7. Leads(Len(s), X, sections, step, r)
  BY <1>2, <1>5, <1>6, AddParagraphLeads
<1>8. m \in [X -> Seq(T)]
  BY <1>1
<1>9. \A k \in 1..Len(t) : \A x \in X :
         step[k][x] \in X /\ m[step[k][x]] = m[x] \o t[k]
  <2> SUFFICES ASSUME NEW k \in 1..Len(t), NEW x \in X
               PROVE  step[k][x] \in X /\ m[step[k][x]] = m[x] \o t[k]
    OBVIOUS
  <2>1. k \in 1..Len(s) /\ s[k] \in P /\ t[k] = TextsBelow(s[k])
    BY <1>2, <1>4
  <2>2. step[k][x] = AddParagraph(x, s[k])
    BY <2>1 DEF ParagraphStep
  <2> HIDE DEF t, s, step
  <2> QED
    BY <1>5, <2>1, <2>2
<1> HIDE DEF s, t, m, step, r
<1>10. Adds(t, T, X, sections, step, r, m)
  BY <1>4, <1>6, <1>7, <1>8, <1>9 DEF Adds
<1>11. r \in X /\ m[r] = m[sections] \o FlattenSeq(t)
  BY <1>10, LeadsAdds
<1>12. Words(FlattenSeq(r)) = Words(FlattenSeq(sections)) \o FlattenSeq(t)
  BY <1>6, <1>11 DEF m
<1>13. CASE b.level # 0
  <2>1. AddBlock(sections, b) = NewSection(sections) /\ TextsOf(b) = <<>>
    BY <1>13 DEF AddBlock, TextsOf
  <2>2. FlattenSeq(NewSection(sections)) = FlattenSeq(sections)
    BY NewSectionTexts
  <2>3. Words(FlattenSeq(sections)) \in Seq(T)
    BY <1>1, <1>6
  <2>4. Words(FlattenSeq(sections)) \o <<>> = Words(FlattenSeq(sections))
    BY <2>3
  <2> QED
    BY <2>1, <2>2, <2>4
<1>14. CASE b.level = 0
  <2>1. AddBlock(sections, b) = r
    BY <1>14 DEF AddBlock, r, s
  <2>2. TextsOf(b) = FlattenSeq(t)
    BY <1>14 DEF TextsOf, t, s
  <2>3. FlattenSeq(t) \in Seq(T)
    BY <1>4, FlattenType
  <2> QED
    BY <1>12, <2>1, <2>2, <2>3
<1> QED
  BY <1>13, <1>14

\* _build_sections: the sections have the texts that are in no heading.
LEMMA SectionsTexts ==
    ASSUME NEW T, NEW P, Texted(P, T), NEW B, \A b \in B : b.paragraphs \in Seq(P),
           NEW cleaned \in Seq(B)
    PROVE  Words(FlattenSeq(Sections(cleaned)))
              = FlattenSeq([i \in DOMAIN cleaned |-> TextsOf(cleaned[i])])
<1> DEFINE X == Seq(Seq(P)) \ {<<>>}
           base == <<<<>>>>
           t == [i \in DOMAIN cleaned |-> TextsOf(cleaned[i])]
           m == [x \in X |-> Words(FlattenSeq(x))]
           step == BlockStep(cleaned, X)
           all == FoldLeft(AddBlock, <<<<>>>>, cleaned)
<1>1. \A x \in X : Words(FlattenSeq(x)) \in Seq(T)
  <2> SUFFICES ASSUME NEW x \in X
               PROVE  Words(FlattenSeq(x)) \in Seq(T)
    OBVIOUS
  <2>1. FlattenSeq(x) \in Seq(P)
    BY FlattenType
  <2> QED
    BY <2>1, WordsType
<1>2. base \in X /\ Words(FlattenSeq(base)) = <<>>
  <2>1. PICK S : S = Seq(P)
    OBVIOUS
  <2>2. <<>> \in S /\ <<>> \in Seq(S)
    BY <2>1
  <2>3. base = Append(<<>>, <<>>) /\ base \in Seq(S) /\ base # <<>>
    BY <2>2
  <2>4. FlattenSeq(Append(<<>>, <<>>)) = FlattenSeq(<<>>) \o <<>>
    BY <2>1, <2>2, FlattenAppend
  <2>5. FlattenSeq(base) = <<>>
    BY <2>3, <2>4, FlattenNone
  <2> QED
    BY <2>1, <2>3, <2>5, WordsNone
<1>3. DOMAIN cleaned = 1..Len(cleaned) /\ Len(cleaned) \in Nat
      /\ \A i \in DOMAIN cleaned : cleaned[i] \in B
  OBVIOUS
<1>4. \A x \in X, b \in B :
         /\ AddBlock(x, b) \in X /\ TextsOf(b) \in Seq(T)
         /\ Words(FlattenSeq(AddBlock(x, b))) = Words(FlattenSeq(x)) \o TextsOf(b)
  BY AddBlockTexts, AddBlockType, SMTT(20)
<1>5. \A x \in X : x \in Seq(Seq(P))
  OBVIOUS
<1> HIDE DEF X, base
<1>6. \A b \in B : TextsOf(b) \in Seq(T)
  BY <1>2, <1>4
<1>7. t \in Seq(Seq(T)) /\ Len(t) = Len(cleaned)
  BY <1>3, <1>6
<1>8. Leads(Len(cleaned), X, base, step, all)
  BY <1>2, <1>4, AddBlockLeads DEF base
<1>9. m \in [X -> Seq(T)]
  BY <1>1
<1>10. \A k \in 1..Len(t) : \A x \in X :
          step[k][x] \in X /\ m[step[k][x]] = m[x] \o t[k]
  <2> SUFFICES ASSUME NEW k \in 1..Len(t), NEW x \in X
               PROVE  step[k][x] \in X /\ m[step[k][x]] = m[x] \o t[k]
    OBVIOUS
  <2>1. k \in 1..Len(cleaned) /\ cleaned[k] \in B /\ t[k] = TextsOf(cleaned[k])
    BY <1>3, <1>7
  <2>2. step[k][x] = AddBlock(x, cleaned[k])
    BY <2>1 DEF BlockStep
  <2> HIDE DEF t, step
  <2> QED
    BY <1>4, <2>1, <2>2
<1> HIDE DEF t, m, step, all
<1>11. Adds(t, T, X, base, step, all, m)
  BY <1>2, <1>7, <1>8, <1>9, <1>10 DEF Adds
<1>12. all \in X /\ m[all] = m[base] \o FlattenSeq(t)
  BY <1>11, LeadsAdds
<1>13. FlattenSeq(t) \in Seq(T)
  BY <1>7, FlattenType
<1>14. Words(FlattenSeq(all)) = <<>> \o FlattenSeq(t)
  BY <1>2, <1>12 DEF m
<1>15. <<>> \o FlattenSeq(t) = FlattenSeq(t)
  BY <1>13
<1>16. FlattenSeq(Sections(cleaned)) = FlattenSeq(all)
  <2> DEFINE S == Seq(P)
             places == {i \in DOMAIN all : all[i] # <<>>}
             g == [x \in S |-> x]
             kept == Only(all, places)
  <2>1. Sections(cleaned) = kept
    BY DEF Sections, all
  <2>2. all \in Seq(S)
    BY <1>5, <1>12
  <2>3. g \in [S -> Seq(P)] /\ \A i \in DOMAIN all : i \notin places => g[all[i]] = <<>>
    <3>1. <<>> \in S
      OBVIOUS
    <3> HIDE DEF S
    <3>2. \A i \in DOMAIN all : i \notin places => all[i] = <<>>
      OBVIOUS
    <3>3. \A x \in S : g[x] = x
      OBVIOUS
    <3> QED
      BY <3>1, <3>2, <3>3 DEF S
  <2> HIDE DEF g, places, S
  <2>7. Dispensable(all, places, S, P, g)
    BY <2>2, <2>3 DEF Dispensable
  <2>4. FlattenSeq([i \in DOMAIN kept |-> g[kept[i]]])
           = FlattenSeq([i \in DOMAIN all |-> g[all[i]]])
    BY <2>7, FlattenOnly
  <2>5. \A x \in Seq(S) : [i \in DOMAIN x |-> g[x[i]]] = x
    <3> SUFFICES ASSUME NEW x \in Seq(S)
                 PROVE  [i \in DOMAIN x |-> g[x[i]]] = x
      OBVIOUS
    <3>1. \A i \in DOMAIN x : g[x[i]] = x[i]
      BY DEF g
    <3>2. x = [i \in DOMAIN x |-> x[i]]
      OBVIOUS
    <3> QED
      BY <3>1, <3>2
  <2>6. kept \in Seq(S)
    BY <2>2, OnlyPicks
  <2> HIDE DEF kept
  <2> QED
    BY <2>1, <2>2, <2>4, <2>5, <2>6
<1> QED
  BY <1>14, <1>15, <1>16 DEF t

\* Lists of one item each make the list of the items.
LEMMA FlattenOnes ==
    ASSUME NEW S, NEW s \in Seq(S)
    PROVE  FlattenSeq([i \in DOMAIN s |-> <<s[i]>>]) = s
<1> DEFINE ones == [i \in DOMAIN s |-> <<s[i]>>]
           K == {k \in Nat : k <= Len(s) => FlattenSeq(Prefix(ones, k)) = Prefix(s, k)}
<1>1. DOMAIN s = 1..Len(s) /\ Len(s) \in Nat /\ \A i \in DOMAIN s : s[i] \in S
  OBVIOUS
<1>2. ones \in Seq(Seq(S)) /\ Len(ones) = Len(s) /\ \A i \in 1..Len(s) : ones[i] = <<s[i]>>
  <2>1. \A i \in DOMAIN s : <<s[i]>> \in Seq(S)
    BY <1>1
  <2> QED
    BY <1>1, <2>1
<1> HIDE DEF ones
<1>3. /\ FlattenSeq(Prefix(ones, 0)) = <<>> /\ Prefix(ones, Len(s)) = ones
      /\ \A k \in 1..Len(s) : FlattenSeq(Prefix(ones, k)) = FlattenSeq(Prefix(ones, k - 1)) \o ones[k]
  BY <1>2, FlattenPrefix
<1>4. 0 \in K
  <2>1. Prefix(s, 0) = <<>>
    BY DEF Prefix
  <2> QED
    BY <1>3, <2>1
<1>5. ASSUME NEW k \in Nat, k \in K
      PROVE  k + 1 \in K
  <2> SUFFICES ASSUME k + 1 <= Len(s)
               PROVE  FlattenSeq(Prefix(ones, k + 1)) = Prefix(s, k + 1)
    OBVIOUS
  <2>1. k + 1 \in 1..Len(s) /\ (k + 1) - 1 = k /\ k <= Len(s)
    BY <1>1
  <2>2. FlattenSeq(Prefix(ones, k + 1)) = FlattenSeq(Prefix(ones, (k + 1) - 1)) \o ones[k + 1]
    BY <1>3, <2>1
  <2>3. FlattenSeq(Prefix(ones, k)) = Prefix(s, k)
    BY <1>5, <2>1
  <2>4. ones[k + 1] = <<s[k + 1]>> /\ s[k + 1] \in S
    BY <1>1, <1>2, <2>1
  <2> DEFINE a == Prefix(s, k)
             b == Prefix(s, k + 1)
             c == a \o <<s[k + 1]>>
  <2>5. \A i \in 1..(k + 1) : s[i] \in S /\ (i # k + 1 => i \in 1..k)
    BY <1>1, <2>1
  <2>6. a \in Seq(S) /\ Len(a) = k /\ \A i \in 1..k : a[i] = s[i]
    BY <2>5 DEF Prefix
  <2>7. b \in Seq(S) /\ Len(b) = k + 1 /\ \A i \in 1..(k + 1) : b[i] = s[i]
    BY <2>5 DEF Prefix
  <2> HIDE DEF a, b
  <2>8. c \in Seq(S) /\ Len(c) = k + 1 /\ c[k + 1] = s[k + 1] /\ \A i \in 1..k : c[i] = s[i]
    <3>1. c = Append(a, s[k + 1])
      BY <2>4, <2>6
    <3> HIDE DEF c
    <3> QED
      BY <2>4, <2>6, <3>1
  <2> HIDE DEF c
  <2>9. b = c
    <3>1. \A i \in 1..(k + 1) : b[i] = c[i]
      BY <2>5, <2>7, <2>8
    <3> QED
      BY <2>7, <2>8, <3>1
  <2> QED
    BY <2>1, <2>2, <2>3, <2>4, <2>9 DEF a, b, c
<1> HIDE DEF K
<1>6. \A k \in Nat : k \in K
  BY <1>4, <1>5, Counting
<1>7. FlattenSeq(Prefix(ones, Len(s))) = Prefix(s, Len(s))
  <2>1. Len(s) \in K /\ Len(s) <= Len(s)
    BY <1>1, <1>6
  <2> QED
    BY <2>1 DEF K
<1>8. Prefix(s, Len(s)) = s
  BY <1>1 DEF Prefix
<1> QED
  BY <1>3, <1>7, <1>8 DEF ones

\* A line adds its text to the paragraphs.
LEMMA JoinLineWords ==
    ASSUME NEW L, Sized(L), NEW ps \in Seq(ParagraphsOf(L)), NEW l \in L
    PROVE  Words(JoinLine(ps, l)) = Words(ps) \o <<l.text>>
<1> DEFINE P == ParagraphsOf(L)
           T == {m.text : m \in L}
           p == Paragraph(l)
<1>1. p \in P /\ p.texts = <<l.text>>
  BY DEF Paragraph, ParagraphsOf, Sized
<1>2. Texted(P, T)
  BY ParagraphsTexted
<1>3. l.text \in T
  OBVIOUS
<1>4. ps \in Seq(P)
  OBVIOUS
<1>5. \A o \in P : Continued(o, l) \in P /\ Continued(o, l).texts = o.texts \o <<l.text>>
  <2> SUFFICES ASSUME NEW o \in P
               PROVE  Continued(o, l) \in P /\ Continued(o, l).texts = o.texts \o <<l.text>>
    OBVIOUS
  <2>1. /\ o.texts \in Seq(T) /\ o.length \in Nat \ {0} /\ l.text \in T
        /\ l.length \in Nat \ {0} /\ l.ends \in {m.ends : m \in L}
    BY DEF ParagraphsOf, Sized
  <2>2. Append(o.texts, l.text) \in Seq(T) /\ Append(o.texts, l.text) = o.texts \o <<l.text>>
    <3> HIDE DEF T
    <3> QED
      BY <2>1
  <2>3. o.length + 1 + l.length \in Nat \ {0}
    BY <2>1
  <2> QED
    BY <2>1, <2>2, <2>3 DEF Continued, ParagraphsOf
<1> HIDE DEF P, T, p
<1>6. CASE JoinLine(ps, l) = Append(ps, p)
  <2>1. Words(Append(ps, p)) = Words(ps) \o p.texts
    BY <1>1, <1>2, <1>4, WordsAppend
  <2> QED
    BY <1>1, <1>6, <2>1
<1>7. CASE ps # <<>> /\ JoinLine(ps, l) = [ps EXCEPT ![Len(ps)] = Continued(ps[Len(ps)], l)]
  <2>1. ps[Len(ps)] \in P /\ Last(ps) = ps[Len(ps)]
    BY <1>4, <1>7 DEF Last
  <2>2. PICK t, r : t = <<l.text>> /\ r = Continued(ps[Len(ps)], l)
    OBVIOUS
  <2>3. t \in Seq(T) /\ r \in P /\ r.texts = Last(ps).texts \o t
    <3>1. t \in Seq(T)
      BY <1>3, <2>2
    <3>2. PICK o \in P : o = ps[Len(ps)]
      BY <2>1
    <3>3. r = Continued(o, l)
      BY <2>2, <3>2
    <3>4. r \in P /\ r.texts = o.texts \o <<l.text>>
      BY <1>5, <3>3
    <3> QED
      BY <2>1, <2>2, <3>1, <3>2, <3>4
  <2>4. Lengthens(r, ps, t)
    BY <1>7, <2>3 DEF Lengthens
  <2>5. Words(Replaced(ps, r)) = Words(ps) \o t
    BY <1>2, <1>4, <2>3, <2>4, WordsReplaced
  <2> QED
    BY <1>7, <2>2, <2>5 DEF Replaced
<1>8. \/ JoinLine(ps, l) = Append(ps, p)
      \/ ps # <<>> /\ JoinLine(ps, l) = [ps EXCEPT ![Len(ps)] = Continued(ps[Len(ps)], l)]
  <2>1. CASE ps = <<>>
    <3>1. <<p>> = Append(<<>>, p)
      OBVIOUS
    <3> QED
      BY <2>1, <3>1 DEF JoinLine, p
  <2>2. CASE ps # <<>>
    BY <2>2 DEF JoinLine, p
  <2> QED
    BY <2>1, <2>2
<1> QED
  BY <1>6, <1>7, <1>8

\* _clean_blocks loses, repeats and mixes up no line that it keeps: the paragraphs
\* have the texts of the lines in their order.
THEOREM JoinedCorrect ==
    ASSUME NEW L, Sized(L), NEW lines \in Seq(L)
    PROVE  Words(Joined(lines)) = [i \in DOMAIN lines |-> lines[i].text]
<1> DEFINE P == ParagraphsOf(L)
           T == {l.text : l \in L}
           X == Seq(P)
           texts == [i \in DOMAIN lines |-> lines[i].text]
           t == [i \in DOMAIN texts |-> <<texts[i]>>]
           m == [x \in X |-> Words(x)]
           step == JoinLineStep(lines, X)
           r == Joined(lines)
<1>1. DOMAIN lines = 1..Len(lines) /\ Len(lines) \in Nat /\ \A i \in DOMAIN lines : lines[i] \in L
  OBVIOUS
<1>2. texts \in Seq(T) /\ DOMAIN texts = DOMAIN lines
  BY <1>1
<1>3. t \in Seq(Seq(T)) /\ Len(t) = Len(lines)
      /\ \A k \in 1..Len(lines) : t[k] = <<lines[k].text>>
  <2>1. \A i \in 1..Len(lines) : <<lines[i].text>> \in Seq(T)
    BY <1>1
  <2> QED
    BY <1>1, <2>1
<1>4. \A x \in X, l \in L : JoinLine(x, l) \in X /\ Words(JoinLine(x, l)) = Words(x) \o <<l.text>>
  BY JoinLineType, JoinLineWords
<1>5. Texted(P, T)
  BY ParagraphsTexted
<1> HIDE DEF P, T, texts, t
<1>6. <<>> \in X
  OBVIOUS
<1>7. \A x \in X : Words(x) \in Seq(T)
  BY <1>5, WordsType
<1> HIDE DEF X
<1>8. Leads(Len(lines), X, <<>>, step, r)
  BY <1>4, <1>6, JoinLineLeads DEF Joined
<1>9. m \in [X -> Seq(T)]
  BY <1>7
<1>10. \A k \in 1..Len(t) : \A x \in X :
          step[k][x] \in X /\ m[step[k][x]] = m[x] \o t[k]
  <2> SUFFICES ASSUME NEW k \in 1..Len(t), NEW x \in X
               PROVE  step[k][x] \in X /\ m[step[k][x]] = m[x] \o t[k]
    OBVIOUS
  <2>1. k \in 1..Len(lines) /\ lines[k] \in L /\ t[k] = <<lines[k].text>>
    BY <1>1, <1>3
  <2>2. step[k][x] = JoinLine(x, lines[k])
    BY <2>1 DEF JoinLineStep
  <2> HIDE DEF step
  <2> QED
    BY <1>4, <2>1, <2>2
<1> DEFINE base == <<>>
<1>11. base \in X /\ m[base] = <<>>
  BY <1>6, WordsNone
<1> HIDE DEF m, step, r, base
<1>12. Adds(t, T, X, base, step, r, m)
  BY <1>3, <1>8, <1>9, <1>10, <1>11 DEF Adds, base
<1>13. r \in X /\ m[r] = m[base] \o FlattenSeq(t)
  BY <1>12, LeadsAdds
<1>14. FlattenSeq(t) = texts
  BY <1>2, FlattenOnes DEF t
<1>15. <<>> \o texts = texts
  BY <1>2
<1> QED
  BY <1>11, <1>13, <1>14, <1>15 DEF m, r, texts

\* The blocks that are left out have no text.
LEMMA CleanedTexts ==
    ASSUME NEW T, NEW P, Texted(P, T), NEW blocks, blocks \in Seq(Range(blocks)),
           \A i \in DOMAIN blocks : Joined(KeptLines(blocks, blocks[i])) \in Seq(P)
    PROVE  FlattenSeq([i \in DOMAIN Cleaned(blocks) |-> TextsOf(Cleaned(blocks)[i])])
              = FlattenSeq([i \in DOMAIN blocks |->
                   TextsOf([level |-> blocks[i].level,
                            paragraphs |-> Joined(KeptLines(blocks, blocks[i]))])])
<1> DEFINE joined(i) == [level |-> blocks[i].level,
                         paragraphs |-> Joined(KeptLines(blocks, blocks[i]))]
           cleaned == [i \in DOMAIN blocks |-> joined(i)]
           B == Range(cleaned)
           places == {i \in DOMAIN cleaned : cleaned[i].paragraphs # <<>>}
           g == [b \in B |-> TextsOf(b)]
           kept == Only(cleaned, places)
<1>1. DOMAIN blocks = 1..Len(blocks) /\ Len(blocks) \in Nat
  OBVIOUS
<1>2. \A b \in B : b.paragraphs \in Seq(P)
  BY DEF Range
<1>3. \A b \in B : TextsOf(b) \in Seq(T)
  <2>1. <<<<>>>> \in Seq(Seq(P)) \ {<<>>}
    <3>1. PICK S : S = Seq(P)
      OBVIOUS
    <3>2. <<>> \in S
      BY <3>1
    <3>3. <<<<>>>> \in Seq(S) /\ <<<<>>>> # <<>>
      BY <3>2
    <3> QED
      BY <3>1, <3>3
  <2> HIDE DEF B
  <2> QED
    BY <1>2, <2>1, AddBlockTexts
<1>4. cleaned \in Seq(B) /\ \A i \in DOMAIN cleaned : cleaned[i] \in B
  <2> HIDE DEF joined
  <2> QED
    BY <1>1 DEF Range
<1>5. Cleaned(blocks) = kept
  BY DEF Cleaned
<1>6. \A i \in DOMAIN blocks : cleaned[i] = joined(i)
  OBVIOUS
<1>7. DOMAIN cleaned = DOMAIN blocks
  OBVIOUS
<1> HIDE DEF cleaned, B, joined
<1>8. \A i \in DOMAIN cleaned : i \notin places => g[cleaned[i]] = <<>>
  <2> SUFFICES ASSUME NEW i \in DOMAIN cleaned, cleaned[i].paragraphs = <<>>
               PROVE  TextsOf(cleaned[i]) = <<>>
    BY <1>4
  <2>1. [j \in DOMAIN <<>> |-> TextsBelow(<<>>[j])] = <<>>
    OBVIOUS
  <2> QED
    BY <2>1, FlattenNone DEF TextsOf
<1>9. g \in [B -> Seq(T)]
  BY <1>3
<1> HIDE DEF places
<1>10. kept \in Seq(B)
  BY <1>4, OnlyPicks
<1> HIDE DEF kept, g
<1>11. Dispensable(cleaned, places, B, T, g)
  BY <1>4, <1>8, <1>9 DEF Dispensable
<1>12. FlattenSeq([i \in DOMAIN kept |-> g[kept[i]]])
          = FlattenSeq([i \in DOMAIN cleaned |-> g[cleaned[i]]])
  BY <1>11, FlattenOnly DEF kept
<1>13. \A i \in DOMAIN kept : kept[i] \in B
  BY <1>10
<1>14. [i \in DOMAIN kept |-> g[kept[i]]] = [i \in DOMAIN kept |-> TextsOf(kept[i])]
  BY <1>13 DEF g
<1>15. [i \in DOMAIN cleaned |-> g[cleaned[i]]] = [i \in DOMAIN blocks |-> TextsOf(joined(i))]
  BY <1>4, <1>6, <1>7 DEF g
<1> QED
  BY <1>5, <1>12, <1>14, <1>15 DEF joined

\* Whatever is uploaded, its chunks have all of its text below the headings.
LEMMA UploadsRead ==
    ASSUME NEW c \in Contents, Prepared[c] # None
    PROVE  /\ Words(Prepared[c]) = TextBelowHeadings[c]
           /\ \A i \in DOMAIN Prepared[c] : Prepared[c][i].length \in 1..ChunkLimit
<1> DEFINE blocks == Raw[c].blocks
           L == LinesIn(blocks)
           P == ParagraphsOf(L)
           T == {l.text : l \in L}
           cleaned == Cleaned(blocks)
           sections == Sections(cleaned)
<1>1. blocks # None /\ Prepared[c] = Chunks(blocks)
  BY DEF Prepared
<1>2. /\ blocks \in Seq(Range(blocks))
      /\ \A b \in Range(blocks) :
            /\ b.lines \in Seq(Range(b.lines))
            /\ \A l \in Range(b.lines) : l.length \in Nat \ {0}
  BY <1>1, ContentAssumption
<1>3. TextBelowHeadings[c] =
         FlattenSeq([i \in DOMAIN blocks |->
            TextsOf([level |-> blocks[i].level,
                     paragraphs |-> Joined(KeptLines(blocks, blocks[i]))])])
  BY DEF TextBelowHeadings
<1> HIDE DEF blocks
<1>4. Sized(L)
  BY <1>2 DEF Sized, LinesIn
<1>5. PICK B : /\ \A b \in B : b.paragraphs \in Seq(ParagraphsOf(L))
               /\ cleaned \in Seq(B)
  BY <1>2, <1>4, CleanedType
<1>9. Words(FlattenSeq(sections)) = TextBelowHeadings[c]
  <2>1. Texted(P, T)
    BY ParagraphsTexted
  <2>2. \A b \in B : b.paragraphs \in Seq(P)
    BY <1>5
  <2>3. \A i \in DOMAIN blocks : Joined(KeptLines(blocks, blocks[i])) \in Seq(P)
    BY <1>2, <1>4, ParagraphsJoined
  <2> HIDE DEF P, T, cleaned
  <2>4. Words(FlattenSeq(sections)) = FlattenSeq([i \in DOMAIN cleaned |-> TextsOf(cleaned[i])])
    BY <1>5, <2>1, <2>2, SectionsTexts
  <2>5. blocks \in Seq(Range(blocks))
    BY <1>2
  <2>6. FlattenSeq([i \in DOMAIN Cleaned(blocks) |-> TextsOf(Cleaned(blocks)[i])])
           = TextBelowHeadings[c]
    BY <1>3, <2>1, <2>3, <2>5, CleanedTexts
  <2> QED
    BY <2>4, <2>6 DEF cleaned
<1> HIDE DEF cleaned
<1>6. sections \in Seq(Seq(ParagraphsOf(L)))
  BY <1>5, SectionsType
<1>7. sections = Sections(Cleaned(blocks))
  BY DEF cleaned
<1> HIDE DEF sections, L
<1>8. /\ Words(Chunks(blocks)) = Words(FlattenSeq(sections))
      /\ \A i \in DOMAIN Chunks(blocks) : Chunks(blocks)[i].length \in 1..ChunkLimit
  BY <1>4, <1>6, <1>7, ChunksWords
<1> QED
  BY <1>1, <1>8, <1>9

\* Every snapshot is of its version's content and of no other version's, and
\* DocumentProcessingPipeline.process loses and repeats nothing of it: its chunks
\* have all of the text below the headings, once and in order, none too long.
THEOREM SnapshotsCorrect == Spec => []SnapshotsComplete
<1>1. IInv => SnapshotsComplete
  <2> SUFFICES ASSUME IInv
               PROVE  SnapshotsComplete
    OBVIOUS
  <2>1. SnapshotsOfVersions
    BY DEF IInv
  <2>2. ASSUME NEW p \in DOMAIN snapshots
        PROVE  /\ Words(snapshots[p].chunks) = TextBelowHeadings[snapshots[p].checksum]
               /\ \A i \in DOMAIN snapshots[p].chunks :
                     snapshots[p].chunks[i].length \in 1..ChunkLimit
    <3>1. PICK c \in Contents : c = snapshots[p].checksum
      BY <2>1 DEF SnapshotsOfVersions
    <3>2. Prepared[c] # None /\ snapshots[p].chunks = Prepared[c]
      BY <2>1, <3>1 DEF SnapshotsOfVersions
    <3> QED
      BY <3>1, <3>2, UploadsRead
  <2> QED
    BY <2>1, <2>2 DEF SnapshotsComplete, SnapshotsOfVersions, Words
<1> QED
  BY <1>1, Invariance, PTL
==============================================================================
