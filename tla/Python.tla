------------------------------- MODULE Python -------------------------------
(* What the models take of Python: None, the comprehension that keeps some    *)
(* items of a list, the update of a dict, and sorted().                       *)
EXTENDS Integers, Sequences, FiniteSets

\* The absent value of every optional field, different from every value.
CONSTANT None

\* [x for x in s if ...]: the items at some places, in their order.
Only(s, places) ==
    LET kept[n \in 0..Len(s)] ==
            IF n = 0 THEN <<>>
            ELSE IF n \in places THEN Append(kept[n - 1], s[n])
            ELSE kept[n - 1]
    IN  kept[Len(s)]

\* {**d, **e}: the entries of both, those of e where both have one.
Merged(d, e) == [x \in DOMAIN d \cup DOMAIN e |-> IF x \in DOMAIN e THEN e[x]
                                                 ELSE d[x]]

\* Tuples of numbers are compared at the first place where they differ.
Below(k, l) == \E n \in DOMAIN k : /\ k[n] < l[n]
                                   /\ \A m \in 1..(n - 1) : k[m] = l[m]

\* A place goes behind those whose key is not above its own.
Placed(order, key, n) ==
    LET before == Cardinality({k \in DOMAIN order :
                                  ~Below(key[n], key[order[k]])})
    IN  SubSeq(order, 1, before) \o <<n>>
            \o SubSeq(order, before + 1, Len(order))

\* sorted(s, key=...), where key[n] is the key of the n-th item: the lowest key
\* first, equal keys in the order of s.
Sorted(s, key) ==
    LET order[n \in 0..Len(s)] ==
            IF n = 0 THEN <<>> ELSE Placed(order[n - 1], key, n)
    IN  [k \in DOMAIN order[Len(s)] |-> s[order[Len(s)][k]]]
=============================================================================
