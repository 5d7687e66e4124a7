-------------------------------- MODULE Maps --------------------------------
(* A HashMap is a function whose domain is the set of its keys.            *)
EXTENDS FiniteSetsExt

EmptyMap == [x \in {} |-> x]

\* insert: adds a key or replaces its value.
Put(map, k, v) == [x \in DOMAIN map \cup {k} |-> IF x = k THEN v ELSE map[x]]

\* remove, for every key in S.
Without(map, S) == [x \in DOMAIN map \ S |-> map[x]]

\* The orders in which a loop may run over the entries of a HashMap.
Orders(S) == Injection(1 .. Cardinality(S), S)

\* op over the elements of a sequence, from the first to the last.
FoldInOrder(op(_, _), base, s) ==
  MapThenFoldSet(LAMBDA x, y : op(y, x), base, LAMBDA i : s[i], Max, DOMAIN s)

\* The places I of s, after sort_by_key on the fee, which is stable, and reverse.
SortByFee(s, I) ==
  LET rank(i) == 1 + Cardinality({j \in I :
                       s[j].fee > s[i].fee \/ (s[j].fee = s[i].fee /\ j > i)})
  IN  [r \in 1 .. Cardinality(I) |-> s[CHOOSE i \in I : rank(i) = r]]

\* The sum of the values of the keys in S, and that of all the values.
SumOver(map, S) == MapThenSumSet(LAMBDA x : map[x], S)
SumOf(map) == SumOver(map, DOMAIN map)
=============================================================================
