---------------------------- MODULE SumTheorems -----------------------------
(***************************************************************************)
(* Induction over numbers and finite sets, and facts about the sums and    *)
(* the sorting of Maps.  Induction is by a least counterexample of a       *)
(* well-founded order; what is shown by induction is stated as the set of  *)
(* its instances.                                                          *)
(***************************************************************************)
EXTENDS Integers, Sequences, Maps, FiniteSetTheorems, WellFoundedInduction, TLAPS

-----------------------------------------------------------------------------
(* Induction.                                                              *)

\* Every set of numbers that has an element has a least one.
LEMMA LeastNat ==
  ASSUME NEW T, T \subseteq Nat, T # {}
  PROVE  \E n \in T : \A m \in T : n <= m
<1>1. PICK n \in T : \A m \in T : ~(<<m, n>> \in OpToRel(<, Nat))
  BY NatLessThanWellFounded, WFMin, Zenon
<1>2. \A m \in T : <<m, n>> \in Nat \X Nat
  BY <1>1, Zenon
<1>3. \A m \in T : ~(m < n)
  BY <1>1, <1>2, Zenon DEF OpToRel
<1>4. \A m \in T : n <= m
  BY <1>3
<1> QED BY <1>4, Zenon

\* A set that holds 0 and the successor of each of its numbers holds them all.
LEMMA NatInductive ==
  ASSUME NEW P, 0 \in P, \A n \in Nat : n \in P => n + 1 \in P
  PROVE  Nat \subseteq P
<1>1. SUFFICES ASSUME Nat \ P # {} PROVE FALSE
  BY Zenon
<1>2. PICK n \in Nat \ P : \A m \in Nat \ P : n <= m
  BY <1>1, LeastNat, Zenon
<1>3. n - 1 \in Nat /\ n - 1 \in P
  BY <1>2
<1> QED BY <1>2, <1>3

\* The first n values of the iteration of next from x.
Path(S, x, next, n, f) ==
  /\ f \in [0 .. n -> S]
  /\ f[0] = x
  /\ \A i \in 0 .. n - 1 : f[i + 1] = next[<<i, f[i]>>]

LEMMA PathExists ==
  ASSUME NEW S, NEW x \in S, NEW next, \A i \in Nat, s \in S : next[<<i, s>>] \in S
  PROVE  \A n \in Nat : \E f : Path(S, x, next, n, f)
<1>. DEFINE P == {n \in Nat : \E f : Path(S, x, next, n, f)}
<1>1. 0 \in P
  <2>1. Path(S, x, next, 0, [i \in 0 .. 0 |-> x])
    BY DEF Path
  <2>. QED
    BY <2>1, Zenon
<1>2. ASSUME NEW n \in Nat, n \in P PROVE n + 1 \in P
  <2>1. PICK f : Path(S, x, next, n, f)
    BY <1>2, Zenon
  <2>. DEFINE g == [i \in 0 .. n + 1 |-> IF i = n + 1 THEN next[<<n, f[n]>>] ELSE f[i]]
  <2>2. \A i \in 0 .. n : g[i] = f[i] /\ f[i] \in S
    <3>1. \A i \in 0 .. n : f[i] \in S /\ i \in 0 .. n + 1 /\ i # n + 1
      BY <2>1 DEF Path
    <3>. QED
      BY <3>1, Zenon
  <2>3. g[n + 1] = next[<<n, f[n]>>] /\ g[n + 1] \in S
    <3>1. n \in 0 .. n /\ n + 1 \in 0 .. n + 1
      OBVIOUS
    <3>2. next[<<n, f[n]>>] \in S
      BY <2>2, <3>1, Zenon
    <3>. QED
      BY <3>1, <3>2, Zenon
  <2>4. g \in [0 .. n + 1 -> S]
    <3>1. ASSUME NEW i \in 0 .. n + 1 PROVE g[i] \in S
      <4>1. i = n + 1 \/ i \in 0 .. n
        OBVIOUS
      <4>. QED
        BY <2>2, <2>3, <4>1, Zenon
    <3>. QED
      BY <3>1, Zenon
  <2>5. ASSUME NEW i \in 0 .. n PROVE g[i + 1] = next[<<i, g[i]>>]
    <3>1. CASE i = n
      BY <2>2, <2>3, <3>1, Zenon
    <3>2. CASE i # n
      <4>1. i \in 0 .. n - 1 /\ i + 1 \in 0 .. n
        BY <3>2
      <4>2. f[i + 1] = next[<<i, f[i]>>]
        BY <2>1, <4>1, Zenon DEF Path
      <4>. QED
        BY <2>2, <4>1, <4>2, Zenon
    <3>. QED
      BY <3>1, <3>2, Zenon
  <2>6. g[0] = x
    BY <2>1, <2>2 DEF Path
  <2>. HIDE DEF g
  <2>7. Path(S, x, next, n + 1, g)
    BY <2>4, <2>5, <2>6 DEF Path
  <2>. QED
    BY <2>7
<1>3. Nat \subseteq P
  <2>. HIDE DEF P
  <2>. QED
    BY <1>1, <1>2, NatInductive, Zenon
<1>. QED
  BY <1>3, Zenon

LEMMA PathsAgree ==
  ASSUME NEW S, NEW x, NEW next, NEW n \in Nat, NEW f, Path(S, x, next, n, f),
         NEW m \in Nat, n <= m, NEW g, Path(S, x, next, m, g)
  PROVE  f[n] = g[n]
<1>. DEFINE P == {i \in Nat : i <= n => f[i] = g[i]}
<1>1. 0 \in P
  BY Zenon DEF Path
<1>2. ASSUME NEW i \in Nat, i \in P PROVE i + 1 \in P
  <2>. SUFFICES ASSUME i + 1 <= n PROVE f[i + 1] = g[i + 1]
    OBVIOUS
  <2>1. i \in 0 .. n - 1 /\ i \in 0 .. m - 1 /\ f[i] = g[i]
    BY <1>2
  <2>. QED
    BY <2>1, Zenon DEF Path
<1>3. Nat \subseteq P
  <2>. HIDE DEF P
  <2>. QED
    BY <1>1, <1>2, NatInductive, Zenon
<1>. QED
  BY <1>3

\* f is the iteration of next from x.
Iterates(S, x, next, f) ==
  f \in [Nat -> S] /\ f[0] = x /\ \A n \in Nat : f[n + 1] = next[<<n, f[n]>>]

\* Any step can be iterated: so a function that is defined by recursion over
\* the numbers exists.
LEMMA Iteration ==
  ASSUME NEW S, NEW x \in S, NEW next, \A i \in Nat, s \in S : next[<<i, s>>] \in S
  PROVE  \E f : Iterates(S, x, next, f)
<1>. DEFINE path(n) == CHOOSE g : Path(S, x, next, n, g)
            f == [n \in Nat |-> path(n)[n]]
<1>1. \A n \in Nat : Path(S, x, next, n, path(n))
  BY PathExists, Zenon
<1>. HIDE DEF path
<1>2. ASSUME NEW n \in Nat
      PROVE  f[n] \in S /\ f[n + 1] = next[<<n, f[n]>>]
  <2>1. Path(S, x, next, n, path(n)) /\ Path(S, x, next, n + 1, path(n + 1))
    BY <1>1
  <2>2. path(n)[n] = path(n + 1)[n]
    BY <2>1, PathsAgree
  <2>3. f[n] = path(n)[n] /\ f[n + 1] = path(n + 1)[n + 1]
    OBVIOUS
  <2>4. n \in 0 .. n /\ n \in 0 .. (n + 1) - 1
    OBVIOUS
  <2>5. path(n)[n] \in S /\ path(n + 1)[n + 1] = next[<<n, path(n + 1)[n]>>]
    BY <2>1, <2>4, Zenon DEF Path
  <2>. QED
    BY <2>2, <2>3, <2>5, Zenon
<1>3. f[0] = x
  BY <1>1, Zenon DEF Path
<1>4. f \in [Nat -> S]
  BY <1>2, Zenon
<1>. HIDE DEF f
<1>. QED
  BY <1>2, <1>3, <1>4, Zenon DEF Iterates

\* Of some subsets of a finite set, one has no other of them inside.
LEMMA LeastSubset ==
  ASSUME NEW S, IsFiniteSet(S), NEW P, P \subseteq SUBSET S, P # {}
  PROVE  \E B \in P : \A C \in P : C \subseteq B => C = B
<1>1. IsWellFoundedOn(StrictSubsetOrdering(S), SUBSET S)
  BY FS_StrictSubsetOrderingWellFounded, FS_FiniteSubsetsOfFinite, Zenon
<1>2. PICK B \in P : \A C \in P : ~(<<C, B>> \in StrictSubsetOrdering(S))
  BY <1>1, WFMin, Zenon
<1>3. \A C \in P : C \subseteq B /\ C # B => <<C, B>> \in StrictSubsetOrdering(S)
  BY <1>2, Zenon DEF StrictSubsetOrdering
<1>4. \A C \in P : C \subseteq B => C = B
  BY <1>2, <1>3, Zenon
<1> QED BY <1>4, Zenon

\* The element that a sum takes first.
First(s) == CHOOSE x \in s : TRUE

LEMMA FirstIn ==
  ASSUME NEW s, s # {}
  PROVE  First(s) \in s
BY Zenon DEF First

\* What holds of the empty set, and of a set when it holds of the set without
\* its first element, holds of every finite set.
LEMMA FirstInductive ==
  ASSUME NEW S, IsFiniteSet(S), NEW P, {} \in P,
         \A T \in SUBSET S : T # {} /\ T \ {First(T)} \in P => T \in P
  PROVE  S \in P
<1> DEFINE Bad == (SUBSET S) \ P
<1>1. SUFFICES ASSUME Bad # {} PROVE FALSE
  BY Zenon
<1>2. Bad \subseteq SUBSET S
  BY Zenon
<1> HIDE DEF Bad
<1>3. PICK B \in Bad : \A C \in Bad : C \subseteq B => C = B
  BY <1>1, <1>2, LeastSubset
<1>4. B # {} /\ B \subseteq S /\ B \notin P
  BY <1>3, Zenon DEF Bad
<1>5. B \ {First(B)} # B
  BY <1>4, FirstIn, Zenon
<1>6. B \ {First(B)} \in P
  BY <1>3, <1>4, <1>5 DEF Bad
<1> QED BY <1>4, <1>6, Zenon

\* The values of a map on a finite set are finitely many.
LEMMA ImageIsFinite ==
  ASSUME NEW S, IsFiniteSet(S), NEW f
  PROVE  IsFiniteSet({f[x] : x \in S})
<1> DEFINE T == {f[x] : x \in S}
           g == [x \in S |-> f[x]]
<1>1. g \in Surjection(S, T)
  BY Zenon DEF Surjection
<1> HIDE DEF T, g
<1>2. IsFiniteSet(T)
  BY <1>1, FS_Surjection, Zenon
<1> QED BY <1>2, Zenon DEF T

-----------------------------------------------------------------------------
(* The recursion behind a sum has a solution, and the solutions for a set  *)
(* and for a larger one agree.                                             *)

Sums(f, S, g) ==
  g = [s \in SUBSET S |-> IF s = {} THEN 0 ELSE f[First(s)] + g[s \ {First(s)}]]

Table(f, S) == CHOOSE g : Sums(f, S, g)

LEMMA SumIsTable ==
  ASSUME NEW f, NEW S
  PROVE  SumOver(f, S) = Table(f, S)[S]
BY Zenon DEF SumOver, MapThenSumSet, MapThenFoldSet, Table, Sums, First

LEMMA SumsStep ==
  ASSUME NEW f, NEW S, NEW g, Sums(f, S, g), NEW s \in SUBSET S
  PROVE  g[s] = IF s = {} THEN 0 ELSE f[First(s)] + g[s \ {First(s)}]
BY Zenon DEF Sums

LEMMA SumsAgree ==
  ASSUME NEW f, NEW S, IsFiniteSet(S), NEW T \in SUBSET S,
         NEW g, Sums(f, S, g), NEW h, Sums(f, T, h)
  PROVE  \A s \in SUBSET T : g[s] = h[s]
<1> DEFINE Bad == {s \in SUBSET T : g[s] # h[s]}
<1>1. SUFFICES ASSUME Bad # {} PROVE FALSE
  BY Zenon
<1>2. Bad \subseteq SUBSET S
  BY Zenon
<1> HIDE DEF Bad
<1>3. PICK s \in Bad : \A r \in Bad : r \subseteq s => r = s
  BY <1>1, <1>2, LeastSubset
<1>4. s \in SUBSET T /\ s \in SUBSET S /\ g[s] # h[s]
  BY <1>3, Zenon DEF Bad
<1>5. /\ g[s] = IF s = {} THEN 0 ELSE f[First(s)] + g[s \ {First(s)}]
      /\ h[s] = IF s = {} THEN 0 ELSE f[First(s)] + h[s \ {First(s)}]
  BY <1>4, SumsStep
<1>6. s # {}
  BY <1>4, <1>5, Zenon
<1>7. s \ {First(s)} \notin Bad
  BY <1>3, <1>6, FirstIn, Zenon
<1>8. g[s \ {First(s)}] = h[s \ {First(s)}]
  BY <1>4, <1>7, Zenon DEF Bad
<1> QED BY <1>4, <1>5, <1>6, <1>8, Zenon

LEMMA TableExists ==
  ASSUME NEW f, NEW S, IsFiniteSet(S)
  PROVE  Sums(f, S, Table(f, S))
<1> DEFINE Bad == {T \in SUBSET S : ~Sums(f, T, Table(f, T))}
<1>1. SUFFICES ASSUME Bad # {} PROVE FALSE
  BY Zenon
<1>2. Bad \subseteq SUBSET S
  BY Zenon
<1> HIDE DEF Bad
<1>3. PICK T \in Bad : \A U \in Bad : U \subseteq T => U = T
  BY <1>1, <1>2, LeastSubset
<1>4. T \in SUBSET S /\ ~Sums(f, T, Table(f, T))
  BY <1>3, Zenon DEF Bad
<1> DEFINE G(U) == Table(f, U)[U]
           g == [s \in SUBSET T |-> IF s = {} THEN 0 ELSE f[First(s)] + G(s \ {First(s)})]
<1>5. \A U \in SUBSET T : U # T => Sums(f, U, Table(f, U))
  BY <1>3, <1>4, Zenon DEF Bad
<1>6. ASSUME NEW U \in SUBSET T, U # T
      PROVE  g[U] = G(U)
  <2>1. Sums(f, U, Table(f, U))
    BY <1>5, <1>6, Zenon
  <2>2. Table(f, U)[U] = IF U = {} THEN 0 ELSE f[First(U)] + Table(f, U)[U \ {First(U)}]
    BY <2>1, SumsStep
  <2>3. CASE U = {}
    BY <2>2, <2>3, Zenon
  <2>4. CASE U # {}
    <3> DEFINE V == U \ {First(U)}
    <3>1. V \in SUBSET U /\ V \in SUBSET T /\ V # T
      BY <1>6, <2>4, FirstIn, Zenon
    <3>2. Sums(f, V, Table(f, V))
      BY <1>5, <3>1, Zenon
    <3>3. IsFiniteSet(U)
      BY <1>4, FS_Subset, Zenon
    <3> HIDE DEF V
    <3>4. Table(f, U)[V] = G(V)
      BY <2>1, <3>1, <3>2, <3>3, SumsAgree
    <3>5. Table(f, U)[U] = f[First(U)] + Table(f, U)[V]
      BY <2>2, <2>4, Zenon DEF V
    <3>6. g[U] = f[First(U)] + G(V)
      BY <1>6, <2>4, Zenon DEF V
    <3> HIDE DEF g
    <3> QED BY <3>4, <3>5, <3>6, Zenon
  <2> QED BY <2>3, <2>4, Zenon
<1>7. Sums(f, T, g)
  <2>1. ASSUME NEW s \in SUBSET T, s # {}
        PROVE  g[s \ {First(s)}] = G(s \ {First(s)})
    <3>1. s \ {First(s)} \in SUBSET T /\ s \ {First(s)} # T
      BY <2>1, FirstIn, Zenon
    <3> QED BY <1>6, <3>1, Zenon
  <2> QED BY <2>1, Zenon DEF Sums
<1>8. Sums(f, T, Table(f, T))
  BY <1>7, Zenon DEF Table
<1> QED BY <1>4, <1>8, Zenon

-----------------------------------------------------------------------------
(* Sums.                                                                   *)

\* Nothing sums to 0.
LEMMA SumEmpty ==
  ASSUME NEW f
  PROVE  SumOver(f, {}) = 0
<1>1. Sums(f, {}, Table(f, {}))
  BY FS_EmptySet, TableExists, Zenon
<1> QED BY <1>1, SumsStep, SumIsTable, Zenon

\* A sum is its first term and the sum of the others.
LEMMA SumFirst ==
  ASSUME NEW f, NEW S, IsFiniteSet(S), S # {}
  PROVE  SumOver(f, S) = f[First(S)] + SumOver(f, S \ {First(S)})
<1>1. PICK T : T = S \ {First(S)}
  BY Zenon
<1>2. T \in SUBSET S /\ T \in SUBSET T /\ IsFiniteSet(T)
  BY <1>1, FS_Subset, Zenon
<1>3. Sums(f, S, Table(f, S)) /\ Sums(f, T, Table(f, T))
  BY <1>2, TableExists, Zenon
<1>4. Table(f, S)[T] = Table(f, T)[T]
  BY <1>2, <1>3, SumsAgree
<1>5. Table(f, S)[S] = f[First(S)] + Table(f, S)[T]
  BY <1>1, <1>3, SumsStep
<1> QED BY <1>1, <1>4, <1>5, SumIsTable, Zenon

\* Integers sum to an integer and natural numbers to a natural number.
LEMMA SumInt ==
  ASSUME NEW S, IsFiniteSet(S), NEW f, \A x \in S : f[x] \in Int
  PROVE  SumOver(f, S) \in Int
<1> DEFINE P == {T \in SUBSET S : SumOver(f, T) \in Int}
<1>1. {} \in P
  BY SumEmpty
<1>2. ASSUME NEW T \in SUBSET S, T # {}, T \ {First(T)} \in P
      PROVE  T \in P
  <2>1. f[First(T)] \in Int
    BY <1>2, FirstIn, Zenon
  <2>2. SumOver(f, T) = f[First(T)] + SumOver(f, T \ {First(T)})
    BY <1>2, SumFirst, FS_Subset, Zenon
  <2> QED BY <1>2, <2>1, <2>2
<1> HIDE DEF P
<1>3. S \in P
  BY <1>1, <1>2, FirstInductive, Zenon
<1> QED BY <1>3, Zenon DEF P

LEMMA SumNat ==
  ASSUME NEW S, IsFiniteSet(S), NEW f, \A x \in S : f[x] \in Nat
  PROVE  SumOver(f, S) \in Nat
<1> DEFINE P == {T \in SUBSET S : SumOver(f, T) \in Nat}
<1>1. {} \in P
  BY SumEmpty
<1>2. ASSUME NEW T \in SUBSET S, T # {}, T \ {First(T)} \in P
      PROVE  T \in P
  <2>1. f[First(T)] \in Nat
    BY <1>2, FirstIn, Zenon
  <2>2. SumOver(f, T) = f[First(T)] + SumOver(f, T \ {First(T)})
    BY <1>2, SumFirst, FS_Subset, Zenon
  <2> QED BY <1>2, <2>1, <2>2
<1> HIDE DEF P
<1>3. S \in P
  BY <1>1, <1>2, FirstInductive, Zenon
<1> QED BY <1>3, Zenon DEF P

\* A sum is monotone in its terms, so it depends on them alone.
LEMMA SumMonotone ==
  ASSUME NEW S, IsFiniteSet(S), NEW f, NEW g,
         \A x \in S : f[x] \in Int /\ g[x] \in Int /\ f[x] <= g[x]
  PROVE  SumOver(f, S) <= SumOver(g, S)
<1> DEFINE P == {T \in SUBSET S : SumOver(f, T) <= SumOver(g, T)}
<1>1. {} \in P
  BY SumEmpty
<1>2. ASSUME NEW T \in SUBSET S, T # {}, T \ {First(T)} \in P
      PROVE  T \in P
  <2>1. PICK U : U = T \ {First(T)}
    BY Zenon
  <2>2. f[First(T)] \in Int /\ g[First(T)] \in Int /\ f[First(T)] <= g[First(T)]
    BY <1>2, FirstIn, Zenon
  <2>3. /\ SumOver(f, T) = f[First(T)] + SumOver(f, U)
        /\ SumOver(g, T) = g[First(T)] + SumOver(g, U)
    BY <1>2, <2>1, SumFirst, FS_Subset, Zenon
  <2>4. IsFiniteSet(U) /\ \A x \in U : f[x] \in Int /\ g[x] \in Int
    BY <1>2, <2>1, FS_Subset, Zenon
  <2>5. SumOver(f, U) \in Int /\ SumOver(g, U) \in Int
    BY <2>4, SumInt, Zenon
  <2>6. SumOver(f, U) <= SumOver(g, U)
    BY <1>2, <2>1, Zenon
  <2>7. SumOver(f, T) <= SumOver(g, T)
    BY <2>2, <2>3, <2>5, <2>6
  <2> QED BY <1>2, <2>7, Zenon
<1> HIDE DEF P
<1>3. S \in P
  BY <1>1, <1>2, FirstInductive, Zenon
<1> QED BY <1>3, Zenon DEF P

LEMMA SumSame ==
  ASSUME NEW S, IsFiniteSet(S), NEW f, NEW g, \A x \in S : f[x] = g[x]
  PROVE  SumOver(f, S) = SumOver(g, S)
<1> DEFINE P == {T \in SUBSET S : SumOver(f, T) = SumOver(g, T)}
<1>1. {} \in P
  BY SumEmpty, Zenon
<1>2. ASSUME NEW T \in SUBSET S, T # {}, T \ {First(T)} \in P
      PROVE  T \in P
  <2>1. f[First(T)] = g[First(T)]
    BY <1>2, FirstIn, Zenon
  <2>2. /\ SumOver(f, T) = f[First(T)] + SumOver(f, T \ {First(T)})
        /\ SumOver(g, T) = g[First(T)] + SumOver(g, T \ {First(T)})
    BY <1>2, SumFirst, FS_Subset, Zenon
  <2> QED BY <1>2, <2>1, <2>2, Zenon
<1> HIDE DEF P
<1>3. S \in P
  BY <1>1, <1>2, FirstInductive, Zenon
<1> QED BY <1>3, Zenon DEF P

\* A sum adds term by term.
LEMMA SumAdd ==
  ASSUME NEW S, IsFiniteSet(S), NEW f, NEW g, NEW h,
         \A x \in S : f[x] \in Int /\ g[x] \in Int /\ h[x] = f[x] + g[x]
  PROVE  SumOver(h, S) = SumOver(f, S) + SumOver(g, S)
<1> DEFINE P == {T \in SUBSET S : SumOver(h, T) = SumOver(f, T) + SumOver(g, T)}
<1>1. {} \in P
  BY SumEmpty
<1>2. ASSUME NEW T \in SUBSET S, T # {}, T \ {First(T)} \in P
      PROVE  T \in P
  <2>1. PICK U : U = T \ {First(T)}
    BY Zenon
  <2>2. PICK x : x = First(T)
    BY Zenon
  <2>3. f[x] \in Int /\ g[x] \in Int /\ h[x] = f[x] + g[x]
    BY <1>2, <2>2, FirstIn, Zenon
  <2>4. /\ SumOver(f, T) = f[x] + SumOver(f, U)
        /\ SumOver(g, T) = g[x] + SumOver(g, U)
        /\ SumOver(h, T) = h[x] + SumOver(h, U)
    BY <1>2, <2>1, <2>2, SumFirst, FS_Subset, Zenon
  <2>5. IsFiniteSet(U) /\ \A y \in U : f[y] \in Int /\ g[y] \in Int
    BY <1>2, <2>1, FS_Subset, Zenon
  <2>6. SumOver(f, U) \in Int /\ SumOver(g, U) \in Int
    BY <2>5, SumInt, Zenon
  <2>7. SumOver(h, U) = SumOver(f, U) + SumOver(g, U)
    BY <1>2, <2>1, Zenon
  <2>8. SumOver(h, T) = SumOver(f, T) + SumOver(g, T)
    BY <2>3, <2>4, <2>6, <2>7
  <2> QED BY <1>2, <2>8, Zenon
<1> HIDE DEF P
<1>3. S \in P
  BY <1>1, <1>2, FirstInductive, Zenon
<1> QED BY <1>3, Zenon DEF P

\* Zeros sum to 0.
LEMMA SumZero ==
  ASSUME NEW S, IsFiniteSet(S), NEW f, \A x \in S : f[x] = 0
  PROVE  SumOver(f, S) = 0
<1>1. SumOver(f, S) \in Int
  BY SumInt
<1>2. SumOver(f, S) = SumOver(f, S) + SumOver(f, S)
  <2>1. \A x \in S : f[x] \in Int /\ f[x] = f[x] + f[x]
    OBVIOUS
  <2>. QED
    BY <2>1, SumAdd, Zenon
<1>3. \A s \in Int : s = s + s => s = 0
  OBVIOUS
<1>. QED
  BY <1>1, <1>2, <1>3, Zenon

\* Equal terms sum to a multiple.
LEMMA SumConstant ==
  ASSUME NEW S, IsFiniteSet(S), NEW c \in Int, NEW f, \A x \in S : f[x] = c
  PROVE  SumOver(f, S) = Cardinality(S) * c
<1> DEFINE P == {T \in SUBSET S : SumOver(f, T) = Cardinality(T) * c}
<1>1. {} \in P
  BY SumEmpty, FS_EmptySet
<1>2. ASSUME NEW T \in SUBSET S, T # {}, T \ {First(T)} \in P
      PROVE  T \in P
  <2>1. PICK U : U = T \ {First(T)}
    BY Zenon
  <2>2. First(T) \in T /\ IsFiniteSet(T)
    BY <1>2, FirstIn, FS_Subset, Zenon
  <2>3. SumOver(f, T) = c + SumOver(f, U)
    BY <1>2, <2>1, <2>2, SumFirst, Zenon
  <2>4. PICK n \in Int : n = Cardinality(U)
    <3>1. IsFiniteSet(U)
      BY <2>1, <2>2, FS_Subset, Zenon
    <3> QED
      BY <3>1, FS_CardinalityType
  <2>5. Cardinality(T) = n + 1
    <3>1. Cardinality(T) \in Nat
      BY <2>2, FS_CardinalityType, Zenon
    <3>2. Cardinality(U) = Cardinality(T) - 1
      BY <2>1, <2>2, FS_RemoveElement, Zenon
    <3> QED
      BY <2>4, <3>1, <3>2
  <2>6. SumOver(f, U) = n * c
    BY <1>2, <2>1, <2>4, Zenon
  <2>7. c + n * c = (n + 1) * c
    OBVIOUS
  <2>8. SumOver(f, T) = Cardinality(T) * c
    BY <2>3, <2>5, <2>6, <2>7, Zenon
  <2> QED BY <1>2, <2>8, Zenon
<1> HIDE DEF P
<1>3. S \in P
  BY <1>1, <1>2, FirstInductive, Zenon
<1> QED BY <1>3, Zenon DEF P

\* Any term may be taken out of a sum first.
LEMMA SumRemove ==
  ASSUME NEW S, IsFiniteSet(S), NEW f, \A y \in S : f[y] \in Int, NEW x \in S
  PROVE  SumOver(f, S) = f[x] + SumOver(f, S \ {x})
<1> DEFINE P == {T \in SUBSET S : \A y \in T : SumOver(f, T) = f[y] + SumOver(f, T \ {y})}
           Bad == (SUBSET S) \ P
<1>1. SUFFICES ASSUME Bad # {} PROVE FALSE
  BY Zenon
<1>2. Bad \subseteq SUBSET S
  BY Zenon
<1> HIDE DEF Bad
<1>3. PICK T \in Bad : \A C \in Bad : C \subseteq T => C = T
  BY <1>1, <1>2, LeastSubset
<1>4. T \in SUBSET S /\ T \notin P
  BY <1>3, Zenon DEF Bad
<1>5. PICK y \in T : SumOver(f, T) # f[y] + SumOver(f, T \ {y})
  BY <1>4, Zenon
<1>6. \A U \in SUBSET T : U # T => \A z \in U : SumOver(f, U) = f[z] + SumOver(f, U \ {z})
  BY <1>3, <1>4, Zenon DEF Bad
<1>7. PICK c \in T : c = First(T)
  BY <1>5, FirstIn, Zenon
<1>8. \A U \in SUBSET T : IsFiniteSet(U) /\ SumOver(f, U) \in Int
  BY <1>4, FS_Subset, SumInt, Zenon
<1>9. SumOver(f, T) = f[c] + SumOver(f, T \ {c})
  BY <1>5, <1>7, <1>8, SumFirst, Zenon
<1> HIDE DEF P
<1>10. c # y
  BY <1>5, <1>9, Zenon
<1>11. PICK R : R = SumOver(f, (T \ {c}) \ {y})
  BY Zenon
<1>12. SumOver(f, T \ {c}) = f[y] + R
  BY <1>6, <1>7, <1>10, <1>11, Zenon
<1>13. (T \ {y}) \ {c} = (T \ {c}) \ {y}
  BY Zenon
<1>14. SumOver(f, T \ {y}) = f[c] + R
  BY <1>6, <1>7, <1>10, <1>11, <1>13
<1>15. f[c] \in Int /\ f[y] \in Int /\ R \in Int
  BY <1>4, <1>7, <1>8, <1>11, Zenon
<1>16. SumOver(f, T) = f[y] + SumOver(f, T \ {y})
  BY <1>9, <1>12, <1>14, <1>15
<1> QED BY <1>5, <1>16, Zenon

\* A sum splits along any part of its set.
LEMMA SumSplit ==
  ASSUME NEW S, IsFiniteSet(S), NEW f, \A y \in S : f[y] \in Int, NEW T \in SUBSET S
  PROVE  SumOver(f, S) = SumOver(f, T) + SumOver(f, S \ T)
<1> DEFINE P == {U \in SUBSET S : SumOver(f, S) = SumOver(f, U) + SumOver(f, S \ U)}
<1>1. \A U \in SUBSET S : IsFiniteSet(U) /\ SumOver(f, U) \in Int
  BY FS_Subset, SumInt, Zenon
<1>2. {} \in P
  <2>1. S \ {} = S /\ SumOver(f, S) \in Int
    BY <1>1, Zenon
  <2> QED BY <2>1, SumEmpty
<1>3. ASSUME NEW U \in SUBSET T, U # {}, U \ {First(U)} \in P
      PROVE  U \in P
  <2>1. PICK c \in U : c = First(U)
    BY <1>3, FirstIn, Zenon
  <2>2. SumOver(f, S) = SumOver(f, U \ {c}) + SumOver(f, S \ (U \ {c}))
    BY <1>3, <2>1, Zenon
  <2>3. SumOver(f, U) = f[c] + SumOver(f, U \ {c})
    BY <1>1, <1>3, <2>1, SumFirst, Zenon
  <2>4. c \in S \ (U \ {c}) /\ (S \ (U \ {c})) \ {c} = S \ U
    BY <2>1, Zenon
  <2>5. SumOver(f, S \ (U \ {c})) = f[c] + SumOver(f, S \ U)
    BY <1>1, <2>4, SumRemove
  <2>6. /\ f[c] \in Int /\ SumOver(f, U \ {c}) \in Int /\ SumOver(f, S \ U) \in Int
        /\ U \in SUBSET S
    BY <1>1, <2>1, Zenon
  <2>7. SumOver(f, S) = SumOver(f, U) + SumOver(f, S \ U)
    BY <2>2, <2>3, <2>5, <2>6
  <2> QED BY <2>6, <2>7, Zenon
<1> HIDE DEF P
<1>4. T \in P
  BY <1>1, <1>2, <1>3, FirstInductive, Zenon
<1> QED BY <1>4, Zenon DEF P

\* Terms that are 0 may be left out of a sum.
LEMMA SumWithin ==
  ASSUME NEW S, IsFiniteSet(S), NEW f, \A y \in S : f[y] \in Int, NEW T \in SUBSET S,
         \A y \in S \ T : f[y] = 0
  PROVE  SumOver(f, S) = SumOver(f, T)
<1>1. SumOver(f, S) = SumOver(f, T) + SumOver(f, S \ T)
  BY SumSplit, Zenon
<1>2. IsFiniteSet(T) /\ IsFiniteSet(S \ T)
  BY FS_Subset, Zenon
<1>3. SumOver(f, S \ T) = 0
  BY <1>2, SumZero, Zenon
<1>4. SumOver(f, T) \in Int
  BY <1>2, SumInt, Zenon
<1> QED
  BY <1>1, <1>3, <1>4

\* Fewer terms that are not negative sum to no more.
LEMMA SumSubset ==
  ASSUME NEW S, IsFiniteSet(S), NEW f, \A y \in S : f[y] \in Nat, NEW T \in SUBSET S
  PROVE  SumOver(f, T) <= SumOver(f, S)
<1>1. IsFiniteSet(T) /\ IsFiniteSet(S \ T)
  BY FS_Subset, Zenon
<1>2. SumOver(f, T) \in Nat /\ SumOver(f, S \ T) \in Nat
  BY <1>1, SumNat, Zenon
<1>3. SumOver(f, S) = SumOver(f, T) + SumOver(f, S \ T)
  BY SumSplit
<1> QED BY <1>2, <1>3

\* Terms that are distinct terms of another sum, or smaller, sum to no more.
LEMMA SumReindex ==
  ASSUME NEW S, IsFiniteSet(S), NEW K, IsFiniteSet(K), NEW f, NEW g, NEW h,
         \A x \in S : h[x] \in K /\ f[x] \in Nat /\ f[x] <= g[h[x]],
         \A x, y \in S : h[x] = h[y] => x = y,
         \A k \in K : g[k] \in Nat
  PROVE  SumOver(f, S) <= SumOver(g, K)
<1> DEFINE Im(T) == {h[x] : x \in T}
           P == {T \in SUBSET S : SumOver(f, T) <= SumOver(g, Im(T))}
<1>1. \A T \in SUBSET S : IsFiniteSet(T) /\ Im(T) \in SUBSET K
  BY FS_Subset, Zenon
<1>2. \A L \in SUBSET K : IsFiniteSet(L) /\ SumOver(g, L) \in Nat
  BY FS_Subset, SumNat, Zenon
<1>3. {} \in P
  <2>1. Im({}) = {}
    BY Zenon
  <2> HIDE DEF Im
  <2>2. SumOver(f, {}) <= SumOver(g, Im({}))
    BY <2>1, SumEmpty
  <2> QED BY <2>2, Zenon
<1>4. ASSUME NEW T \in SUBSET S, T # {}, T \ {First(T)} \in P
      PROVE  T \in P
  <2>1. PICK c \in T : c = First(T)
    BY <1>4, FirstIn, Zenon
  <2>2. SumOver(f, T) = f[c] + SumOver(f, T \ {c})
    BY <1>1, <1>4, <2>1, SumFirst, Zenon
  <2>3. Im(T \ {c}) = Im(T) \ {h[c]} /\ h[c] \in Im(T)
    BY <2>1, Zenon
  <2>4. \A k \in Im(T) : g[k] \in Int
    BY <1>1
  <2>5. SumOver(g, Im(T)) = g[h[c]] + SumOver(g, Im(T) \ {h[c]})
    <3> HIDE DEF Im
    <3> QED BY <1>1, <1>2, <2>3, <2>4, SumRemove, Zenon
  <2>6. SumOver(f, T \ {c}) <= SumOver(g, Im(T \ {c}))
    BY <1>4, <2>1, Zenon
  <2>7. SumOver(f, T \ {c}) \in Nat
    BY <1>1, SumNat, Zenon
  <2>8. SumOver(g, Im(T) \ {h[c]}) \in Nat
    BY <1>1, <1>2, Zenon
  <2>9. f[c] \in Nat /\ g[h[c]] \in Nat /\ f[c] <= g[h[c]]
    BY <2>1, Zenon
  <2> HIDE DEF Im, P
  <2>10. SumOver(f, T \ {c}) <= SumOver(g, Im(T) \ {h[c]})
    BY <2>3, <2>6, Zenon
  <2>11. SumOver(f, T) <= SumOver(g, Im(T))
    BY <2>2, <2>5, <2>7, <2>8, <2>9, <2>10
  <2> QED BY <2>11, Zenon DEF P
<1> HIDE DEF P
<1>5. S \in P
  BY <1>3, <1>4, FirstInductive, Zenon
<1>6. SumOver(g, Im(S)) <= SumOver(g, K)
  BY <1>1, SumSubset, Zenon
<1>7. SumOver(f, S) <= SumOver(g, Im(S))
  BY <1>5, Zenon DEF P
<1>8. SumOver(f, S) \in Nat /\ SumOver(g, Im(S)) \in Nat /\ SumOver(g, K) \in Nat
  BY <1>1, <1>2, SumNat, Zenon
<1> QED BY <1>6, <1>7, <1>8

-----------------------------------------------------------------------------
(* Sums over a family of sets.                                             *)

LEMMA FamilyIsFinite ==
  ASSUME NEW N, IsFiniteSet(N), NEW A, \A i \in N : IsFiniteSet(A[i])
  PROVE  IsFiniteSet(UNION {A[i] : i \in N})
<1> DEFINE F == {A[i] : i \in N}
<1>1. \A T \in F : IsFiniteSet(T)
  BY Zenon
<1>2. IsFiniteSet(F)
  BY ImageIsFinite, Zenon
<1> HIDE DEF F
<1>3. IsFiniteSet(UNION F)
  BY <1>1, <1>2, FS_UNION, Zenon
<1> QED BY <1>3, Zenon DEF F

\* A set sums to no more than the sets that cover it.
LEMMA SumCovered ==
  ASSUME NEW N, IsFiniteSet(N), NEW A, \A i \in N : IsFiniteSet(A[i]),
         NEW f, \A i \in N : \A x \in A[i] : f[x] \in Nat,
         NEW g, \A i \in N : g[i] = SumOver(f, A[i]),
         NEW X, X \subseteq UNION {A[i] : i \in N}
  PROVE  SumOver(f, X) <= SumOver(g, N)
<1> DEFINE Un(M) == UNION {A[i] : i \in M}
           P == {M \in SUBSET N : SumOver(f, Un(M)) <= SumOver(g, M)}
<1>1. ASSUME NEW M \in SUBSET N
      PROVE  IsFiniteSet(M) /\ IsFiniteSet(Un(M))
  <2>1. IsFiniteSet(M) /\ \A i \in M : IsFiniteSet(A[i])
    BY FS_Subset, Zenon
  <2> QED BY <2>1, FamilyIsFinite
<1>2. \A M \in SUBSET N : \A x \in Un(M) : f[x] \in Nat
  BY Zenon
<1>3. \A i \in N : g[i] \in Nat
  BY SumNat, Zenon
<1>4. \A M \in SUBSET N : SumOver(f, Un(M)) \in Nat /\ SumOver(g, M) \in Nat
  <2> HIDE DEF Un, P
  <2> QED BY <1>1, <1>2, <1>3, SumNat, Zenon
<1>5. {} \in P
  <2>1. Un({}) = {}
    BY Zenon
  <2> HIDE DEF Un
  <2>2. SumOver(f, Un({})) <= SumOver(g, {})
    BY <2>1, SumEmpty
  <2> QED BY <2>2, Zenon
<1>6. ASSUME NEW M \in SUBSET N, M # {}, M \ {First(M)} \in P
      PROVE  M \in P
  <2>1. PICK c \in M : c = First(M)
    BY <1>6, FirstIn, Zenon
  <2>2. SumOver(g, M) = g[c] + SumOver(g, M \ {c})
    BY <1>1, <1>6, <2>1, SumFirst, Zenon
  <2>3. A[c] \in SUBSET Un(M) /\ Un(M) \ A[c] \in SUBSET Un(M \ {c}) /\ M \ {c} \in SUBSET N
    BY <2>1, Zenon
  <2>4. SumOver(f, Un(M \ {c})) <= SumOver(g, M \ {c})
    BY <1>6, <2>1, Zenon
  <2>5. g[c] = SumOver(f, A[c]) /\ g[c] \in Nat
    BY <1>3, <2>1, Zenon
  <2> HIDE DEF Un, P
  <2>6. SumOver(f, Un(M)) = SumOver(f, A[c]) + SumOver(f, Un(M) \ A[c])
    BY <1>1, <1>2, <2>3, SumSplit
  <2>7. SumOver(f, Un(M) \ A[c]) <= SumOver(f, Un(M \ {c}))
    BY <1>1, <1>2, <2>3, SumSubset, Zenon
  <2>8. SumOver(f, Un(M) \ A[c]) \in Nat
    BY <1>1, <1>2, <2>3, FS_Subset, SumNat, Zenon
  <2>9. SumOver(f, Un(M)) <= SumOver(g, M)
    BY <1>4, <2>2, <2>3, <2>4, <2>5, <2>6, <2>7, <2>8
  <2> QED BY <2>9, Zenon DEF P
<1> HIDE DEF P
<1>7. N \in P
  BY <1>5, <1>6, FirstInductive, Zenon
<1>8. SumOver(f, Un(N)) <= SumOver(g, N)
  BY <1>7, Zenon DEF P
<1>9. X \in SUBSET Un(N) /\ IsFiniteSet(X)
  BY <1>1, FS_Subset, Zenon
<1> HIDE DEF Un
<1>10. SumOver(f, X) <= SumOver(f, Un(N)) /\ SumOver(f, X) \in Nat
  BY <1>1, <1>2, <1>9, SumSubset, SumNat, Zenon
<1> QED BY <1>4, <1>8, <1>10

\* Disjoint parts of a set sum to no more than the set.
LEMMA SumPacked ==
  ASSUME NEW X, IsFiniteSet(X), NEW f, \A x \in X : f[x] \in Nat,
         NEW N, IsFiniteSet(N), NEW A, \A i \in N : A[i] \in SUBSET X,
         \A i, j \in N : i # j => A[i] \cap A[j] = {},
         NEW g, \A i \in N : g[i] = SumOver(f, A[i])
  PROVE  SumOver(g, N) <= SumOver(f, X)
<1> DEFINE Un(M) == UNION {A[i] : i \in M}
           P == {M \in SUBSET N : SumOver(g, M) = SumOver(f, Un(M))}
<1>1. \A M \in SUBSET N : Un(M) \in SUBSET X /\ IsFiniteSet(M)
  BY FS_Subset
<1>2. \A S \in SUBSET X : IsFiniteSet(S) /\ SumOver(f, S) \in Nat
  BY FS_Subset, SumNat, Zenon
<1>3. {} \in P
  <2>1. Un({}) = {}
    BY Zenon
  <2> HIDE DEF Un
  <2>2. SumOver(g, {}) = SumOver(f, Un({}))
    BY <2>1, SumEmpty, Zenon
  <2> QED BY <2>2, Zenon
<1>4. ASSUME NEW M \in SUBSET N, M # {}, M \ {First(M)} \in P
      PROVE  M \in P
  <2>1. PICK c \in M : c = First(M)
    BY <1>4, FirstIn, Zenon
  <2>2. SumOver(g, M) = g[c] + SumOver(g, M \ {c})
    BY <1>1, <1>4, <2>1, SumFirst, Zenon
  <2>3. A[c] \in SUBSET Un(M) /\ Un(M) \ A[c] = Un(M \ {c})
    BY <2>1
  <2>4. SumOver(g, M \ {c}) = SumOver(f, Un(M \ {c}))
    BY <1>4, <2>1, Zenon
  <2>5. g[c] = SumOver(f, A[c])
    BY <2>1, Zenon
  <2> HIDE DEF Un, P
  <2>6. SumOver(f, Un(M)) = SumOver(f, A[c]) + SumOver(f, Un(M) \ A[c])
    BY <1>1, <1>2, <2>3, SumSplit
  <2>7. SumOver(g, M) = SumOver(f, Un(M))
    BY <2>2, <2>3, <2>4, <2>5, <2>6, Zenon
  <2> QED BY <2>7, Zenon DEF P
<1> HIDE DEF P
<1>5. N \in P
  BY <1>3, <1>4, FirstInductive, Zenon
<1>6. SumOver(g, N) = SumOver(f, Un(N))
  BY <1>5, Zenon DEF P
<1>7. SumOver(f, Un(N)) <= SumOver(f, X)
  BY <1>1, SumSubset, Zenon
<1> QED BY <1>6, <1>7, Zenon

-----------------------------------------------------------------------------
(* Sequences, and the order of SortByFee.                                  *)

\* The places of a sequence are 1 .. Len, and each holds an element.
LEMMA PlacesOf ==
  ASSUME NEW S, NEW s \in Seq(S)
  PROVE  /\ DOMAIN s = 1 .. Len(s) /\ Len(s) \in Nat
         /\ \A i \in DOMAIN s : s[i] \in S
  OBVIOUS

\* A function on 1 .. n is a sequence.
LEMMA SeqOfPlaces ==
  ASSUME NEW S, NEW n \in Nat, NEW f \in [1 .. n -> S]
  PROVE  f \in Seq(S)
  OBVIOUS

\* The places of a sequence are finitely many.
LEMMA PlacesFinite ==
  ASSUME NEW S, NEW s \in Seq(S)
  PROVE  IsFiniteSet(DOMAIN s)
<1>1. DOMAIN s = 1 .. Len(s) /\ Len(s) \in Nat
  OBVIOUS
<1>. QED
  BY <1>1, FS_Interval

\* sort_by_key and reverse lose no place: the places of the result hold the
\* transactions at the places that were sorted, and no other.  The ranks are
\* pairwise different, so they fill the interval 1 .. n.
LEMMA SortByFeeElements ==
  ASSUME NEW S, NEW s, NEW I, IsFiniteSet(I), I \subseteq Int,
         \A i \in I : s[i] \in S /\ s[i].fee \in Nat
  PROVE  /\ DOMAIN SortByFee(s, I) = 1 .. Cardinality(I)
         /\ \A r \in 1 .. Cardinality(I) : \E i \in I : SortByFee(s, I)[r] = s[i]
         /\ SortByFee(s, I) \in Seq(S)
<1>. DEFINE n == Cardinality(I)
            Ahead(i, j) == s[i].fee > s[j].fee \/ (s[i].fee = s[j].fee /\ i > j)
            before(i) == {j \in I : Ahead(j, i)}
            rank(i) == 1 + Cardinality(before(i))
            f == [i \in I |-> rank(i)]
<1>1. n \in Nat
  BY FS_CardinalityType, Zenon
<1>2. IsFiniteSet(1 .. n) /\ Cardinality(1 .. n) = n
  BY <1>1, FS_Interval
<1>3. SortByFee(s, I) = [r \in 1 .. n |-> s[CHOOSE i \in I : rank(i) = r]]
  BY Zenon DEF SortByFee
<1>4. \A i \in I : ~Ahead(i, i)
  <2>. SUFFICES ASSUME NEW i \in I PROVE ~Ahead(i, i)
    BY Zenon
  <2>1. PICK x \in Nat : x = s[i].fee
    BY Zenon
  <2>2. i \in Int
    BY Zenon
  <2>. QED
    BY <2>1, <2>2
<1>5. \A i, j, k \in I : Ahead(i, j) /\ Ahead(j, k) => Ahead(i, k)
  <2>. SUFFICES ASSUME NEW i \in I, NEW j \in I, NEW k \in I, Ahead(i, j), Ahead(j, k)
                PROVE  Ahead(i, k)
    BY Zenon
  <2>1. PICK x \in Nat, y \in Nat, z \in Nat : x = s[i].fee /\ y = s[j].fee /\ z = s[k].fee
    BY Zenon
  <2>2. i \in Int /\ j \in Int /\ k \in Int
    BY Zenon
  <2>. QED
    BY <2>1, <2>2
<1>6. \A i, j \in I : i # j => Ahead(i, j) \/ Ahead(j, i)
  <2>. SUFFICES ASSUME NEW i \in I, NEW j \in I, i # j PROVE Ahead(i, j) \/ Ahead(j, i)
    BY Zenon
  <2>1. PICK x \in Nat, y \in Nat : x = s[i].fee /\ y = s[j].fee
    BY Zenon
  <2>2. i \in Int /\ j \in Int
    BY Zenon
  <2>. QED
    BY <2>1, <2>2
<1>7. \A i, j \in I : j \in before(i) <=> Ahead(j, i)
  BY Zenon
<1>8. \A i \in I : before(i) \in SUBSET I
  BY Zenon
<1>. HIDE DEF Ahead, before
<1>9. ASSUME NEW i \in I
      PROVE  IsFiniteSet(before(i)) /\ Cardinality(before(i)) \in Nat
  BY <1>8, FS_Subset, FS_CardinalityType, Zenon
<1>10. ASSUME NEW i \in I, NEW j \in I, Ahead(i, j)
       PROVE  f[i] < f[j]
  <2>1. before(i) \cup {i} \in SUBSET before(j) /\ i \notin before(i)
    BY <1>4, <1>5, <1>7, <1>8, <1>10, Zenon
  <2>2. Cardinality(before(i) \cup {i}) = Cardinality(before(i)) + 1
    BY <1>9, <2>1, FS_AddElement, Zenon
  <2>3. Cardinality(before(i) \cup {i}) <= Cardinality(before(j))
    BY <1>9, <2>1, FS_Subset, Zenon
  <2>4. PICK x \in Nat, y \in Nat : x = Cardinality(before(i)) /\ y = Cardinality(before(j))
    BY <1>9, Zenon
  <2>5. f[i] = 1 + x /\ f[j] = 1 + y
    BY <2>4, Zenon
  <2>. HIDE DEF f
  <2>. QED
    BY <2>2, <2>3, <2>4, <2>5
<1>11. ASSUME NEW i \in I PROVE f[i] \in 1 .. n
  <2>1. before(i) \in SUBSET (I \ {i})
    BY <1>4, <1>7, <1>8, Zenon
  <2>2. IsFiniteSet(I \ {i}) /\ Cardinality(I \ {i}) = n - 1
    BY FS_RemoveElement, Zenon
  <2>3. Cardinality(before(i)) <= Cardinality(I \ {i})
    BY <2>1, <2>2, FS_Subset, Zenon
  <2>4. PICK x \in Nat : x = Cardinality(before(i))
    BY <1>9, Zenon
  <2>5. f[i] = 1 + x
    BY <2>4, Zenon
  <2>. HIDE DEF f, n
  <2>. QED
    BY <1>1, <2>2, <2>3, <2>4, <2>5
<1>12. f \in Injection(I, 1 .. n)
  <2>1. \A i, j \in I : i # j => f[i] # f[j]
    <3>. SUFFICES ASSUME NEW i \in I, NEW j \in I, i # j PROVE f[i] # f[j]
      BY Zenon
    <3>1. PICK x \in Nat, y \in Nat : x = f[i] /\ y = f[j]
      <4>1. f[i] \in 1 .. n /\ f[j] \in 1 .. n
        BY <1>11, Zenon
      <4>. HIDE DEF f, n
      <4>. QED
        BY <1>1, <4>1
    <3>2. f[i] < f[j] \/ f[j] < f[i]
      BY <1>6, <1>10, Zenon
    <3>. HIDE DEF f
    <3>. QED
      BY <3>1, <3>2
  <2>2. f \in [I -> 1 .. n]
    BY <1>11, Zenon
  <2>. HIDE DEF f
  <2>. QED
    BY <2>1, <2>2, Zenon DEF Injection, IsInjective
<1>13. f \in Surjection(I, 1 .. n)
  <2>. HIDE DEF f, n
  <2>. QED
    BY <1>2, <1>12, FS_Injection, Zenon DEF n
<1>14. \A r \in 1 .. n : \E i \in I : rank(i) = r
  BY <1>13, Zenon DEF Surjection
<1>. HIDE DEF n, f, rank
<1>15. DOMAIN SortByFee(s, I) = 1 .. n
  BY <1>3, Zenon
<1>16. \A r \in 1 .. n : SortByFee(s, I)[r] = s[CHOOSE i \in I : rank(i) = r]
  BY <1>3, Zenon
<1>17. \A r \in 1 .. n : \E i \in I : SortByFee(s, I)[r] = s[i]
  BY <1>14, <1>16, Zenon
<1>18. SortByFee(s, I) \in [1 .. n -> S]
  BY <1>3, <1>16, <1>17, Zenon
<1>19. SortByFee(s, I) \in Seq(S)
  BY <1>1, <1>18
<1>. QED
  BY <1>15, <1>17, <1>19, Zenon DEF n

\* The places of a sequence to which an element was put in front.
LEMMA FirstAndRest ==
  ASSUME NEW S, NEW a \in S, NEW r \in Seq(S)
  PROVE  /\ <<a>> \o r \in Seq(S) /\ (<<a>> \o r)[1] = a
         /\ \A i \in DOMAIN (<<a>> \o r) :
              i # 1 => i - 1 \in DOMAIN r /\ (<<a>> \o r)[i] = r[i - 1]
<1>1. <<a>> \o r \in Seq(S)
  OBVIOUS
<1>2. (<<a>> \o r)[1] = a
  OBVIOUS
<1>3. ASSUME NEW i \in DOMAIN (<<a>> \o r), i # 1
      PROVE  i - 1 \in DOMAIN r /\ (<<a>> \o r)[i] = r[i - 1]
  BY <1>3
<1> QED BY <1>1, <1>2, <1>3, Zenon

\* Every element of t is one of s.
Among(t, s) == \A i \in DOMAIN t : \E j \in DOMAIN s : t[i] = s[j]

\* A sequence whose first element stays and whose others are sorted has the
\* elements of the sequence.
LEMMA SortedRest ==
  ASSUME NEW S, NEW s \in Seq(S), s # <<>>, \A i \in DOMAIN s : s[i].fee \in Nat,
         NEW t, t = <<Head(s)>> \o SortByFee(s, 2 .. Len(s))
  PROVE  t \in Seq(S) /\ Among(t, s)
<1>1. PICK I, r : I = 2 .. Len(s) /\ r = SortByFee(s, I)
  BY Zenon
<1>2. /\ Len(s) \in Nat /\ Head(s) = s[1] /\ s[1] \in S
      /\ 1 \in DOMAIN s /\ I \subseteq DOMAIN s /\ I \subseteq Int
  BY <1>1
<1>3. \A i \in I : s[i] \in S /\ s[i].fee \in Nat
  BY <1>2
<1>4. IsFiniteSet(I)
  BY <1>1, <1>2, FS_Interval
<1>5. /\ DOMAIN SortByFee(s, I) = 1 .. Cardinality(I)
      /\ \A k \in 1 .. Cardinality(I) : \E i \in I : SortByFee(s, I)[k] = s[i]
      /\ SortByFee(s, I) \in Seq(S)
  BY <1>2, <1>3, <1>4, SortByFeeElements, Zenon
<1>6. /\ \A k \in DOMAIN r : \E j \in DOMAIN s : r[k] = s[j]
      /\ r \in Seq(S)
  BY <1>1, <1>2, <1>5, Zenon
<1>7. PICK a \in S : a = s[1]
  BY <1>2, Zenon
<1>8. r \in Seq(S) /\ t = <<a>> \o r
  BY <1>1, <1>2, <1>6, <1>7, Zenon
<1>9. /\ t \in Seq(S) /\ t[1] = a
      /\ \A i \in DOMAIN t : i # 1 => i - 1 \in DOMAIN r /\ t[i] = r[i - 1]
  <2>1. PICK u : u = <<a>> \o r
    BY Zenon
  <2>2. /\ u \in Seq(S) /\ u[1] = a
        /\ \A i \in DOMAIN u : i # 1 => i - 1 \in DOMAIN r /\ u[i] = r[i - 1]
    BY <1>6, <2>1, FirstAndRest
  <2>3. t = u
    BY <1>8, <2>1, Zenon
  <2> QED BY <2>2, <2>3, Zenon
<1>10. ASSUME NEW i \in DOMAIN t PROVE \E j \in DOMAIN s : t[i] = s[j]
  <2>1. CASE i = 1
    BY <1>2, <1>7, <1>9, <2>1, Zenon
  <2>2. CASE i # 1
    BY <1>6, <1>9, <2>2, Zenon
  <2> QED BY <2>1, <2>2, Zenon
<1> QED BY <1>9, <1>10, Zenon DEF Among
=============================================================================
