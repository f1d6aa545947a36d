----------------------------- MODULE FoldLemmas -----------------------------
(***************************************************************************)
(* Induction and folds, in the form the provers can use: about sets and    *)
(* functions instead of operators.  A fold of the community modules is a   *)
(* function on the subsets of its domain, chosen by its recursive equation; *)
(* FoldExists says that there is such a function, and what the fold is     *)
(* then follows by induction on the positions.                             *)
(***************************************************************************)
EXTENDS Integers, Sequences, FiniteSets, FiniteSetsExt, Functions, FiniteSetTheorems,
        WellFoundedInduction, TLAPS

-----------------------------------------------------------------------------
(* Induction *)

\* A set of natural numbers that holds 0 and every successor holds them all.
LEMMA Induct ==
  ASSUME NEW S, S \subseteq Nat, 0 \in S, \A n \in S : n + 1 \in S
  PROVE  S = Nat
<1>1. \E R : IsWellFoundedOn(R, Nat) /\ \A x, y \in Nat : x < y => <<x, y>> \in R
  <2>1. IsWellFoundedOn(OpToRel(<, Nat), Nat)
    BY NatLessThanWellFounded, Zenon
  <2>2. \A x, y \in Nat : x < y => <<x, y>> \in OpToRel(<, Nat)
    BY DEF OpToRel
  <2> QED
    BY <2>1, <2>2
<1> SUFFICES ASSUME Nat \ S # {} PROVE FALSE
  OBVIOUS
<1>2. PICK R : IsWellFoundedOn(R, Nat) /\ \A x, y \in Nat : x < y => <<x, y>> \in R
  BY <1>1
<1>3. PICK x \in Nat \ S : \A y \in Nat \ S : ~ (<<y, x>> \in R)
  BY <1>2, WFMin
<1>4. x # 0 /\ x - 1 \in Nat /\ x - 1 < x
  OBVIOUS
<1>5. x - 1 \in S
  BY <1>2, <1>3, <1>4
<1> QED
  BY <1>5

\* The same up to a bound: what holds at 0 and passes from n to n + 1 holds up to N.
LEMMA InductTo ==
  ASSUME NEW N \in Nat, NEW S, 0 \in S, \A n \in 0..(N - 1) : n \in S => n + 1 \in S
  PROVE  \A n \in 0..N : n \in S
<1> DEFINE T == {n \in Nat : n <= N => n \in S}
<1>1. 0 \in T
  OBVIOUS
<1>2. ASSUME NEW n \in T PROVE n + 1 \in T
  <2>1. n \in Nat /\ (n <= N => n \in S)
    OBVIOUS
  <2>2. n + 1 <= N => n + 1 \in S
    BY <2>1
  <2> QED
    BY <2>1, <2>2
<1>3. T \subseteq Nat
  OBVIOUS
<1>4. \A n \in T : n \in Nat /\ (n <= N => n \in S)
  OBVIOUS
<1> HIDE DEF T
<1>5. T = Nat
  BY <1>1, <1>2, <1>3, Induct
<1> QED
  BY <1>4, <1>5

-----------------------------------------------------------------------------
(* The first and the last of some positions *)

\* Among finitely many positions one is the highest by any measure.
LEMMA HighestOf ==
  ASSUME NEW N \in Nat, NEW f \in [1..N -> Int], NEW s \in SUBSET (1..N), s # {}
  PROVE  \E x \in s : \A y \in s : f[y] <= f[x]
<1> DEFINE P == {m \in Nat : m <= N =>
                   \A t \in SUBSET (1..m) : t # {} => \E x \in t : \A y \in t : f[y] <= f[x]}
<1>1. 0 \in P
  <2>1. 1..0 = {}
    OBVIOUS
  <2> QED
    BY <2>1
<1>2. ASSUME NEW m \in P PROVE m + 1 \in P
  <2>0. 1..(m + 1) = (1..m) \cup {m + 1} /\ 1..(m + 1) \subseteq 1..(m + 1)
    OBVIOUS
  <2> SUFFICES ASSUME m + 1 <= N, NEW t \in SUBSET (1..(m + 1)), t # {}
               PROVE  \E x \in t : \A y \in t : f[y] <= f[x]
    OBVIOUS
  <2> DEFINE rest == t \ {m + 1}
  <2>1. rest \in SUBSET (1..m)
    BY <2>0
  <2>5. rest # {} => \E x \in rest : \A y \in rest : f[y] <= f[x]
    <3>1. m <= N
      OBVIOUS
    <3>2. \A u \in SUBSET (1..m) : u # {} => \E x \in u : \A y \in u : f[y] <= f[x]
      BY <3>1
    <3> HIDE DEF rest
    <3> QED
      BY <2>1, <3>2
  <2>2. \A y \in t : f[y] \in Int
    <3>1. \A y \in t : y \in 1..N
      BY <2>0
    <3> QED
      BY <3>1
  <2>3. CASE rest = {}
    BY <2>2, <2>3
  <2>4. CASE rest # {}
    <3>1. PICK x \in rest : \A y \in rest : f[y] <= f[x]
      BY <2>5, <2>4
    <3>0. x \in t /\ \A y \in t : y = m + 1 \/ y \in rest
      OBVIOUS
    <3>2. CASE m + 1 \in t /\ f[x] <= f[m + 1]
      <4>1. \A y \in t : f[y] <= f[m + 1]
        <5> HIDE DEF rest
        <5> QED BY <2>2, <3>0, <3>1, <3>2
      <4> QED
        BY <3>2, <4>1
    <3>3. CASE ~(m + 1 \in t /\ f[x] <= f[m + 1])
      <4>1. \A y \in t : f[y] <= f[x]
        <5> HIDE DEF rest
        <5> QED BY <2>2, <3>0, <3>1, <3>3
      <4> QED
        BY <3>0, <4>1
    <3> QED
      BY <3>2, <3>3
  <2> QED
    BY <2>3, <2>4
<1> HIDE DEF P
<1>3. P = Nat
  <2>1. P \subseteq Nat
    BY DEF P
  <2> QED
    BY <1>1, <1>2, <2>1, Induct
<1>4. N \in P
  BY <1>3
<1>5. \A t \in SUBSET (1..N) : t # {} => \E x \in t : \A y \in t : f[y] <= f[x]
  <2>1. N <= N => \A t \in SUBSET (1..N) : t # {} => \E x \in t : \A y \in t : f[y] <= f[x]
    BY <1>4, Zenon DEF P
  <2>2. N <= N
    OBVIOUS
  <2> QED
    BY <2>1, <2>2, Zenon
<1> QED
  BY <1>5, Zenon

\* The minimum the library folds for is one of the numbers and below the others.
LEMMA MinIsLeast ==
  ASSUME NEW N \in Nat, NEW s \in SUBSET (1..N), s # {}
  PROVE  Min(s) \in s /\ \A y \in s : Min(s) <= y
<1> DEFINE f == [i \in 1..N |-> 0 - i]
<1>1. f \in [1..N -> Int]
  OBVIOUS
<1>2. \E x \in s : \A y \in s : f[y] <= f[x]
  <2> HIDE DEF f
  <2> QED BY <1>1, HighestOf, Zenon
<1>3. PICK x \in s : \A y \in s : f[y] <= f[x]
  BY <1>2
<1>4. \A y \in s : y \in 1..N /\ y \in Int
  OBVIOUS
<1>5. \A y \in s : x <= y
  <2>1. \A y \in s : f[y] = 0 - y
    BY <1>4
  <2> HIDE DEF f
  <2> QED
    BY <1>3, <1>4, <2>1
<1> QED
  BY <1>5 DEF Min

\* So is the maximum, above them.
LEMMA MaxIsGreatest ==
  ASSUME NEW N \in Nat, NEW s \in SUBSET (1..N), s # {}
  PROVE  Max(s) \in s /\ \A y \in s : y <= Max(s)
<1> DEFINE f == [i \in 1..N |-> i]
<1>1. f \in [1..N -> Int]
  OBVIOUS
<1>2. PICK x \in s : \A y \in s : f[y] <= f[x]
  <2> HIDE DEF f
  <2>1. \E x \in s : \A y \in s : f[y] <= f[x]
    BY <1>1, HighestOf, Zenon
  <2> QED
    BY <2>1
<1>3. \A y \in s : y \in 1..N /\ y \in Int /\ f[y] = y
  OBVIOUS
<1> HIDE DEF f
<1>4. \A y \in s : x >= y
  BY <1>2, <1>3
<1>5. Max(s) \in s /\ \A y \in s : Max(s) >= y
  BY <1>4 DEF Max
<1> QED
  BY <1>3, <1>5

\* The last of the first numbers, and what is left without it.
LEMMA LastPosition ==
  ASSUME NEW n \in Nat
  PROVE  Max(1..(n + 1)) = n + 1 /\ (1..(n + 1)) \ {n + 1} = 1..n
<1>1. PICK N \in Nat : N = n + 1
  OBVIOUS
<1>2. N \in 1..N /\ 1..N \in SUBSET (1..N) /\ 1..N # {}
  BY <1>1
<1>5. Max(1..N) \in 1..N /\ N <= Max(1..N)
  BY <1>2, MaxIsGreatest, Zenon
<1>3. Max(1..(n + 1)) = n + 1
  BY <1>1, <1>5
<1>4. (1..(n + 1)) \ {n + 1} = 1..n
  OBVIOUS
<1> QED
  BY <1>3, <1>4

-----------------------------------------------------------------------------
(* Folds *)

\* Arithmetic on its own.
LEMMA OneLess == \A k, m \in Nat : k <= m + 1 => k - 1 <= m
  OBVIOUS

\* g gives, for every part of S, what folding F over it from base yields, when c
\* says which element comes last
IsFold(g, S, V, base, F, c) ==
  /\ g \in [SUBSET S -> V]
  /\ \A s \in SUBSET S : g[s] = IF s = {} THEN base ELSE F[<<g[s \ {c[s]}], c[s]>>]

\* The recursive equation of a fold over a finite set has a solution, whichever
\* element c takes first.
LEMMA FoldExists ==
  ASSUME NEW S, IsFiniteSet(S), NEW V, NEW base \in V, NEW F \in [V \X S -> V],
         NEW c, \A s \in SUBSET S : s # {} => c[s] \in s
  PROVE  \E g : IsFold(g, S, V, base, F, c)
<1> DEFINE Solves(g, n) ==
             \A s \in SUBSET S :
               Cardinality(s) <= n =>
                 g[s] = IF s = {} THEN base ELSE F[<<g[s \ {c[s]}], c[s]>>]
           P == {n \in Nat : \E g \in [SUBSET S -> V] : Solves(g, n)}
<1>0. \A s \in SUBSET S : IsFiniteSet(s) /\ Cardinality(s) \in Nat
        /\ (s # {} => Cardinality(s) # 0 /\ Cardinality(s \ {c[s]}) = Cardinality(s) - 1)
  <2> SUFFICES ASSUME NEW s \in SUBSET S
               PROVE  IsFiniteSet(s) /\ Cardinality(s) \in Nat
                      /\ (s # {} => Cardinality(s) # 0 /\ Cardinality(s \ {c[s]}) = Cardinality(s) - 1)
    OBVIOUS
  <2>1. IsFiniteSet(s)
    BY FS_Subset
  <2>2. Cardinality(s) \in Nat
    BY <2>1, FS_CardinalityType
  <2>3. ASSUME s # {} PROVE Cardinality(s) # 0 /\ Cardinality(s \ {c[s]}) = Cardinality(s) - 1
    <3>1. c[s] \in s
      BY <2>3
    <3>2. Cardinality(s \ {c[s]}) = Cardinality(s) - 1
      BY <2>1, <3>1, FS_RemoveElement
    <3>3. Cardinality(s) # 0
      BY <2>1, <2>3, FS_EmptySet
    <3> QED
      BY <3>2, <3>3
  <2> QED
    BY <2>1, <2>2, <2>3
<1>1. 0 \in P
  <2> DEFINE g == [s \in SUBSET S |-> base]
  <2>1. Solves(g, 0)
    <3> SUFFICES ASSUME NEW s \in SUBSET S, Cardinality(s) <= 0
                 PROVE  g[s] = IF s = {} THEN base ELSE F[<<g[s \ {c[s]}], c[s]>>]
      OBVIOUS
    <3>1. Cardinality(s) \in Nat /\ (s # {} => Cardinality(s) # 0)
      BY <1>0, Zenon
    <3>2. s = {}
      BY <3>1
    <3> QED
      BY <3>2
  <2>2. g \in [SUBSET S -> V]
    OBVIOUS
  <2> HIDE DEF g, Solves
  <2> QED
    BY <2>1, <2>2
<1>2. ASSUME NEW n \in P PROVE n + 1 \in P
  <2>1. n \in Nat /\ \E g \in [SUBSET S -> V] : Solves(g, n)
    <3> HIDE DEF Solves
    <3> QED OBVIOUS
  <2>2. PICK g \in [SUBSET S -> V] : Solves(g, n)
    BY <2>1
  <2> DEFINE h == [s \in SUBSET S |-> IF s = {} THEN base ELSE F[<<g[s \ {c[s]}], c[s]>>]]
  <2>3. h \in [SUBSET S -> V]
    <3>1. ASSUME NEW s \in SUBSET S, s # {} PROVE F[<<g[s \ {c[s]}], c[s]>>] \in V
      <4>1. s \ {c[s]} \in SUBSET S /\ c[s] \in S
        BY <3>1
      <4>2. g[s \ {c[s]}] \in V
        BY <4>1
      <4> QED
        BY <4>1, <4>2
    <3> QED
      BY <3>1
  <2>4. ASSUME NEW s \in SUBSET S, Cardinality(s) <= n PROVE h[s] = g[s]
    BY <2>2, <2>4
  <2>5. Solves(h, n + 1)
    <3> SUFFICES ASSUME NEW s \in SUBSET S, Cardinality(s) <= n + 1
                 PROVE  h[s] = IF s = {} THEN base ELSE F[<<h[s \ {c[s]}], c[s]>>]
      OBVIOUS
    <3>1. CASE s = {}
      BY <3>1
    <3>2. CASE s # {}
      <4>1. s \ {c[s]} \in SUBSET S /\ Cardinality(s \ {c[s]}) <= n
        <5>1. Cardinality(s) \in Nat /\ Cardinality(s \ {c[s]}) = Cardinality(s) - 1
          BY <1>0, <3>2, Zenon
        <5>2. s \ {c[s]} \in SUBSET S
          OBVIOUS
        <5>4. Cardinality(s) - 1 <= n
          BY <2>1, <5>1, OneLess, Zenon
        <5> QED
          BY <5>1, <5>2, <5>4, Zenon
      <4>2. h[s \ {c[s]}] = g[s \ {c[s]}]
        BY <2>4, <4>1
      <4> QED
        BY <3>2, <4>2
    <3> QED
      BY <3>1, <3>2
  <2> HIDE DEF h, Solves
  <2> QED
    BY <2>1, <2>3, <2>5
<1>3. P \subseteq Nat
  OBVIOUS
<1>4. \A n \in P : \E g \in [SUBSET S -> V] : Solves(g, n)
  OBVIOUS
<1>5. P = Nat
  <2> HIDE DEF P
  <2> QED
    BY <1>1, <1>2, <1>3, Induct
<1>6. Cardinality(S) \in Nat
  BY FS_CardinalityType
<1>7. PICK g \in [SUBSET S -> V] : Solves(g, Cardinality(S))
  <2> HIDE DEF P, Solves
  <2> QED BY <1>4, <1>5, <1>6
<1>8. \A s \in SUBSET S : Cardinality(s) <= Cardinality(S)
  BY FS_Subset
<1>9. IsFold(g, S, V, base, F, c)
  BY <1>7, <1>8 DEF IsFold
<1> QED
  BY <1>9

\* g gives, for every set of the first N positions, what folding F over it from base
\* yields, the last position last
SolvesFold(g, N, V, base, F) ==
  /\ g \in [SUBSET (1..N) -> V]
  /\ \A s \in SUBSET (1..N) : g[s] = IF s = {} THEN base ELSE F[<<g[s \ {Max(s)}], Max(s)>>]

\* f solves the equation as long as it stays in V
Unfolds(f, N, V, base, F) ==
  /\ f[{}] = base
  /\ \A s \in SUBSET (1..N) :
       s # {} /\ f[s \ {Max(s)}] \in V => f[s] = F[<<f[s \ {Max(s)}], Max(s)>>]

\* h gives what folding F over the first positions yields, one after another, up to r
FoldRun(h, N, V, base, F, r) ==
  /\ h \in [0..N -> V] /\ h[0] = base /\ h[N] = r
  /\ \A m \in 0..(N - 1) : h[m + 1] = F[<<h[m], m + 1>>]

\* A fold over positions that takes the last one last: its equation has a solution.
LEMMA FoldSolves ==
  ASSUME NEW N \in Nat, NEW V, NEW base \in V, NEW F \in [V \X (1..N) -> V]
  PROVE  \E g : SolvesFold(g, N, V, base, F)
<1> DEFINE D == 1..N
           c == [s \in SUBSET D |-> Max(s)]
<1>1. \A s \in SUBSET D : s # {} => c[s] \in s
  BY MaxIsGreatest
<1>2. IsFiniteSet(D)
  BY FS_Interval
<1>3. \E g : IsFold(g, D, V, base, F, c)
  <2> HIDE DEF c
  <2> QED
    BY <1>1, <1>2, FoldExists, Zenon
<1>4. PICK g \in [SUBSET D -> V] :
         \A s \in SUBSET D : g[s] = IF s = {} THEN base ELSE F[<<g[s \ {c[s]}], c[s]>>]
  BY <1>3 DEF IsFold
<1>5. \A s \in SUBSET D : c[s] = Max(s)
  OBVIOUS
<1> HIDE DEF c, D
<1>6. \A s \in SUBSET D : g[s] = IF s = {} THEN base ELSE F[<<g[s \ {Max(s)}], Max(s)>>]
  BY <1>4, <1>5
<1>7. SolvesFold(g, N, V, base, F)
  BY <1>6 DEF D, SolvesFold
<1> QED
  BY <1>7

\* Whatever solves the equation as long as it stays in V goes through the positions
\* one after another.
LEMMA FoldSteps ==
  ASSUME NEW N \in Nat, NEW V, NEW base \in V, NEW F \in [V \X (1..N) -> V],
         NEW f, Unfolds(f, N, V, base, F)
  PROVE  \E h : FoldRun(h, N, V, base, F, f[1..N])
<1> USE DEF Unfolds
<1> DEFINE P == {m \in 0..N : f[1..m] \in V}
<1>1. 0 \in P
  <2>1. 1..0 = {}
    OBVIOUS
  <2> QED
    BY <2>1
<1>2. ASSUME NEW m \in 0..(N - 1), f[1..m] \in V
      PROVE  f[1..(m + 1)] = F[<<f[1..m], m + 1>>] /\ f[1..(m + 1)] \in V
  <2>1. m \in Nat /\ m + 1 \in 1..N /\ 1..(m + 1) \in SUBSET (1..N) /\ 1..(m + 1) # {}
    OBVIOUS
  <2>2. Max(1..(m + 1)) = m + 1 /\ (1..(m + 1)) \ {m + 1} = 1..m
    BY <2>1, LastPosition
  <2>3. f[1..(m + 1)] = F[<<f[1..m], m + 1>>]
    BY <1>2, <2>1, <2>2
  <2>4. <<f[1..m], m + 1>> \in V \X (1..N)
    BY <1>2, <2>1
  <2>5. F[<<f[1..m], m + 1>>] \in V
    BY <2>4
  <2> QED
    BY <2>3, <2>5
<1>3. ASSUME NEW m \in 0..(N - 1), m \in P PROVE m + 1 \in P
  <2>1. m + 1 \in 0..N /\ f[1..m] \in V
    BY <1>3
  <2>2. f[1..(m + 1)] \in V
    BY <1>2, <2>1
  <2> QED
    BY <2>1, <2>2
<1>4. P = 0..N
  <2>1. P \subseteq 0..N
    OBVIOUS
  <2> HIDE DEF P
  <2> QED
    BY <1>1, <1>3, <2>1, InductTo
<1> DEFINE h == [m \in 0..N |-> f[1..m]]
<1>5. h \in [0..N -> V]
  BY <1>4
<1>6. h[0] = base
  <2>1. 1..0 = {} /\ 0 \in 0..N
    OBVIOUS
  <2> QED
    BY <2>1
<1>7. \A m \in 0..(N - 1) : h[m + 1] = F[<<h[m], m + 1>>]
  <2> SUFFICES ASSUME NEW m \in 0..(N - 1) PROVE h[m + 1] = F[<<h[m], m + 1>>]
    OBVIOUS
  <2>1. m \in 0..N /\ m + 1 \in 0..N
    OBVIOUS
  <2> QED
    BY <1>2, <1>4, <2>1
<1>8. f[1..N] = h[N]
  OBVIOUS
<1>9. FoldRun(h, N, V, base, F, f[1..N])
  BY <1>5, <1>6, <1>7, <1>8 DEF FoldRun
<1> QED
  BY <1>9

-----------------------------------------------------------------------------
(* Sums *)

\* g gives the sum of f over every part of its domain, one element after another
IsSum(g, f) ==
  \A s \in SUBSET DOMAIN f :
    g[s] = IF s = {} THEN 0
           ELSE f[CHOOSE x \in s : TRUE] + g[s \ {CHOOSE x \in s : TRUE}]

\* A sum over a finite set is taken one element after another.
LEMMA SumUnfolds ==
  ASSUME NEW S, IsFiniteSet(S), NEW f \in [S -> Int]
  PROVE  \E g : IsSum(g, f) /\ SumFunction(f) = g[S]
<1> DEFINE c == [s \in SUBSET S |-> CHOOSE x \in s : TRUE]
           F == [p \in Int \X S |-> f[p[2]] + p[1]]
           Eq(g) == g = [s \in SUBSET S |->
                           IF s = {} THEN 0
                           ELSE f[CHOOSE x \in s : TRUE] + g[s \ {CHOOSE x \in s : TRUE}]]
<1>1. \A s \in SUBSET S : s # {} => c[s] \in s
  OBVIOUS
<1>2. F \in [Int \X S -> Int]
  OBVIOUS
<1>3. 0 \in Int
  OBVIOUS
<1>4. \E g : IsFold(g, S, Int, 0, F, c)
  <2> HIDE DEF c, F
  <2> QED
    BY <1>1, <1>2, <1>3, FoldExists, Zenon
<1>5. PICK g \in [SUBSET S -> Int] :
         \A s \in SUBSET S : g[s] = IF s = {} THEN 0 ELSE F[<<g[s \ {c[s]}], c[s]>>]
  BY <1>4 DEF IsFold
<1>6. ASSUME NEW s \in SUBSET S, s # {}
      PROVE  g[s] = f[CHOOSE x \in s : TRUE] + g[s \ {CHOOSE x \in s : TRUE}]
  <2>1. c[s] = CHOOSE x \in s : TRUE
    OBVIOUS
  <2>2. c[s] \in S /\ s \ {c[s]} \in SUBSET S
    BY <1>1, <1>6
  <2>3. F[<<g[s \ {c[s]}], c[s]>>] = f[c[s]] + g[s \ {c[s]}]
    <3> HIDE DEF c
    <3>1. g[s \ {c[s]}] \in Int
      BY <2>2
    <3> QED
      BY <2>2, <3>1
  <2> HIDE DEF c, F
  <2> QED
    BY <1>5, <1>6, <2>1, <2>3
<1>7. Eq(g)
  <2>1. \A s \in SUBSET S : g[s] = IF s = {} THEN 0
                       ELSE f[CHOOSE x \in s : TRUE] + g[s \ {CHOOSE x \in s : TRUE}]
    BY <1>5, <1>6
  <2>2. g = [s \in SUBSET S |-> g[s]]
    OBVIOUS
  <2> QED
    BY <2>1, <2>2
<1>8. SumFunction(f) = (CHOOSE h : Eq(h))[S]
  BY Zenon DEF SumFunction, SumFunctionOnSet, FoldFunctionOnSet, MapThenFoldSet
<1> DEFINE h == CHOOSE h : Eq(h)
<1>9. Eq(h)
  <2> HIDE DEF Eq
  <2> QED
    BY <1>7
<1>10. \A s \in SUBSET S :
         h[s] = IF s = {} THEN 0
                ELSE f[CHOOSE x \in s : TRUE] + h[s \ {CHOOSE x \in s : TRUE}]
  <2> HIDE DEF h
  <2> QED
    BY <1>9
<1> HIDE DEF h
<1>11. IsSum(h, f)
  BY <1>10 DEF IsSum
<1>12. SumFunction(f) = h[S]
  BY <1>8 DEF h
<1> QED
  BY <1>11, <1>12

\* A sum lies between the number of its terms times the least and times the
\* greatest that a term can be.
LEMMA SumWithin ==
  ASSUME NEW S, IsFiniteSet(S), NEW f \in [S -> Int], NEW low \in Int, NEW high \in Int
  PROVE  /\ Cardinality(S) \in Nat /\ SumFunction(f) \in Int
         /\ (\A x \in S : low <= f[x]) => low * Cardinality(S) <= SumFunction(f)
         /\ (\A x \in S : f[x] <= high) => SumFunction(f) <= high * Cardinality(S)
<1>0. PICK g : IsSum(g, f) /\ SumFunction(f) = g[S]
  BY SumUnfolds
<1>1. /\ SumFunction(f) = g[S]
      /\ \A s \in SUBSET S :
           g[s] = IF s = {} THEN 0
                  ELSE f[CHOOSE x \in s : TRUE] + g[s \ {CHOOSE x \in s : TRUE}]
  BY <1>0 DEF IsSum
<1> DEFINE Above == \A x \in S : low <= f[x]
           Below == \A x \in S : f[x] <= high
           Bounded(s, n) == /\ g[s] \in Int
                            /\ Above => low * n <= g[s]
                            /\ Below => g[s] <= high * n
           P == {n \in Nat : \A s \in SUBSET S : Cardinality(s) = n => Bounded(s, n)}
<1>2. 0 \in P
  <2> SUFFICES ASSUME NEW s \in SUBSET S, Cardinality(s) = 0 PROVE Bounded(s, 0)
    OBVIOUS
  <2>1. s = {}
    BY FS_Subset, FS_EmptySet
  <2>2. g[s] = 0
    BY <1>1, <2>1
  <2>3. low * 0 = 0 /\ high * 0 = 0
    OBVIOUS
  <2> QED
    BY <2>2, <2>3
<1>3. ASSUME NEW n \in P PROVE n + 1 \in P
  <2>0. n \in Nat /\ \A s \in SUBSET S : Cardinality(s) = n => Bounded(s, n)
    <3> HIDE DEF Bounded
    <3> QED
      OBVIOUS
  <2> SUFFICES ASSUME NEW s \in SUBSET S, Cardinality(s) = n + 1 PROVE Bounded(s, n + 1)
    BY <2>0
  <2> DEFINE x == CHOOSE x \in s : TRUE
  <2>1. IsFiniteSet(s) /\ s # {}
    <3>1. IsFiniteSet(s)
      BY FS_Subset
    <3>2. Cardinality(s) # 0
      BY <2>0
    <3> QED
      BY <3>1, <3>2, FS_EmptySet
  <2>2. x \in s /\ x \in S
    BY <2>1
  <2>3. Cardinality(s \ {x}) = n
    <3>1. Cardinality(s \ {x}) = Cardinality(s) - 1
      BY <2>1, <2>2, FS_RemoveElement
    <3> QED
      BY <2>0, <3>1
  <2>4. Bounded(s \ {x}, n)
    <3>1. s \ {x} \in SUBSET S
      OBVIOUS
    <3> HIDE DEF Bounded, x
    <3> QED
      BY <2>0, <2>3, <3>1
  <2>5. g[s] = f[x] + g[s \ {x}]
    BY <1>1, <2>1
  <2>6. low * (n + 1) = low * n + low /\ high * (n + 1) = high * n + high
        /\ low * n \in Int /\ high * n \in Int
    BY <2>0
  <2>7. f[x] \in Int /\ (Above => low <= f[x]) /\ (Below => f[x] <= high)
    BY <2>2
  <2> HIDE DEF x, Above, Below
  <2> QED
    BY <2>4, <2>5, <2>6, <2>7
<1>4. P \subseteq Nat
  OBVIOUS
<1>5. Cardinality(S) \in Nat
  BY FS_CardinalityType
<1>6. Cardinality(S) \in P
  <2> HIDE DEF P
  <2> QED
    BY <1>2, <1>3, <1>4, <1>5, Induct
<1>7. Bounded(S, Cardinality(S))
  <2> HIDE DEF Bounded
  <2>1. \A s \in SUBSET S : Cardinality(s) = Cardinality(S) => Bounded(s, Cardinality(S))
    BY <1>6
  <2> QED
    BY <2>1
<1> QED
  BY <1>1, <1>5, <1>7
=============================================================================
