-------------------------------- MODULE OrderProofs --------------------------------
(***************************************************************************)
(* Finite sets of naturals in their order: the least element, which the    *)
(* ascending loops of the route tables find first, and the enumeration,    *)
(* which is the order their loops over all slots go in.                    *)
(***************************************************************************)
EXTENDS Integers, FiniteSets, FiniteSetsExt, FiniteSetTheorems, FunctionTheorems,
        WellFoundedInduction, TLAPS

\* Min picks a least element: every nonempty set of naturals has one.
LEMMA MinIsLeast ==
    ASSUME NEW S, S \subseteq Nat, S # {}
    PROVE  Min(S) \in S /\ \A y \in S : Min(S) <= y
<1> DEFINE R == {ss \in Nat \X Nat : ss[1] < ss[2]}
<1>1. R = OpToRel(<, Nat)
  BY DEF OpToRel
<1>2. IsWellFoundedOn(R, Nat)
  BY <1>1, NatLessThanWellFounded
<1> HIDE DEF R
<1>3. PICK x \in S : \A y \in S : ~ (<<y, x>> \in R)
  BY <1>2, WFMin
<1>4. ASSUME NEW y \in S PROVE x <= y
  <2>1. x \in Nat /\ y \in Nat
    OBVIOUS
  <2>2. CASE y < x
    <3>1. <<y, x>> \in R
      BY <2>1, <2>2 DEF R
    <3>2. QED
      BY <3>1, <1>3
  <2>3. QED
    BY <2>1, <2>2
<1>5. QED
  BY <1>4 DEF Min

\* Induction, for the numbers of a set: no least number is outside it.
LEMMA SetInduction ==
    ASSUME NEW S, 0 \in S, \A n \in Nat : n \in S => n + 1 \in S
    PROVE  Nat \subseteq S
<1> DEFINE Out == Nat \ S
<1>1. CASE Out = {}
  BY <1>1
<1>2. CASE Out # {}
  <2>1. PICK m \in Out : \A y \in Out : m <= y
    BY <1>2, MinIsLeast
  <2>2. m \in Nat /\ m # 0 /\ m \notin S
    BY <2>1
  <2>3. m - 1 \in Nat /\ m - 1 \in S /\ (m - 1) + 1 = m
    BY <2>1, <2>2
  <2>4. QED
    BY <2>2, <2>3
<1>3. QED
  BY <1>1, <1>2

---------------------------------------------------------------------------
(* The order in which a loop over all slots takes those that are occupied.  *)

Increasing(f) == \A i, j \in DOMAIN f : i < j => f[i] < f[j]

Enumerable(S) == \E f \in [1 .. Cardinality(S) -> S] : Increasing(f)

\* A set of slots below n + 1 has an order if those below n have.
LEMMA OneSlotMore ==
    ASSUME NEW n \in Nat, NEW S, S \subseteq 0 .. n,
           \A T \in SUBSET (0 .. n - 1) : Enumerable(T)
    PROVE  Enumerable(S)
<1>1. CASE n \notin S
  <2>1. S \subseteq 0 .. n - 1
    BY <1>1
  <2>2. QED
    BY <2>1
<1>2. CASE n \in S
  <2> DEFINE T == S \ {n}
             c == Cardinality(T)
  <2>1. T \subseteq 0 .. n - 1
    OBVIOUS
  <2>2. IsFiniteSet(S)
    <3>1. IsFiniteSet(0 .. n)
      BY FS_Interval
    <3>2. QED
      BY <3>1, FS_Subset
  <2>3. IsFiniteSet(T) /\ c \in Nat /\ Cardinality(S) = c + 1
    <3>1. IsFiniteSet(T) /\ c = Cardinality(S) - 1
      BY <1>2, <2>2, FS_RemoveElement
    <3>2. c \in Nat /\ Cardinality(S) \in Nat
      BY <2>2, <3>1, FS_CardinalityType
    <3> HIDE DEF c
    <3>3. QED
      BY <3>1, <3>2
  <2>4. PICK f \in [1 .. c -> T] : Increasing(f)
    BY <2>1 DEF Enumerable
  <2> HIDE DEF c
  <2> DEFINE g == [i \in 1 .. c + 1 |-> IF i = c + 1 THEN n ELSE f[i]]
  <2>5. \A i \in 1 .. c : f[i] \in T /\ f[i] < n
    <3>1. \A k \in T : k < n
      BY <2>1
    <3>2. QED
      BY <3>1
  <2>6. g \in [1 .. c + 1 -> S]
    BY <1>2, <2>3, <2>5
  <2>7. ASSUME NEW i \in 1 .. c + 1, NEW j \in 1 .. c + 1, i < j
        PROVE  g[i] < g[j]
    <3>1. i \in 1 .. c /\ g[i] = f[i]
      BY <2>3, <2>7
    <3>2. CASE j = c + 1
      BY <2>5, <3>1, <3>2
    <3>3. CASE j # c + 1
      <4>1. j \in 1 .. c /\ g[j] = f[j]
        BY <2>3, <3>3
      <4>2. QED
        BY <2>4, <2>7, <3>1, <4>1 DEF Increasing
    <3>4. QED
      BY <3>2, <3>3
  <2>8. Increasing(g)
    BY <2>7 DEF Increasing
  <2>9. QED
    BY <2>3, <2>6, <2>8 DEF Enumerable
<1>3. QED
  BY <1>1, <1>2

\* Every set of slots has an order: there is no least bound under which one
\* has none.
LEMMA SlotsEnumerable ==
    ASSUME NEW N \in Nat, NEW S, S \subseteq 0 .. N - 1
    PROVE  Enumerable(S)
<1> DEFINE Bad == {n \in Nat : \E T \in SUBSET (0 .. n - 1) : ~Enumerable(T)}
<1>1. CASE Bad = {}
  BY <1>1
<1>2. CASE Bad # {}
  <2>1. PICK n \in Nat : n = Min(Bad)
    BY <1>2, MinIsLeast
  <2>2. n \in Bad /\ \A k \in Bad : n <= k
    BY <1>2, <2>1, MinIsLeast
  <2>3. PICK T \in SUBSET (0 .. n - 1) : ~Enumerable(T)
    BY <2>2
  <2>4. CASE n = 0
    <3>0. T = {}
      BY <2>4
    <3>1. Cardinality(T) = 0
      BY <3>0, FS_EmptySet
    <3>2. PICK f : f = [i \in {} |-> i]
      OBVIOUS
    <3>3. f \in [1 .. Cardinality(T) -> T] /\ Increasing(f)
      BY <3>0, <3>1, <3>2 DEF Increasing
    <3>4. QED
      BY <2>3, <3>3 DEF Enumerable
  <2>5. CASE n # 0
    <3>1. n - 1 \in Nat /\ n - 1 \notin Bad
      BY <2>2, <2>5
    <3>2. \A U \in SUBSET (0 .. (n - 1) - 1) : Enumerable(U)
      BY <3>1
    <3>3. QED
      BY <2>3, <3>1, <3>2, OneSlotMore
  <2>6. QED
    BY <2>4, <2>5
<1>3. QED
  BY <1>1, <1>2

\* Such an order leaves no slot out.
LEMMA IncreasingIsOnto ==
    ASSUME NEW S, S \subseteq Nat, IsFiniteSet(S),
           NEW f \in [1 .. Cardinality(S) -> S], Increasing(f)
    PROVE  \A s \in S : \E i \in 1 .. Cardinality(S) : f[i] = s
<1> DEFINE I == 1 .. Cardinality(S)
<1>1. Cardinality(S) \in Nat
  BY FS_CardinalityType
<1>2. IsFiniteSet(I) /\ Cardinality(I) = Cardinality(S)
  BY <1>1, FS_Interval
<1>3. ASSUME NEW i \in I, NEW j \in I, f[i] = f[j]
      PROVE  i = j
  <2>1. f[i] \in Nat /\ (i < j => f[i] < f[j]) /\ (j < i => f[j] < f[i])
    BY DEF Increasing
  <2>2. QED
    BY <1>1, <1>3, <2>1
<1>4. f \in Injection(I, S)
  BY <1>3, Fun_IsInj
<1>5. f \in Surjection(I, S)
  BY <1>2, <1>4, FS_Injection
<1>6. \A s \in S : \E i \in I : f[i] = s
  <2> HIDE DEF I
  <2>1. QED
    BY <1>5 DEF Surjection
<1>7. QED
  BY <1>6

---------------------------------------------------------------------------
(* Functions defined by recursion.                                         *)

IsIteration(b, x0, step, N) ==
    /\ b[0] = x0
    /\ \A n \in 1 .. N : b[n] = step[n, b[n - 1]]

\* One step more.
LEMMA IterationGoesOn ==
    ASSUME NEW X, NEW x0 \in X, NEW step \in [(Nat \X X) -> X], NEW n \in Nat,
           NEW b \in [0 .. n -> X], IsIteration(b, x0, step, n)
    PROVE  \E c \in [0 .. n + 1 -> X] : IsIteration(c, x0, step, n + 1)
<1> DEFINE last == step[n + 1, b[n]]
           c == [k \in 0 .. n + 1 |-> IF k = n + 1 THEN last ELSE b[k]]
<1>1. b[n] \in X /\ <<n + 1, b[n]>> \in Nat \X X
  OBVIOUS
<1>2. last \in X
  BY <1>1
<1> HIDE DEF last
<1>3. \A k \in 0 .. n : c[k] = b[k] /\ b[k] \in X
  OBVIOUS
<1>4. c[n + 1] = last
  OBVIOUS
<1>5. c \in [0 .. n + 1 -> X]
  BY <1>2
<1> HIDE DEF c
<1>6. c[0] = x0
  <2>1. b[0] = x0
    BY Zenon DEF IsIteration
  <2>2. 0 \in 0 .. n
    OBVIOUS
  <2>3. QED
    BY <1>3, <2>1, <2>2
<1>7. ASSUME NEW k \in 1 .. n + 1 PROVE c[k] = step[k, c[k - 1]]
  <2>1. k - 1 \in 0 .. n /\ c[k - 1] = b[k - 1]
    BY <1>3
  <2>2. CASE k = n + 1
    <3>1. k - 1 = n
      BY <2>2
    <3>2. QED
      BY <1>4, <2>1, <2>2, <3>1 DEF last
  <2>3. CASE k # n + 1
    <3>1. k \in 1 .. n /\ k \in 0 .. n
      BY <2>3
    <3>2. b[k] = step[k, b[k - 1]]
      BY <3>1 DEF IsIteration
    <3>3. QED
      BY <1>3, <2>1, <3>1, <3>2
  <2>4. QED
    BY <2>2, <2>3
<1>8. QED
  BY <1>5, <1>6, <1>7 DEF IsIteration

\* There is a function that starts with x0 and goes on with step, for every
\* number of steps: for the least one without, one more step would make it.
LEMMA IterationExists ==
    ASSUME NEW X, NEW x0 \in X, NEW step \in [(Nat \X X) -> X], NEW N \in Nat
    PROVE  \E b \in [0 .. N -> X] : IsIteration(b, x0, step, N)
<1> DEFINE Bad == {m \in Nat : ~ \E b \in [0 .. m -> X] : IsIteration(b, x0, step, m)}
<1>1. CASE Bad = {}
  BY <1>1
<1>2. CASE Bad # {}
  <2>1. PICK m \in Nat : m \in Bad /\ \A j \in Bad : m <= j
    BY <1>2, MinIsLeast
  <2>2. CASE m = 0
    <3> DEFINE b == [k \in 0 .. 0 |-> x0]
    <3>1. b \in [0 .. 0 -> X] /\ b[0] = x0 /\ (1 .. 0) = {}
      OBVIOUS
    <3>2. IsIteration(b, x0, step, 0)
      BY <3>1 DEF IsIteration
    <3>3. QED
      BY <2>1, <2>2, <3>1, <3>2
  <2>3. CASE m # 0
    <3>1. m - 1 \in Nat /\ m - 1 \notin Bad /\ (m - 1) + 1 = m
      BY <2>1, <2>3
    <3>2. PICK b \in [0 .. m - 1 -> X] : IsIteration(b, x0, step, m - 1)
      BY <3>1
    <3>3. \E c \in [0 .. (m - 1) + 1 -> X] : IsIteration(c, x0, step, (m - 1) + 1)
      BY <3>1, <3>2, IterationGoesOn
    <3>4. QED
      BY <2>1, <3>1, <3>3
  <2>4. QED
    BY <2>2, <2>3
<1>3. QED
  BY <1>1, <1>2

---------------------------------------------------------------------------
(* Folds over a sequence, as the community modules define them: by         *)
(* recursion over the sets of its indexes, the greatest taken off first.   *)

\* Max picks the greatest element.
LEMMA MaxIsGreatest ==
    ASSUME NEW N \in Nat, NEW s, s \subseteq 1 .. N, s # {}
    PROVE  Max(s) \in s /\ \A y \in s : y <= Max(s)
<1> DEFINE S == {N - x : x \in s}
<1>0. \A x \in s : x \in 1 .. N
  OBVIOUS
<1>1. S \subseteq Nat /\ S # {}
  <2>1. \A x \in 1 .. N : N - x \in Nat
    OBVIOUS
  <2>2. S \subseteq Nat
    BY <1>0, <2>1
  <2>3. S # {}
    OBVIOUS
  <2>4. QED
    BY <2>2, <2>3
<1>2. PICK m \in S : \A y \in S : m <= y
  BY <1>1, MinIsLeast
<1>3. PICK x \in s : m = N - x
  BY <1>2
<1>4. \A y \in s : y <= x
  <2> TAKE y \in s
  <2>1. N - x <= N - y
    BY <1>2, <1>3
  <2>2. x \in 1 .. N /\ y \in 1 .. N
    BY <1>0
  <2>3. QED
    BY <2>1, <2>2
<1>5. QED
  BY <1>3, <1>4 DEF Max

\* The recursion of a fold of a with G over the sets of indexes.
FoldsBy(g, N, base, G, a) ==
    /\ g[{}] = base
    /\ \A s \in SUBSET (1 .. N) :
          s # {} => g[s] = G[g[s \ {Max(s)}], a[Max(s)]]

\* It defines a function: in step n the sets that have n are given their value.
LEMMA FoldExists ==
    ASSUME NEW S, NEW base \in S, NEW A, NEW G \in [S \X A -> S],
           NEW N \in Nat, NEW a \in [1 .. N -> A]
    PROVE  \E g \in [SUBSET (1 .. N) -> S] : FoldsBy(g, N, base, G, a)
<1> DEFINE D  == SUBSET (1 .. N)
           X  == [D -> S]
           x0 == [s \in D |-> base]
           With(n, F) == [s \in D |-> IF n \in s THEN G[F[s \ {n}], a[n]] ELSE F[s]]
           step == [p \in Nat \X X |-> With(p[1], p[2])]
<1>1. x0 \in X
  OBVIOUS
<1>2. ASSUME NEW n \in Nat, NEW F \in X PROVE With(n, F) \in X
  <2>1. ASSUME NEW s \in D, n \in s PROVE G[F[s \ {n}], a[n]] \in S
    <3>1. F[s \ {n}] \in S /\ a[n] \in A
      BY <2>1
    <3>2. QED
      BY <3>1
  <2>2. QED
    BY <2>1
<1>3. step \in [Nat \X X -> X]
  <2> HIDE DEF With, X
  <2>1. QED
    BY <1>2
<1>4. \A n \in Nat : \A F \in X : step[n, F] = With(n, F)
  <2> HIDE DEF With, X
  <2>1. QED
    OBVIOUS
<1> HIDE DEF step
<1>5. PICK b \in [0 .. N -> X] : IsIteration(b, x0, step, N)
  <2> HIDE DEF X, x0
  <2>1. QED
    BY <1>1, <1>3, IterationExists
<1>6. ASSUME NEW n \in 1 .. N PROVE b[n - 1] \in X /\ b[n] = With(n, b[n - 1])
  <2> HIDE DEF With, X, D, x0
  <2>1. n - 1 \in 0 .. N /\ n \in Nat
    OBVIOUS
  <2>2. b[n - 1] \in X /\ b[n] = step[n, b[n - 1]]
    BY <1>5, <2>1 DEF IsIteration
  <2>3. QED
    BY <1>4, <2>1, <2>2
<1>7. ASSUME NEW n \in 1 .. N, NEW s \in D
      PROVE  b[n][s] = IF n \in s THEN G[b[n - 1][s \ {n}], a[n]] ELSE b[n - 1][s]
  <2>1. b[n] = With(n, b[n - 1])
    BY <1>6
  <2> HIDE DEF D
  <2>2. QED
    BY <2>1
<1>8. b[0] = x0 /\ \A n \in 0 .. N : b[n] \in X
  BY <1>5 DEF IsIteration
<1> HIDE DEF X, With
<1>9. ASSUME NEW n \in 0 .. N, NEW s \in D, s \subseteq 1 .. n
      PROVE  b[N][s] = b[n][s]
  <2> DEFINE K == {k \in Nat : n + k <= N => b[n + k][s] = b[n][s]}
  <2>1. 0 \in K
    OBVIOUS
  <2>2. ASSUME NEW k \in Nat, k \in K PROVE k + 1 \in K
    <3>1. SUFFICES ASSUME n + (k + 1) <= N PROVE b[n + (k + 1)][s] = b[n][s]
      OBVIOUS
    <3> DEFINE m == n + (k + 1)
    <3>2. m \in 1 .. N /\ m - 1 = n + k /\ m \notin s /\ n + k <= N
      BY <1>9, <3>1
    <3>3. b[n + k][s] = b[n][s]
      BY <2>2, <3>2
    <3> HIDE DEF m
    <3>4. b[m][s] = b[m - 1][s]
      BY <1>7, <3>2
    <3>5. QED
      BY <3>2, <3>3, <3>4 DEF m
  <2>3. Nat \subseteq K
    <3> HIDE DEF K
    <3>1. QED
      BY <2>1, <2>2, SetInduction
  <2>4. N - n \in Nat /\ n + (N - n) = N
    OBVIOUS
  <2>5. N - n \in K
    BY <2>3, <2>4
  <2>6. QED
    BY <2>4, <2>5
<1> DEFINE g == b[N]
<1>10. g \in [D -> S]
  BY <1>8 DEF X
<1>11. g[{}] = base
  <2>1. {} \in D /\ {} \subseteq 1 .. 0 /\ 0 \in 0 .. N
    OBVIOUS
  <2>2. b[N][{}] = b[0][{}]
    BY <1>9, <2>1
  <2>3. QED
    BY <1>8, <2>1, <2>2
<1>12. ASSUME NEW s \in D, s # {} PROVE g[s] = G[g[s \ {Max(s)}], a[Max(s)]]
  <2> DEFINE m == Max(s)
  <2>1. m \in s /\ \A y \in s : y <= m
    BY <1>12, MaxIsGreatest
  <2> HIDE DEF m
  <2>2. m \in 1 .. N /\ m \in 0 .. N /\ m - 1 \in 0 .. N
    BY <2>1
  <2>3. s \subseteq 1 .. m
    BY <2>1, <2>2
  <2>4. s \ {m} \in D /\ s \ {m} \subseteq 1 .. m - 1
    BY <2>1, <2>2
  <2>5. b[N][s] = b[m][s] /\ b[N][s \ {m}] = b[m - 1][s \ {m}]
    BY <1>9, <2>2, <2>3, <2>4
  <2>6. b[m][s] = G[b[m - 1][s \ {m}], a[m]]
    BY <1>7, <2>1, <2>2
  <2>7. QED
    BY <2>5, <2>6 DEF m
<1>13. QED
  BY <1>10, <1>11, <1>12 DEF FoldsBy

\* Over the sets of the first indexes it goes through the sequence, whatever it
\* is where it is not asked for.
Unrolls(g, N, S, base, G, a) ==
    /\ g[{}] = base
    /\ \A s \in SUBSET (1 .. N) :
          s # {} /\ g[s \ {Max(s)}] \in S => g[s] = G[g[s \ {Max(s)}], a[Max(s)]]

Runs(g, N, S, base, G, a) ==
    /\ \A k \in 0 .. N : g[1 .. k] \in S
    /\ g[1 .. 0] = base
    /\ \A k \in 1 .. N : g[1 .. k] = G[g[1 .. k - 1], a[k]]

LEMMA FoldRuns ==
    ASSUME NEW S, NEW base \in S, NEW A, NEW G \in [S \X A -> S],
           NEW N \in Nat, NEW a \in [1 .. N -> A],
           NEW g, Unrolls(g, N, S, base, G, a)
    PROVE  Runs(g, N, S, base, G, a)
<1>1. g[1 .. 0] = base
  <2>1. 1 .. 0 = {}
    OBVIOUS
  <2>2. QED
    BY <2>1 DEF Unrolls
<1>2. ASSUME NEW k \in 1 .. N, g[1 .. k - 1] \in S
      PROVE  g[1 .. k] = G[g[1 .. k - 1], a[k]] /\ g[1 .. k] \in S
  <2> DEFINE s == 1 .. k
  <2>1. s \in SUBSET (1 .. N) /\ s # {} /\ k \in s
    <3>1. k \in s /\ \A i \in s : i \in 1 .. N
      OBVIOUS
    <3> HIDE DEF s
    <3>2. QED
      BY <3>1
  <2>2. Max(s) = k
    <3>1. Max(s) \in s /\ \A y \in s : y <= Max(s)
      BY <2>1, MaxIsGreatest
    <3> DEFINE m == Max(s)
    <3> HIDE DEF m
    <3>2. m \in 1 .. k /\ k <= m
      BY <3>1 DEF m
    <3>3. m = k
      BY <3>2
    <3>4. QED
      BY <3>3 DEF m
  <2>3. s \ {k} = 1 .. k - 1
    OBVIOUS
  <2> HIDE DEF s
  <2>4. g[s] = G[g[s \ {k}], a[k]]
    BY <1>2, <2>1, <2>2, <2>3 DEF Unrolls
  <2>5. a[k] \in A
    OBVIOUS
  <2>6. QED
    BY <1>2, <2>3, <2>4, <2>5 DEF s
<1>3. \A k \in 0 .. N : g[1 .. k] \in S
  <2> DEFINE K == {k \in Nat : k <= N => g[1 .. k] \in S}
  <2>1. 0 \in K
    BY <1>1
  <2>2. ASSUME NEW k \in Nat, k \in K PROVE k + 1 \in K
    <3>1. SUFFICES ASSUME k + 1 <= N PROVE g[1 .. k + 1] \in S
      OBVIOUS
    <3>2. k + 1 \in 1 .. N /\ (k + 1) - 1 = k /\ k <= N
      BY <3>1
    <3>3. g[1 .. k] \in S
      BY <2>2, <3>2
    <3> DEFINE m == k + 1
    <3> HIDE DEF m
    <3>4. m \in 1 .. N /\ m - 1 = k
      BY <3>2 DEF m
    <3>5. g[1 .. m] \in S
      BY <1>2, <3>3, <3>4
    <3>6. QED
      BY <3>5 DEF m
  <2>3. Nat \subseteq K
    <3> HIDE DEF K
    <3>1. QED
      BY <2>1, <2>2, SetInduction
  <2>4. ASSUME NEW k \in 0 .. N PROVE g[1 .. k] \in S
    <3>1. k \in Nat /\ k <= N
      OBVIOUS
    <3>2. QED
      BY <2>3, <3>1
  <2>5. QED
    BY <2>4
<1>4. ASSUME NEW k \in 1 .. N PROVE g[1 .. k] = G[g[1 .. k - 1], a[k]]
  <2>1. k - 1 \in 0 .. N
    OBVIOUS
  <2> DEFINE m == k - 1
  <2> HIDE DEF m
  <2>2. g[1 .. m] \in S
    BY <1>3, <2>1 DEF m
  <2>3. QED
    BY <1>2, <2>2 DEF m
<1>5. QED
  BY <1>1, <1>3, <1>4 DEF Runs

=============================================================================
