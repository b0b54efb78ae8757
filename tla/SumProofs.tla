------------------------------ MODULE SumProofs ------------------------------
(***************************************************************************)
(* What recursion computes, proved.  The library's induction theorems are  *)
(* about an operator, which the provers cannot instantiate.  Here is       *)
(* induction over a set instead: the subsets of 0..e are well founded, so  *)
(* a set of numbers has a least element, and so a set with 0 and with      *)
(* every successor has them all.  From it follow the facts about Total and *)
(* FlattenSeq that proofs about messages under way need.                   *)
(***************************************************************************)
EXTENDS Sums, SequencesExt, FiniteSetTheorems, SequenceTheorems, TLAPS

\* A set of natural numbers with an element has a least one.
LEMMA Least ==
    ASSUME NEW T \in SUBSET Nat, NEW e \in T
    PROVE  \E x \in T : \A y \in T : x <= y
<1> DEFINE U == {x \in T : x <= e}
           F == {0..x : x \in U}
           R == StrictSubsetOrdering(0..e)
<1>1. IsFiniteSet(0..e) /\ e \in Nat
  <2>1. e \in Int /\ 0 \in Int /\ e \in Nat
    OBVIOUS
  <2> QED BY <2>1, FS_Interval
<1>2. IsWellFoundedOn(R, SUBSET (0..e))
  BY <1>1, FS_FiniteSubsetsOfFinite, FS_StrictSubsetOrderingWellFounded
<1>3. F \in SUBSET (SUBSET (0..e)) /\ F # {}
  OBVIOUS
<1>4. PICK S \in F : \A V \in F : ~(<<V, S>> \in R)
  <2> HIDE DEF F, R
  <2> QED BY <1>2, <1>3, WFMin
<1>5. PICK x \in U : S = 0..x
  BY <1>4
<1>6. \A y \in T : x <= y
  <2> SUFFICES ASSUME NEW y \in T, y < x PROVE FALSE
    BY <1>5
  <2>1. y \in U /\ x \in Nat /\ y \in Nat
    BY <1>1, <1>5
  <2>2. 0..y \in F /\ 0..y \subseteq 0..x /\ 0..y # 0..x
    <3>1. x \in 0..x /\ x \notin 0..y
      BY <2>1
    <3> QED BY <2>1, <3>1
  <2>3. <<0..y, 0..x>> \in R
    BY <2>2, <1>3, <1>4, <1>5 DEF StrictSubsetOrdering
  <2> QED
    BY <2>2, <2>3, <1>4, <1>5
<1> QED
  BY <1>5, <1>6

\* Induction over the numbers up to n.
LEMMA InductTo ==
    ASSUME NEW n \in Nat, NEW S, 0 \in S, \A k \in 0..(n - 1) : k \in S => k + 1 \in S
    PROVE  0..n \subseteq S
<1> DEFINE T == {k \in 0..n : k \notin S}
<1> SUFFICES ASSUME NEW e \in T PROVE FALSE
  OBVIOUS
<1>1. PICK x \in T : \A y \in T : x <= y
  <2> HIDE DEF T
  <2>1. T \in SUBSET Nat
    BY DEF T
  <2> QED BY <2>1, Least
<1>2. x \in 1..n /\ x \notin S /\ x - 1 \in 0..(n - 1)
  OBVIOUS
<1>3. x - 1 \in S
  BY <1>1, <1>2
<1>4. (x - 1) + 1 = x
  BY <1>2
<1> QED
  BY <1>2, <1>3, <1>4

-----------------------------------------------------------------------------
(* Recursive functions *)

\* The values of a function defined by recursion up to n: each is what its step makes of
\* the one before, and has the properties that the steps hand on.
Unrolls(f, a, step, T, n, U) ==
    /\ f \in [0..n -> U] /\ f[0] = a
    /\ \A k \in 1..n : f[k] = step[k][f[k - 1]]
    /\ \A k \in 0..n : f[k] \in T[k]

\* Whatever the recursion defines by CHOOSE is such a function, at n.
LEMMA Unrolled ==
    ASSUME NEW n \in Nat, NEW U, NEW T \in [0..n -> SUBSET U], NEW a \in T[0],
           NEW step \in [1..n -> [U -> U]],
           \A k \in 1..n : \A w \in T[k - 1] : step[k][w] \in T[k]
    PROVE  \E f : Unrolls(f, a, step, T, n, U)
<1> DEFINE Upto(m) == {f \in [0..m -> U] :
                         /\ f[0] = a /\ \A k \in 1..m : f[k] = step[k][f[k - 1]]
                         /\ \A k \in 0..m : f[k] \in T[k]}
           S == {m \in 0..n : Upto(m) # {}}
<1>0. a \in U /\ 0 \in 0..n
  OBVIOUS
<1>1. 0 \in S
  <2> DEFINE e == [k \in 0..0 |-> a]
  <2>1. e \in [0..0 -> U] /\ e[0] = a /\ (\A k \in 1..0 : FALSE)
    BY <1>0
  <2>2. \A k \in 0..0 : e[k] \in T[k]
    OBVIOUS
  <2> HIDE DEF e
  <2>3. e \in Upto(0)
    BY <2>1, <2>2
  <2> HIDE DEF Upto
  <2> QED BY <1>0, <2>3
<1>2. ASSUME NEW m \in 0..(n - 1), m \in S PROVE m + 1 \in S
  <2>1. PICK f \in Upto(m) : TRUE
    BY <1>2
  <2>2. /\ f \in [0..m -> U] /\ f[0] = a /\ \A k \in 1..m : f[k] = step[k][f[k - 1]]
        /\ \A k \in 0..m : f[k] \in T[k]
    BY <2>1
  <2> DEFINE h == [k \in 0..(m + 1) |-> IF k = m + 1 THEN step[m + 1][f[m]] ELSE f[k]]
  <2>3. m \in 0..m /\ m + 1 \in 1..n /\ m + 1 \in 0..n /\ m \in Nat /\ (m + 1) - 1 = m
    OBVIOUS
  <2>4. step[m + 1][f[m]] \in T[m + 1] /\ step[m + 1][f[m]] \in U
    <3>1. f[m] \in T[(m + 1) - 1]
      BY <2>2, <2>3
    <3>2. step[m + 1][f[m]] \in T[m + 1]
      BY <2>3, <3>1
    <3>3. T[m + 1] \in SUBSET U
      BY <2>3
    <3> QED BY <3>2, <3>3
  <2>5. h \in [0..(m + 1) -> U]
    BY <2>2, <2>3, <2>4
  <2>6. h[0] = a
    BY <2>2, <2>3
  <2>7. ASSUME NEW k \in 1..(m + 1) PROVE h[k] = step[k][h[k - 1]]
    <3>1. CASE k = m + 1
      <4>1. h[k - 1] = f[m] /\ h[k] = step[m + 1][f[m]]
        BY <3>1, <2>3
      <4> QED BY <3>1, <4>1
    <3>2. CASE k # m + 1
      <4>1. k \in 1..m /\ h[k - 1] = f[k - 1] /\ h[k] = f[k]
        BY <3>2, <2>3
      <4> QED BY <2>2, <4>1
    <3> QED BY <3>1, <3>2
  <2>8. \A k \in 0..(m + 1) : h[k] \in T[k]
    <3> TAKE k \in 0..(m + 1)
    <3>1. CASE k = m + 1
      BY <3>1, <2>4
    <3>2. CASE k # m + 1
      <4>1. k \in 0..m /\ h[k] = f[k]
        BY <3>2, <2>3
      <4> QED BY <2>2, <4>1
    <3> QED BY <3>1, <3>2
  <2> HIDE DEF h
  <2>9. h \in Upto(m + 1)
    BY <2>5, <2>6, <2>7, <2>8
  <2> QED BY <2>3, <2>9
<1>3. n \in S
  <2> HIDE DEF S
  <2>1. 0..n \subseteq S
    BY <1>1, <1>2, InductTo
  <2> QED BY <2>1
<1>4. PICK f \in Upto(n) : TRUE
  BY <1>3
<1> QED
  BY <1>4 DEF Unrolls

-----------------------------------------------------------------------------
(* Sums *)

\* g is the sums of the first so many numbers of w.
IsSums(g, w) ==
    /\ g \in [0..Len(w) -> Int] /\ g[0] = 0
    /\ \A k \in 1..Len(w) : g[k] = g[k - 1] + w[k]

\* There are such sums: those of the first n numbers are those of one less, and one more.
LEMMA SumsExist ==
    ASSUME NEW w \in Seq(Int)
    PROVE  \E g : IsSums(g, w)
<1> DEFINE N == Len(w)
           Upto(n) == {g \in [0..n -> Int] : g[0] = 0 /\ \A k \in 1..n : g[k] = g[k - 1] + w[k]}
           S == {n \in 0..N : Upto(n) # {}}
<1>0. N \in Nat /\ \A k \in 1..N : w[k] \in Int
  BY LenProperties, ElementOfSeq
<1> HIDE DEF N
<1>1. 0 \in S
  <2>1. [k \in 0..0 |-> 0] \in Upto(0)
    OBVIOUS
  <2> QED BY <1>0, <2>1
<1>2. ASSUME NEW n \in 0..(N - 1), n \in S PROVE n + 1 \in S
  <2>1. PICK g \in Upto(n) : TRUE
    BY <1>2
  <2>2. g \in [0..n -> Int] /\ g[0] = 0 /\ \A k \in 1..n : g[k] = g[k - 1] + w[k]
    BY <2>1
  <2> DEFINE h == [k \in 0..(n + 1) |-> IF k = n + 1 THEN g[n] + w[n + 1] ELSE g[k]]
  <2>3. n \in 0..n /\ n + 1 \in 1..N /\ n + 1 \in 0..N /\ n \in Nat
    BY <1>0
  <2>4. h \in [0..(n + 1) -> Int]
    BY <1>0, <2>2, <2>3
  <2>5. h[0] = 0
    BY <2>2, <2>3
  <2>6. ASSUME NEW k \in 1..(n + 1) PROVE h[k] = h[k - 1] + w[k]
    <3>1. CASE k = n + 1
      BY <3>1, <2>3
    <3>2. CASE k # n + 1
      BY <3>2, <2>2, <2>3
    <3> QED BY <3>1, <3>2
  <2> HIDE DEF h
  <2>7. h \in Upto(n + 1)
    BY <2>4, <2>5, <2>6
  <2> QED BY <2>3, <2>7
<1>3. N \in S
  <2> HIDE DEF S
  <2>1. 0..N \subseteq S
    BY <1>0, <1>1, <1>2, InductTo
  <2> QED BY <1>0, <2>1
<1>4. PICK g \in Upto(N) : TRUE
  BY <1>3
<1> QED
  BY <1>4 DEF IsSums, N

\* Total is the last of them.
LEMMA TotalIsLast ==
    ASSUME NEW w \in Seq(Int)
    PROVE  \E g : IsSums(g, w) /\ Total(w) = g[Len(w)]
<1> DEFINE Def(g) == [k \in 0..Len(w) |-> IF k = 0 THEN 0 ELSE g[k - 1] + w[k]]
           sum == CHOOSE g : g = Def(g)
<1>0. Len(w) \in Nat /\ \A k \in 1..Len(w) : w[k] \in Int
  BY LenProperties, ElementOfSeq
<1>1. PICK g : IsSums(g, w)
  BY SumsExist
<1>2. g = Def(g)
  BY <1>0, <1>1 DEF IsSums
<1>3. sum = Def(sum)
  BY <1>2, Zenon
<1>4. Total(w) = sum[Len(w)]
  BY Zenon DEF Total
<1> HIDE DEF sum
<1>5. /\ \A k \in 0..Len(w) : sum[k] = IF k = 0 THEN 0 ELSE sum[k - 1] + w[k]
      /\ DOMAIN sum = 0..Len(w)
  BY <1>3
<1> DEFINE S == {k \in 0..Len(w) : sum[k] \in Int}
<1>6. 0 \in S
  BY <1>0, <1>5
<1>7. ASSUME NEW k \in 0..(Len(w) - 1), k \in S PROVE k + 1 \in S
  <2>1. k + 1 \in 0..Len(w) /\ k + 1 # 0 /\ (k + 1) - 1 = k /\ k + 1 \in 1..Len(w)
    BY <1>0
  <2>2. sum[k + 1] = sum[k] + w[k + 1]
    BY <1>5, <2>1
  <2> QED BY <1>0, <1>7, <2>1, <2>2
<1>8. 0..Len(w) \subseteq S
  <2> HIDE DEF S
  <2> QED BY <1>0, <1>6, <1>7, InductTo
<1>9. sum \in [0..Len(w) -> Int]
  BY <1>3, <1>5, <1>8
<1>10. IsSums(sum, w)
  <2>1. \A k \in 1..Len(w) : k \in 0..Len(w) /\ k # 0
    BY <1>0
  <2>2. 0 \in 0..Len(w)
    BY <1>0
  <2> QED BY <1>5, <1>9, <2>1, <2>2 DEF IsSums
<1> QED
  BY <1>4, <1>10

\* What is needed of the sums of a sequence that consists of two, u before v: they go on
\* from the sum of u as those of v do.
LEMMA TotalConcat ==
    ASSUME NEW u \in Seq(Int), NEW v \in Seq(Int), NEW w \in Seq(Int),
           Len(w) = Len(u) + Len(v),
           \A k \in 1..Len(u) : w[k] = u[k], \A k \in 1..Len(v) : w[Len(u) + k] = v[k]
    PROVE  Total(w) = Total(u) + Total(v)
<1> DEFINE m == Len(u)
           n == Len(v)
<1>0. m \in Nat /\ n \in Nat /\ Len(w) = m + n
  BY LenProperties
<1>1. PICK f : IsSums(f, u) /\ Total(u) = f[Len(u)]
  BY TotalIsLast
<1>2. PICK g : IsSums(g, v) /\ Total(v) = g[Len(v)]
  BY TotalIsLast
<1>3. PICK h : IsSums(h, w) /\ Total(w) = h[Len(w)]
  BY TotalIsLast
<1>4. /\ f \in [0..m -> Int] /\ f[0] = 0 /\ \A k \in 1..m : f[k] = f[k - 1] + u[k]
      /\ g \in [0..n -> Int] /\ g[0] = 0 /\ \A k \in 1..n : g[k] = g[k - 1] + v[k]
      /\ h \in [0..(m + n) -> Int] /\ h[0] = 0
      /\ \A k \in 1..(m + n) : h[k] = h[k - 1] + w[k]
  BY <1>0, <1>1, <1>2, <1>3 DEF IsSums
<1>5. /\ \A k \in 1..m : w[k] = u[k]
      /\ \A k \in 1..n : w[m + k] = v[k]
  OBVIOUS
<1> HIDE DEF m, n
<1> DEFINE S == {k \in 0..m : h[k] = f[k]}
           T == {k \in 0..n : h[m + k] = f[m] + g[k]}
<1>6. 0 \in S
  BY <1>0, <1>4
<1>7. ASSUME NEW k \in 0..(m - 1), k \in S PROVE k + 1 \in S
  <2>1. k + 1 \in 1..m /\ k + 1 \in 1..(m + n) /\ (k + 1) - 1 = k /\ k + 1 \in 0..m
    BY <1>0
  <2>2. f[k + 1] = f[k] + u[k + 1] /\ h[k + 1] = h[k] + w[k + 1]
    BY <1>4, <2>1
  <2> QED BY <1>5, <1>7, <2>1, <2>2
<1>8. 0..m \subseteq S
  <2> HIDE DEF S
  <2> QED BY <1>0, <1>6, <1>7, InductTo
<1>9. h[m] = f[m]
  BY <1>0, <1>8
<1>10. 0 \in T
  BY <1>0, <1>4, <1>9
<1>11. ASSUME NEW k \in 0..(n - 1), k \in T PROVE k + 1 \in T
  <2>1. /\ k + 1 \in 1..n /\ m + (k + 1) \in 1..(m + n) /\ (k + 1) - 1 = k
        /\ (m + (k + 1)) - 1 = m + k /\ k + 1 \in 0..n /\ k \in 0..n /\ m \in 0..m
        /\ m + k \in 0..(m + n)
    BY <1>0
  <2>2. g[k + 1] = g[k] + v[k + 1] /\ h[m + (k + 1)] = h[m + k] + w[m + (k + 1)]
    BY <1>4, <2>1
  <2>3. w[m + (k + 1)] = v[k + 1] /\ h[m + k] = f[m] + g[k]
    BY <1>5, <1>11, <2>1
  <2>4. f[m] \in Int /\ g[k] \in Int /\ g[k + 1] \in Int /\ h[m + k] \in Int
    BY <1>4, <2>1
  <2>5. v[k + 1] \in Int
    BY <2>1, ElementOfSeq DEF n
  <2>6. h[m + (k + 1)] = (f[m] + g[k]) + v[k + 1]
    BY <2>2, <2>3
  <2>7. h[m + (k + 1)] = f[m] + g[k + 1]
    BY ONLY <2>2, <2>4, <2>5, <2>6
  <2> QED BY <2>1, <2>7
<1>12. 0..n \subseteq T
  <2> HIDE DEF T
  <2> QED BY <1>0, <1>10, <1>11, InductTo
<1>13. h[m + n] = f[m] + g[n]
  BY <1>0, <1>12
<1> QED
  BY <1>0, <1>1, <1>2, <1>3, <1>13 DEF m, n

\* The sum of no numbers, and of one.
LEMMA TotalSmall ==
    /\ Total(<<>>) = 0
    /\ \A x \in Int : Total(<<x>>) = x
<1>1. Total(<<>>) = 0
  <2>1. <<>> \in Seq(Int) /\ Len(<<>>) = 0
    OBVIOUS
  <2>2. PICK g : IsSums(g, <<>>) /\ Total(<<>>) = g[Len(<<>>)]
    BY <2>1, TotalIsLast
  <2> QED BY <2>1, <2>2 DEF IsSums
<1>2. ASSUME NEW x \in Int PROVE Total(<<x>>) = x
  <2> DEFINE w == <<x>>
  <2>1. w \in Seq(Int) /\ Len(w) = 1 /\ w[1] = x
    OBVIOUS
  <2> HIDE DEF w
  <2>2. PICK g : IsSums(g, w) /\ Total(w) = g[Len(w)]
    BY <2>1, TotalIsLast
  <2>3. g[0] = 0 /\ g[1] = g[0] + w[1]
    BY <2>1, <2>2 DEF IsSums
  <2> QED BY <2>1, <2>2, <2>3 DEF w
<1> QED
  BY <1>1, <1>2

\* The sum of natural numbers is one, and is zero if all of them are.
LEMMA TotalNat ==
    ASSUME NEW w \in Seq(Int), \A k \in 1..Len(w) : w[k] >= 0
    PROVE  Total(w) \in Nat /\ ((\A k \in 1..Len(w) : w[k] = 0) => Total(w) = 0)
<1> DEFINE n == Len(w)
<1>0. n \in Nat /\ \A k \in 1..n : w[k] \in Nat
  <2>1. \A k \in 1..n : w[k] \in Int
    BY ElementOfSeq
  <2> QED BY <2>1, LenProperties
<1>1. PICK g : IsSums(g, w) /\ Total(w) = g[Len(w)]
  BY TotalIsLast
<1>2. g \in [0..n -> Int] /\ g[0] = 0 /\ \A k \in 1..n : g[k] = g[k - 1] + w[k]
  BY <1>1 DEF IsSums
<1>3. Total(w) = g[n]
  BY <1>1
<1> HIDE DEF n
<1> DEFINE S == {k \in 0..n : g[k] >= 0}
           Z == {k \in 0..n : g[k] = 0}
<1>4. 0 \in S /\ 0 \in Z
  BY <1>0, <1>2
<1>5. \A k \in 0..(n - 1) : /\ k + 1 \in 1..n /\ k + 1 \in 0..n /\ (k + 1) - 1 = k
                            /\ k \in 0..n
  BY <1>0
<1>6. \A k \in 0..(n - 1) : g[k] \in Int /\ w[k + 1] \in Nat /\ g[k + 1] = g[k] + w[k + 1]
  BY <1>0, <1>2, <1>5
<1>7. ASSUME NEW k \in 0..(n - 1), k \in S PROVE k + 1 \in S
  BY <1>5, <1>6, <1>7
<1>8. 0..n \subseteq S
  <2> HIDE DEF S
  <2> QED BY <1>0, <1>4, <1>7, InductTo
<1>9. Total(w) \in Nat
  <2>1. n \in 0..n
    BY <1>0
  <2> QED BY <1>2, <1>3, <1>8, <2>1
<1>10. ASSUME \A k \in 1..n : w[k] = 0 PROVE Total(w) = 0
  <2>1. ASSUME NEW k \in 0..(n - 1), k \in Z PROVE k + 1 \in Z
    BY <1>5, <1>6, <1>10, <2>1
  <2>2. 0..n \subseteq Z
    <3> HIDE DEF Z
    <3> QED BY <1>0, <1>4, <2>1, InductTo
  <2>3. n \in 0..n
    BY <1>0
  <2> QED BY <1>3, <2>2, <2>3
<1> QED
  BY <1>9, <1>10 DEF n

\* The sum of n times the same number.
LEMMA TotalSame ==
    ASSUME NEW w \in Seq(Int), NEW c \in Int, \A k \in 1..Len(w) : w[k] = c
    PROVE  Total(w) = Len(w) * c
<1> DEFINE n == Len(w)
<1>0. n \in Nat /\ \A k \in 1..n : w[k] = c
  BY LenProperties
<1>1. PICK g : IsSums(g, w) /\ Total(w) = g[Len(w)]
  BY TotalIsLast
<1>2. g \in [0..n -> Int] /\ g[0] = 0 /\ \A k \in 1..n : g[k] = g[k - 1] + w[k]
  BY <1>1 DEF IsSums
<1>3. Total(w) = g[n]
  BY <1>1
<1> HIDE DEF n
<1> DEFINE S == {k \in 0..n : g[k] = k * c}
<1>4. 0 \in S
  BY <1>0, <1>2
<1>5. ASSUME NEW k \in 0..(n - 1), k \in S PROVE k + 1 \in S
  <2>1. k + 1 \in 1..n /\ k + 1 \in 0..n /\ (k + 1) - 1 = k
    BY <1>0
  <2>2. g[k + 1] = g[k] + c
    BY <1>0, <1>2, <2>1
  <2>3. (k + 1) * c = k * c + c
    OBVIOUS
  <2> QED BY <1>5, <2>1, <2>2, <2>3
<1>6. 0..n \subseteq S
  <2> HIDE DEF S
  <2> QED BY <1>0, <1>4, <1>5, InductTo
<1>7. n \in 0..n
  BY <1>0
<1> QED
  BY <1>3, <1>6, <1>7 DEF n

-----------------------------------------------------------------------------
(* Sequences of sequences *)

\* f gathers the n sequences of q, of members of M, one after the other; and what it comes to.
Gathers(f, q, n, M) ==
    /\ f \in [0..n -> Seq(M)] /\ f[0] = <<>> /\ FlattenSeq(q) = f[n]
    /\ \A k \in 1..n : f[k] = f[k - 1] \o q[k]

\* FlattenSeq appends one sequence after the other.
LEMMA Flattened ==
    ASSUME NEW n \in Nat \ {0}, NEW M, NEW q \in [1..n -> Seq(M)]
    PROVE  \E f : Gathers(f, q, n, M)
<1> DEFINE Cat(u, v) == u \o v
           Upto(m) == {f \in [0..m -> Seq(M)] :
                         f[0] = <<>> /\ \A k \in 1..m : f[k] = Cat(f[k - 1], q[k])}
           S == {m \in 0..n : Upto(m) # {}}
<1>0. n \in Nat /\ n # 0 /\ (\A k \in 1..n : q[k] \in Seq(M)) /\ <<>> \in Seq(M)
  OBVIOUS
<1>a. /\ \A u \in Seq(M) : Cat(<<>>, u) = u
      /\ \A u, v \in Seq(M) : Cat(u, v) \in Seq(M)
  BY ConcatProperties, ConcatEmptySeq
<1> HIDE DEF Cat
<1>1. 0 \in S
  <2> DEFINE e == [k \in 0..0 |-> <<>>]
  <2>1. e \in [0..0 -> Seq(M)] /\ e[0] = <<>>
    BY <1>0
  <2>2. \A k \in 1..0 : FALSE
    OBVIOUS
  <2> HIDE DEF e
  <2>3. e \in Upto(0)
    BY <2>1, <2>2
  <2> HIDE DEF Upto
  <2> QED BY <1>0, <2>3
<1>2. ASSUME NEW m \in 0..(n - 1), m \in S PROVE m + 1 \in S
  <2>1. PICK f \in Upto(m) : TRUE
    BY <1>2
  <2>2. f \in [0..m -> Seq(M)] /\ f[0] = <<>> /\ \A k \in 1..m : f[k] = Cat(f[k - 1], q[k])
    BY <2>1
  <2> DEFINE h == [k \in 0..(m + 1) |-> IF k = m + 1 THEN Cat(f[m], q[m + 1]) ELSE f[k]]
  <2>3. m \in 0..m /\ m + 1 \in 1..n /\ m + 1 \in 0..n /\ m \in Nat
    BY <1>0
  <2>4. Cat(f[m], q[m + 1]) \in Seq(M)
    BY <1>0, <1>a, <2>2, <2>3
  <2>5. h \in [0..(m + 1) -> Seq(M)]
    BY <2>2, <2>3, <2>4
  <2>6. h[0] = <<>>
    BY <2>2, <2>3
  <2>7. ASSUME NEW k \in 1..(m + 1) PROVE h[k] = Cat(h[k - 1], q[k])
    <3>1. CASE k = m + 1
      BY <3>1, <2>3
    <3>2. CASE k # m + 1
      BY <3>2, <2>2, <2>3
    <3> QED BY <3>1, <3>2
  <2> HIDE DEF h
  <2>8. h \in Upto(m + 1)
    BY <2>5, <2>6, <2>7
  <2> QED BY <2>3, <2>8
<1>3. n \in S
  <2> HIDE DEF S
  <2>1. 0..n \subseteq S
    BY <1>0, <1>1, <1>2, InductTo
  <2> QED BY <1>0, <2>1
<1>4. PICK f \in Upto(n) : TRUE
  BY <1>3
<1>5. f \in [0..n -> Seq(M)] /\ f[0] = <<>> /\ \A k \in 1..n : f[k] = Cat(f[k - 1], q[k])
  BY <1>4
<1> HIDE DEF S, Upto
<1> DEFINE Def(g) == [k \in 1..n |-> IF k = 1 THEN q[k] ELSE Cat(g[k - 1], q[k])]
           flatten == CHOOSE g : g = Def(g)
           g == [k \in 1..n |-> f[k]]
<1>6. g = Def(g)
  <2>1. ASSUME NEW k \in 1..n PROVE f[k] = IF k = 1 THEN q[k] ELSE Cat(f[k - 1], q[k])
    <3>1. CASE k = 1
      <4>1. f[1] = Cat(<<>>, q[1])
        BY <1>5, <3>1
      <4> QED BY <1>0, <1>a, <3>1, <4>1
    <3>2. CASE k # 1
      BY <1>5, <3>2
    <3> QED BY <3>1, <3>2
  <2>2. \A k \in 1..n : k # 1 => k - 1 \in 1..n
    BY <1>0
  <2> QED BY <2>1, <2>2
<1>7. flatten = Def(flatten)
  <2> HIDE DEF g, Def
  <2> QED BY <1>6, Zenon
<1>8. Len(q) = n
  BY <1>0
<1>9. FlattenSeq(q) = flatten[n]
  <2>1. FlattenSeq(q) = flatten[Len(q)]
    BY <1>0, <1>8, Zenon DEF FlattenSeq, Cat
  <2> QED BY <1>8, <2>1
<1> HIDE DEF flatten
<1>10. \A k \in 1..n : flatten[k] = IF k = 1 THEN q[k] ELSE Cat(flatten[k - 1], q[k])
  BY <1>7
<1> DEFINE Z == {k \in 0..n : k # 0 => flatten[k] = f[k]}
<1>11. 0 \in Z
  BY <1>0
<1>12. ASSUME NEW k \in 0..(n - 1), k \in Z PROVE k + 1 \in Z
  <2>1. k + 1 \in 1..n /\ k + 1 \in 0..n /\ (k + 1) - 1 = k
    BY <1>0
  <2>2. f[k + 1] = Cat(f[k], q[k + 1])
    BY <1>5, <2>1
  <2>3. CASE k = 0
    <3>0. 1 \in 1..n /\ 1 - 1 = 0
      BY <1>0
    <3>1. flatten[1] = q[1] /\ f[1] = Cat(<<>>, q[1])
      <4>1. f[1] = Cat(f[1 - 1], q[1]) /\ f[0] = <<>>
        BY <1>5, <3>0
      <4>2. flatten[1] = q[1]
        BY <1>10, <3>0
      <4> QED BY <3>0, <4>1, <4>2
    <3> QED BY <1>0, <1>a, <2>1, <2>3, <3>1
  <2>4. CASE k # 0
    BY <1>10, <1>12, <2>1, <2>2, <2>4
  <2> QED BY <2>3, <2>4
<1>13. 0..n \subseteq Z
  <2> HIDE DEF Z
  <2> QED BY <1>0, <1>11, <1>12, InductTo
<1>14. flatten[n] = f[n]
  BY <1>0, <1>13
<1>15. \A k \in 1..n : f[k] = f[k - 1] \o q[k]
  BY <1>5 DEF Cat
<1> QED
  BY <1>5, <1>9, <1>14, <1>15 DEF Gathers
=============================================================================
