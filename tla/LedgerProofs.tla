---------------------------- MODULE LedgerProofs ----------------------------
(***************************************************************************)
(* The figures of a receipt are right for rows of any number and times: a  *)
(* sweep over points in order counts who is open, and one over spans in    *)
(* order covers what they cover.                                           *)
(***************************************************************************)
EXTENDS Ledger, FiniteSetTheorems, WellFoundedInduction, TLAPS

(* A nonempty set of naturals has a least element.                         *)
LEMMA LeastNat ==
  ASSUME NEW T \in SUBSET Nat, T # {}
  PROVE  \E x \in T : \A y \in T : x <= y
<1> DEFINE Less == {p \in Nat \X Nat : p[1] < p[2]}
<1>1. IsWellFoundedOn(Less, Nat)
  <2>1. Less = OpToRel(<, Nat)
    BY DEF OpToRel
  <2>2. QED
    BY <2>1, NatLessThanWellFounded
<1>2. \A x, y \in Nat : y < x => <<y, x>> \in Less
  OBVIOUS
<1> HIDE DEF Less
<1>3. PICK x \in T : \A y \in T : ~ (<<y, x>> \in Less)
  BY <1>1, WFMin
<1>4. ASSUME NEW y \in T PROVE x <= y
  <2>1. x \in Nat /\ y \in Nat
    OBVIOUS
  <2>2. <<y, x>> \notin Less
    BY <1>3
  <2>3. ~(y < x)
    BY <1>2, <2>1, <2>2
  <2>4. QED
    BY <2>1, <2>3
<1>5. QED
  BY <1>4

(* So what holds at 0 and from each number to the next holds up to n: for  *)
(* the numbers where something holds, which a set can stand for.           *)
LEMMA UpTo ==
  ASSUME NEW n \in Nat, NEW Holds, 0 \in Holds,
         \A k \in 1..n : k - 1 \in Holds => k \in Holds
  PROVE  \A k \in 0..n : k \in Holds
<1> DEFINE T == {k \in 0..n : k \notin Holds}
<1>1. SUFFICES ASSUME T # {} PROVE FALSE
  OBVIOUS
<1>2. PICK m \in T : \A y \in T : m <= y
  <2>1. T \in SUBSET Nat
    OBVIOUS
  <2> HIDE DEF T
  <2>2. QED
    BY <1>1, <2>1, LeastNat
<1>3. m \in 1..n /\ m - 1 \in 0..n /\ m - 1 \notin T
  BY <1>2
<1>4. QED
  BY <1>3

(* Of finitely many numbers one is the largest.                            *)
LEMMA HasLargest ==
  ASSUME NEW n \in Nat, NEW f, \A k \in 0..n : f[k] \in Int
  PROVE  \E k \in 0..n : \A j \in 0..n : f[j] <= f[k]
<1> DEFINE Holds == {m \in 0..n : \E k \in 0..m : \A j \in 0..m : f[j] <= f[k]}
<1>1. 0 \in Holds
  OBVIOUS
<1>2. ASSUME NEW m \in 1..n, m - 1 \in Holds PROVE m \in Holds
  <2>1. PICK k \in 0..(m - 1) : \A j \in 0..(m - 1) : f[j] <= f[k]
    BY <1>2
  <2>2. CASE f[m] <= f[k]
    BY <2>1, <2>2
  <2>3. CASE ~(f[m] <= f[k])
    BY <2>1, <2>3
  <2>4. QED
    BY <2>2, <2>3
<1> HIDE DEF Holds
<1>3. n \in Holds
  BY <1>1, <1>2, UpTo
<1>4. QED
  BY <1>3 DEF Holds

LEMMA LargestIs ==
  ASSUME NEW T \in SUBSET Int, NEW x \in T, \A y \in T : y <= x
  PROVE  Largest(T) = x
<1>1. Largest(T) \in T /\ \A y \in T : y <= Largest(T)
  BY DEF Largest
<1>2. Largest(T) \in Int /\ x \in Int /\ Largest(T) <= x /\ x <= Largest(T)
  BY <1>1
<1>3. QED
  BY <1>2

(* A function that goes on from what it was is one: there is a solution.   *)
GoesOn(n, S, base, step, f) ==
  f \in [0..n -> S] /\ f[0] = base /\ \A k \in 1..n : f[k] = step[<<k, f[k - 1]>>]

LEMMA Recursion ==
  ASSUME NEW n \in Nat, NEW S, NEW base \in S, NEW step \in [(1..n) \X S -> S]
  PROVE  \E f : GoesOn(n, S, base, step, f)
<1> DEFINE Good(m, f) == f[0] = base /\ \A k \in 1..m : f[k] = step[<<k, f[k - 1]>>]
           Holds == {m \in 0..n : \E f \in [0..m -> S] : Good(m, f)}
<1>1. 0 \in Holds
  <2>1. [k \in 0..0 |-> base] \in [0..0 -> S] /\ Good(0, [k \in 0..0 |-> base])
    OBVIOUS
  <2> HIDE DEF Good
  <2>2. QED
    BY <2>1
<1>2. ASSUME NEW m \in 1..n, m - 1 \in Holds PROVE m \in Holds
  <2>1. PICK f \in [0..(m - 1) -> S] : Good(m - 1, f)
    BY <1>2
  <2> DEFINE g == [k \in 0..m |-> IF k < m THEN f[k] ELSE step[<<m, f[m - 1]>>]]
  <2>2. step[<<m, f[m - 1]>>] \in S
    OBVIOUS
  <2>3. g \in [0..m -> S]
    BY <2>2
  <2>4. Good(m, g)
    <3>1. g[0] = base
      BY <2>1
    <3>2. ASSUME NEW k \in 1..m PROVE g[k] = step[<<k, g[k - 1]>>]
      <4>1. k - 1 \in 0..m /\ k - 1 < m /\ k \in 0..m /\ g[k - 1] = f[k - 1]
        OBVIOUS
      <4>2. CASE k = m
        BY <4>1, <4>2
      <4>3. CASE k < m
        <5>1. k \in 1..(m - 1) /\ g[k] = f[k]
          BY <4>1, <4>3
        <5>2. QED
          BY <2>1, <4>1, <5>1
      <4>4. QED
        BY <4>2, <4>3
    <3>3. QED
      BY <3>1, <3>2
  <2>5. m \in 0..n
    OBVIOUS
  <2> HIDE DEF Good, g
  <2>6. QED
    BY <2>3, <2>4, <2>5
<1>3. n \in Holds
  <2> HIDE DEF Holds
  <2>1. QED
    BY <1>1, <1>2, UpTo
<1>4. QED
  BY <1>3 DEF GoesOn

(***************************************************************************)
(* Sorting.                                                                *)
(***************************************************************************)
IsOrder(X, before) ==
  /\ \A x \in X : <<x, x>> \notin before
  /\ \A x, y, z \in X : <<x, y>> \in before /\ <<y, z>> \in before => <<x, z>> \in before
  /\ \A x, y \in X : x = y \/ <<x, y>> \in before \/ <<y, x>> \in before

(* Every one has its place, and what has an earlier place comes before.    *)
IsSorting(X, before, f) ==
  /\ f \in [1..Cardinality(X) -> X]
  /\ \A x \in X : \E k \in 1..Cardinality(X) : f[k] = x
  /\ \A j, k \in 1..Cardinality(X) : j < k => <<f[j], f[k]>> \in before

(* Counting those before one puts a finite set in order.                   *)
LEMMA SortedSorts ==
  ASSUME NEW X, NEW before, IsFiniteSet(X), IsOrder(X, before)
  PROVE  IsSorting(X, before, Sorted(X, before))
<1> DEFINE n == Cardinality(X)
           Below(x) == {y \in X : <<y, x>> \in before}
           rank == [x \in X |-> Cardinality(Below(x))]
           f == Sorted(X, before)
<1>0. n \in Nat
  BY FS_CardinalityType
<1>1. ASSUME NEW x \in X
      PROVE  IsFiniteSet(Below(x)) /\ Cardinality(Below(x)) \in Nat /\ Cardinality(Below(x)) < n
  <2>1. IsFiniteSet(X \ {x}) /\ Cardinality(X \ {x}) = n - 1
    BY FS_RemoveElement
  <2>2. Below(x) \in SUBSET (X \ {x})
    BY DEF IsOrder
  <2> HIDE DEF Below
  <2>3. IsFiniteSet(Below(x)) /\ Cardinality(Below(x)) <= n - 1
    BY <2>1, <2>2, FS_Subset
  <2>4. QED
    BY <1>0, <2>3, FS_CardinalityType
<1>2. ASSUME NEW x \in X, NEW y \in X, <<x, y>> \in before PROVE rank[x] < rank[y]
  <2>1. IsFiniteSet(Below(x) \cup {x}) /\ Cardinality(Below(x) \cup {x}) = Cardinality(Below(x)) + 1
    <3>1. x \notin Below(x)
      BY DEF IsOrder
    <3>2. QED
      BY <1>1, <3>1, FS_AddElement
  <2>2. Below(x) \cup {x} \in SUBSET Below(y)
    BY <1>2 DEF IsOrder
  <2>3. Cardinality(Below(x) \cup {x}) <= Cardinality(Below(y))
    <3> HIDE DEF Below
    <3>1. QED
      BY <1>1, <2>2, FS_Subset
  <2>4. rank[x] = Cardinality(Below(x)) /\ rank[y] = Cardinality(Below(y))
    OBVIOUS
  <2> HIDE DEF Below, rank
  <2>5. QED
    BY <1>1, <2>1, <2>3, <2>4
<1>3. rank \in Injection(X, 0..(n - 1))
  <2>1. rank \in [X -> 0..(n - 1)]
    BY <1>0, <1>1
  <2>2. ASSUME NEW x \in X, NEW y \in X, rank[x] = rank[y] PROVE x = y
    <3>1. rank[x] \in Nat /\ rank[y] \in Nat
      BY <1>1
    <3> HIDE DEF rank
    <3>2. ~(<<x, y>> \in before) /\ ~(<<y, x>> \in before)
      BY <1>2, <2>2, <3>1
    <3>3. QED
      BY <3>2 DEF IsOrder
  <2> HIDE DEF rank
  <2>3. QED
    BY <2>1, <2>2 DEF Injection, IsInjective
<1>4. rank \in Surjection(X, 0..(n - 1))
  <2>1. IsFiniteSet(0..(n - 1)) /\ Cardinality(0..(n - 1)) = n
    <3>1. CASE n = 0
      BY <3>1, FS_Interval, FS_EmptySet
    <3>2. CASE n # 0
      BY <1>0, <3>2, FS_Interval
    <3>3. QED
      BY <3>1, <3>2
  <2> HIDE DEF rank
  <2>2. QED
    BY <1>3, <2>1, FS_Injection
<1>5. ASSUME NEW k \in 1..n PROVE f[k] \in X /\ rank[f[k]] = k - 1
  <2>1. PICK x \in X : rank[x] = k - 1
    <3>1. k - 1 \in 0..(n - 1)
      BY <1>0
    <3> HIDE DEF rank
    <3>2. QED
      BY <1>4, <3>1 DEF Surjection
  <2>2. f[k] = CHOOSE y \in X : Cardinality(Below(y)) = k - 1
    BY DEF Sorted
  <2>3. QED
    BY <2>1, <2>2
<1>6. f \in [1..n -> X]
  BY <1>5 DEF Sorted
<1> HIDE DEF f, rank
<1>7. ASSUME NEW x \in X PROVE \E k \in 1..n : f[k] = x
  <2>1. rank[x] \in 0..(n - 1)
    BY <1>3 DEF Injection, IsInjective
  <2>2. rank[x] + 1 \in 1..n /\ (rank[x] + 1) - 1 = rank[x]
    BY <1>0, <2>1
  <2>3. f[rank[x] + 1] \in X /\ rank[f[rank[x] + 1]] = rank[x]
    BY <1>5, <2>2
  <2>4. f[rank[x] + 1] = x
    BY <1>3, <2>3 DEF Injection, IsInjective
  <2>5. QED
    BY <2>2, <2>4
<1>8. ASSUME NEW j \in 1..n, NEW k \in 1..n, j < k PROVE <<f[j], f[k]>> \in before
  <2>1. f[j] \in X /\ f[k] \in X /\ rank[f[j]] = j - 1 /\ rank[f[k]] = k - 1
    BY <1>5
  <2>2. f[j] # f[k]
    BY <1>8, <2>1
  <2>3. ~(<<f[k], f[j]>> \in before)
    BY <1>2, <1>8, <2>1
  <2>4. QED
    BY <2>1, <2>2, <2>3 DEF IsOrder
<1>9. QED
  BY <1>6, <1>7, <1>8 DEF IsSorting, f

(***************************************************************************)
(* Rows are timed by a clock.                                              *)
(***************************************************************************)
LEMMA Clock ==
  ASSUME NEW timed \in Timings, NEW i \in DOMAIN timed
  PROVE  /\ Started(timed, i) \in Nat /\ Ended(timed, i) \in Nat
         /\ Until(timed, i) \in Nat /\ Started(timed, i) <= Until(timed, i)
         /\ At(timed, <<i, 1>>) = Started(timed, i) /\ At(timed, <<i, -1>>) \in Nat
         /\ At(timed, <<i, -1>>) = Larger(Started(timed, i) + 1, Ended(timed, i))
         /\ At(timed, <<i, 1>>) < At(timed, <<i, -1>>)
  BY LedgerAssumption DEF LedgerAssumption, Started, Ended, Until, At, Larger

LEMMA RowsFinite ==
  ASSUME NEW timed \in Timings, NEW S \in SUBSET DOMAIN timed
  PROVE  IsFiniteSet(S) /\ S \in SUBSET Nat
<1>1. Len(timed) \in Nat /\ DOMAIN timed = 1..Len(timed)
  BY LedgerAssumption DEF LedgerAssumption
<1>2. IsFiniteSet(DOMAIN timed)
  BY <1>1, FS_Interval
<1>3. QED
  BY <1>1, <1>2, FS_Subset

(***************************************************************************)
(* The sweep over points.                                                  *)
(***************************************************************************)
LEMMA PointIs ==
  ASSUME NEW timed \in Timings, NEW S \in SUBSET DOMAIN timed, NEW p \in Points(S)
  PROVE  /\ p[1] \in S /\ p[1] \in Nat /\ At(timed, p) \in Nat
         /\ \/ p = <<p[1], 1>> /\ p[2] = 1
            \/ p = <<p[1], -1>> /\ p[2] = -1
<1>1. PICK i \in S : p = <<i, 1>> \/ p = <<i, -1>>
  BY DEF Points
<1>2. i \in Nat /\ At(timed, <<i, 1>>) \in Nat /\ At(timed, <<i, -1>>) \in Nat
  BY Clock, RowsFinite
<1>3. QED
  BY <1>1, <1>2

LEMMA InOrder ==
  ASSUME NEW timed, NEW S, NEW p \in Points(S), NEW q \in Points(S)
  PROVE  <<p, q>> \in PointOrder(timed, S) <=>
           \/ At(timed, p) < At(timed, q)
           \/ At(timed, p) = At(timed, q) /\ (p[2] < q[2] \/ (p[2] = q[2] /\ p[1] < q[1]))
  BY DEF PointOrder, EndsFirst

LEMMA PointsSorted ==
  ASSUME NEW timed \in Timings, NEW S \in SUBSET DOMAIN timed
  PROVE  /\ Cardinality(Points(S)) \in Nat
         /\ IsSorting(Points(S), PointOrder(timed, S), Sorted(Points(S), PointOrder(timed, S)))
<1>1. IsFiniteSet(Points(S))
  <2>1. IsFiniteSet({1, -1})
    <3>1. IsFiniteSet({1})
      BY FS_Singleton
    <3>2. IsFiniteSet({1} \cup {-1})
      BY <3>1, FS_AddElement
    <3>3. {1, -1} = {1} \cup {-1}
      OBVIOUS
    <3>4. QED
      BY <3>2, <3>3
  <2>2. QED
    BY <2>1, RowsFinite, FS_Product DEF Points
<1>2. \A p \in Points(S) :
        At(timed, p) \in Nat /\ p[2] \in {1, -1} /\ p[1] \in Nat /\ p = <<p[1], p[2]>>
  BY PointIs
<1>3. \A p, q \in Points(S) :
        <<p, q>> \in PointOrder(timed, S) <=>
          \/ At(timed, p) < At(timed, q)
          \/ At(timed, p) = At(timed, q) /\ (p[2] < q[2] \/ (p[2] = q[2] /\ p[1] < q[1]))
  BY InOrder
<1>4. IsOrder(Points(S), PointOrder(timed, S))
  <2>1. \A p \in Points(S) : <<p, p>> \notin PointOrder(timed, S)
    BY <1>2, <1>3
  <2>2. ASSUME NEW p \in Points(S), NEW q \in Points(S), NEW r \in Points(S),
               <<p, q>> \in PointOrder(timed, S), <<q, r>> \in PointOrder(timed, S)
        PROVE  <<p, r>> \in PointOrder(timed, S)
    BY <1>2, <1>3, <2>2
  <2>3. ASSUME NEW p \in Points(S), NEW q \in Points(S)
        PROVE  p = q \/ <<p, q>> \in PointOrder(timed, S) \/ <<q, p>> \in PointOrder(timed, S)
    BY <1>2, <1>3
  <2>4. QED
    BY <2>1, <2>2, <2>3 DEF IsOrder
<1>5. QED
  BY <1>1, <1>4, SortedSorts, FS_CardinalityType

(* How many are open goes up and down by the points.                       *)
LEMMA OpenedGoesOn ==
  ASSUME NEW n \in Nat, NEW points, \A k \in 1..n : points[k][2] \in Int
  PROVE  /\ Opened(points, n)[0] = 0
         /\ \A k \in 1..n : Opened(points, n)[k] = Opened(points, n)[k - 1] + points[k][2]
<1> DEFINE step == [kv \in (1..n) \X Int |-> kv[2] + points[kv[1]][2]]
           Solves(g) == g = [k \in 0..n |-> IF k = 0 THEN 0 ELSE g[k - 1] + points[k][2]]
<1>1. step \in [(1..n) \X Int -> Int]
  OBVIOUS
<1>2. \E g : Solves(g)
  <2>1. PICK g : GoesOn(n, Int, 0, step, g)
    <3> DEFINE Z == Int
    <3>1. 0 \in Z /\ step \in [(1..n) \X Z -> Z]
      BY <1>1
    <3> HIDE DEF step, Z
    <3>2. \E g : GoesOn(n, Z, 0, step, g)
      BY <3>1, Recursion
    <3>3. QED
      BY <3>2 DEF Z
  <2>2. \A k \in 1..n : k - 1 \in 0..n /\ g[k] = g[k - 1] + points[k][2]
    <3>1. \A k \in 1..n : k - 1 \in 0..n /\ <<k, g[k - 1]>> \in (1..n) \X Int
      BY <2>1 DEF GoesOn
    <3>2. QED
      BY <2>1, <3>1 DEF GoesOn
  <2>3. \A k \in 0..n : g[k] = IF k = 0 THEN 0 ELSE g[k - 1] + points[k][2]
    BY <2>1, <2>2 DEF GoesOn
  <2>4. Solves(g)
    <3>1. g = [k \in 0..n |-> g[k]]
      BY <2>1 DEF GoesOn
    <3>2. QED
      BY <2>3, <3>1
  <2> HIDE DEF Solves
  <2>5. QED
    BY <2>4
<1>3. Opened(points, n) = CHOOSE g : Solves(g)
  BY DEF Opened
<1>4. Solves(Opened(points, n))
  BY <1>2, <1>3
<1>5. QED
  BY <1>4

(* Who has begun, and who has ended, after k points.                       *)
Begun(S, f, k) == {i \in S : \E j \in 1..k : f[j] = <<i, 1>>}
Ceased(S, f, k) == {i \in S : \E j \in 1..k : f[j] = <<i, -1>>}

(* The number of those at work is the number the sweep has.                *)
LEMMA SweepCounts ==
  ASSUME NEW timed \in Timings, NEW S \in SUBSET DOMAIN timed, NEW n \in Nat, NEW f,
         n = Cardinality(Points(S)), f = Sorted(Points(S), PointOrder(timed, S)),
         NEW k \in 0..n
  PROVE  /\ IsFiniteSet(Begun(S, f, k) \ Ceased(S, f, k))
         /\ Opened(f, n)[k] = Cardinality(Begun(S, f, k) \ Ceased(S, f, k))
<1> DEFINE open == Opened(f, n)
           B(m) == Begun(S, f, m)
           E(m) == Ceased(S, f, m)
<1>1. IsSorting(Points(S), PointOrder(timed, S), f)
  BY PointsSorted
<1>2. /\ f \in [1..n -> Points(S)]
      /\ \A p \in Points(S) : \E j \in 1..n : f[j] = p
      /\ \A i, j \in 1..n : i < j => <<f[i], f[j]>> \in PointOrder(timed, S)
  BY <1>1 DEF IsSorting
<1>3. \A j \in 1..n : \E i \in S : f[j] = <<i, 1>> \/ f[j] = <<i, -1>>
  BY <1>2, PointIs
<1>4. \A i, j \in 1..n : i # j => f[i] # f[j]
  <2>1. \A p \in Points(S) : <<p, p>> \notin PointOrder(timed, S)
    BY PointIs, InOrder
  <2>2. \A i, j \in 1..n : i < j => f[i] # f[j]
    BY <1>2, <2>1
  <2>3. QED
    BY <2>2
<1>5. open[0] = 0 /\ \A m \in 1..n : open[m] = open[m - 1] + f[m][2]
  <2>1. \A m \in 1..n : f[m][2] \in Int
    BY <1>3
  <2>2. QED
    BY <2>1, OpenedGoesOn
<1>6. \A m \in 0..n : IsFiniteSet(B(m)) /\ IsFiniteSet(E(m))
                     /\ Cardinality(B(m)) \in Nat /\ Cardinality(E(m)) \in Nat
  <2>1. \A m \in 0..n : B(m) \in SUBSET S /\ E(m) \in SUBSET S
    BY DEF Begun, Ceased
  <2> HIDE DEF B, E
  <2>2. QED
    BY <2>1, RowsFinite, FS_Subset, FS_CardinalityType
<1> DEFINE Holds == {m \in 0..n : open[m] = Cardinality(B(m)) - Cardinality(E(m))}
<1>7. 0 \in Holds
  <2>1. B(0) = {} /\ E(0) = {}
    BY DEF Begun, Ceased
  <2> HIDE DEF B, E, open
  <2>2. QED
    BY <1>5, <2>1, FS_EmptySet
<1>8. ASSUME NEW m \in 1..n, m - 1 \in Holds PROVE m \in Holds
  <2>1. m - 1 \in 0..n /\ m \in 0..n
    OBVIOUS
  <2>2. PICK i \in S : f[m] = <<i, 1>> \/ f[m] = <<i, -1>>
    BY <1>3
  <2>3. \A j : j \in 1..m <=> j \in 1..(m - 1) \/ j = m
    OBVIOUS
  <2>4. \A j \in 1..(m - 1) : j \in 1..n /\ f[j] # f[m]
    BY <1>4
  <2>5. CASE f[m] = <<i, 1>>
    <3>1. B(m) = B(m - 1) \cup {i} /\ i \notin B(m - 1)
      BY <2>3, <2>4, <2>5 DEF Begun
    <3>2. E(m) = E(m - 1)
      BY <2>3, <2>5 DEF Ceased
    <3>3. open[m] = open[m - 1] + 1
      BY <1>5, <2>5
    <3> HIDE DEF B, E, open
    <3>4. Cardinality(B(m)) = Cardinality(B(m - 1)) + 1
      BY <1>6, <2>1, <3>1, FS_AddElement
    <3>5. QED
      BY <1>6, <1>8, <2>1, <3>2, <3>3, <3>4
  <2>6. CASE f[m] = <<i, -1>>
    <3>1. E(m) = E(m - 1) \cup {i} /\ i \notin E(m - 1)
      BY <2>3, <2>4, <2>6 DEF Ceased
    <3>2. B(m) = B(m - 1)
      BY <2>3, <2>6 DEF Begun
    <3>3. open[m] = open[m - 1] - 1
      <4>1. open[m] = open[m - 1] + (-1)
        BY <1>5, <2>6
      <4> HIDE DEF open
      <4>2. QED
        BY <1>6, <1>8, <2>1, <4>1
    <3> HIDE DEF B, E, open
    <3>4. Cardinality(E(m)) = Cardinality(E(m - 1)) + 1
      BY <1>6, <2>1, <3>1, FS_AddElement
    <3>5. QED
      BY <1>6, <1>8, <2>1, <3>2, <3>3, <3>4
  <2>7. QED
    BY <2>2, <2>5, <2>6
<1>9. k \in Holds
  <2> HIDE DEF Holds
  <2>1. QED
    BY <1>7, <1>8, UpTo
<1>10. E(k) \subseteq B(k)
  <2>1. SUFFICES ASSUME NEW i \in E(k) PROVE i \in B(k)
    OBVIOUS
  <2>2. i \in S
    BY DEF Ceased
  <2>3. PICK j \in 1..k : f[j] = <<i, -1>>
    BY DEF Ceased
  <2>4. <<i, 1>> \in Points(S)
    BY <2>2 DEF Points
  <2>5. PICK l \in 1..n : f[l] = <<i, 1>>
    BY <1>2, <2>4
  <2>6. ~(<<<<i, -1>>, <<i, 1>>>> \in PointOrder(timed, S))
    <3>1. <<i, -1>> \in Points(S)
      BY <2>2 DEF Points
    <3>2. At(timed, <<i, 1>>) \in Nat /\ At(timed, <<i, -1>>) \in Nat
          /\ At(timed, <<i, 1>>) < At(timed, <<i, -1>>)
      BY <2>2, Clock
    <3>3. QED
      BY <2>4, <3>1, <3>2, InOrder
  <2>7. l <= j
    <3>1. SUFFICES ASSUME j < l PROVE <<f[j], f[l]>> \in PointOrder(timed, S)
      BY <2>3, <2>5, <2>6
    <3>2. j \in 1..n
      OBVIOUS
    <3>3. QED
      BY <1>2, <3>1, <3>2
  <2>8. QED
    BY <2>2, <2>3, <2>5, <2>7 DEF Begun
<1>11. /\ IsFiniteSet(B(k) \ E(k))
       /\ Cardinality(B(k) \ E(k)) = Cardinality(B(k)) - Cardinality(E(k))
  <2>1. B(k) \cap E(k) = E(k)
    BY <1>10
  <2> HIDE DEF B, E
  <2>2. QED
    BY <1>6, <2>1, FS_Difference
<1>12. QED
  BY <1>9, <1>11

(* While the k-th point is the latest, those at work are open at an        *)
(* instant: when it is, if it is a start, and just before it, if an end.   *)
LEMMA OpenBeside ==
  ASSUME NEW timed \in Timings, NEW S \in SUBSET DOMAIN timed, NEW f,
         f = Sorted(Points(S), PointOrder(timed, S)), NEW k \in 1..Cardinality(Points(S))
  PROVE  \E t \in Int : Begun(S, f, k) \ Ceased(S, f, k) \subseteq OpenAt(timed, S, t)
<1> DEFINE n == Cardinality(Points(S))
           t == IF f[k][2] = 1 THEN At(timed, f[k]) ELSE At(timed, f[k]) - 1
<1>1. n \in Nat /\ IsSorting(Points(S), PointOrder(timed, S), f)
  BY PointsSorted
<1>2. /\ f \in [1..n -> Points(S)]
      /\ \A p \in Points(S) : \E j \in 1..n : f[j] = p
      /\ \A i, j \in 1..n : i < j => <<f[i], f[j]>> \in PointOrder(timed, S)
  BY <1>1 DEF IsSorting
<1>3. /\ f[k] \in Points(S) /\ f[k][1] \in Nat /\ At(timed, f[k]) \in Nat
      /\ f[k][2] \in {1, -1}
  BY <1>2, PointIs
<1>4. t \in Int
  BY <1>3
<1>5. ASSUME NEW i \in Begun(S, f, k), i \notin Ceased(S, f, k) PROVE i \in OpenAt(timed, S, t)
  <2>1. i \in S /\ <<i, 1>> \in Points(S) /\ <<i, -1>> \in Points(S)
    BY DEF Begun, Points
  <2>2. /\ Started(timed, i) \in Nat /\ At(timed, <<i, -1>>) \in Nat
        /\ At(timed, <<i, 1>>) = Started(timed, i)
        /\ At(timed, <<i, -1>>) = Larger(Started(timed, i) + 1, Ended(timed, i))
    BY <2>1, Clock
  <2>3. PICK j \in 1..k : f[j] = <<i, 1>>
    BY DEF Begun
  <2>4. PICK l \in 1..n : f[l] = <<i, -1>>
    BY <1>2, <2>1
  <2>5. k < l
    <3>1. l \notin 1..k
      BY <1>5, <2>1, <2>4 DEF Ceased
    <3>2. QED
      BY <1>1, <3>1
  <2>6. j \in 1..n /\ k \in 1..n /\ (j = k \/ j < k)
    BY <1>1
  <2>7. j = k \/ <<<<i, 1>>, f[k]>> \in PointOrder(timed, S)
    BY <1>2, <2>3, <2>6
  <2>8. <<f[k], <<i, -1>>>> \in PointOrder(timed, S)
    BY <1>2, <2>4, <2>5, <2>6
  <2>9. <<i, 1>>[2] = 1 /\ <<i, -1>>[2] = -1
    OBVIOUS
  <2>10. \/ At(timed, f[k]) < At(timed, <<i, -1>>)
         \/ At(timed, f[k]) = At(timed, <<i, -1>>) /\ f[k][2] # 1
    BY <1>3, <2>1, <2>8, <2>9, InOrder
  <2>11. \/ At(timed, <<i, 1>>) < At(timed, f[k])
         \/ At(timed, <<i, 1>>) = At(timed, f[k]) /\ f[k][2] = 1
    <3>1. CASE j = k
      BY <2>3, <2>9, <3>1
    <3>2. CASE <<<<i, 1>>, f[k]>> \in PointOrder(timed, S)
      BY <1>3, <2>1, <2>9, <3>2, InOrder
    <3>3. QED
      BY <2>7, <3>1, <3>2
  <2>12. Started(timed, i) <= t /\ t < At(timed, <<i, -1>>)
    BY <1>3, <2>2, <2>10, <2>11
  <2>13. QED
    BY <2>1, <2>2, <2>12 DEF OpenAt
<1>6. QED
  BY <1>4, <1>5

(* Those open at an instant are at work after the last point that is not   *)
(* later.                                                                  *)
LEMMA OpenAtAPoint ==
  ASSUME NEW timed \in Timings, NEW S \in SUBSET DOMAIN timed, NEW f,
         f = Sorted(Points(S), PointOrder(timed, S)), NEW t \in Nat
  PROVE  \E k \in 0..Cardinality(Points(S)) :
           OpenAt(timed, S, t) \subseteq Begun(S, f, k) \ Ceased(S, f, k)
<1> DEFINE n == Cardinality(Points(S))
           T == {m \in 0..n : \A j \in 1..n : m < j => t < At(timed, f[j])}
<1>1. n \in Nat /\ IsSorting(Points(S), PointOrder(timed, S), f)
  BY PointsSorted
<1>2. /\ f \in [1..n -> Points(S)]
      /\ \A p \in Points(S) : \E j \in 1..n : f[j] = p
      /\ \A i, j \in 1..n : i < j => <<f[i], f[j]>> \in PointOrder(timed, S)
  BY <1>1 DEF IsSorting
<1>3. \A j \in 1..n : At(timed, f[j]) \in Nat
  BY <1>2, PointIs
<1>4. PICK k \in T : \A m \in T : k <= m
  <2>1. n \in T /\ T \in SUBSET Nat
    BY <1>1
  <2> HIDE DEF T
  <2>2. QED
    BY <2>1, LeastNat
<1>5. ASSUME NEW j \in 1..k PROVE j \in 1..n /\ At(timed, f[j]) <= t
  <2>1. k \in 1..n /\ j \in 1..n /\ k - 1 \in 0..n /\ ~(k <= k - 1)
    BY <1>1
  <2>2. k - 1 \notin T
    BY <1>4, <2>1
  <2>3. PICK l \in 1..n : k - 1 < l /\ ~(t < At(timed, f[l]))
    BY <2>1, <2>2
  <2>4. At(timed, f[l]) <= t /\ j <= l
    BY <1>1, <1>3, <2>1, <2>3
  <2>5. CASE j = l
    BY <2>1, <2>4, <2>5
  <2>6. CASE j < l
    <3>1. <<f[j], f[l]>> \in PointOrder(timed, S) /\ f[j] \in Points(S) /\ f[l] \in Points(S)
      BY <1>2, <2>1, <2>6
    <3>2. At(timed, f[j]) <= At(timed, f[l])
      <4>1. At(timed, f[j]) < At(timed, f[l]) \/ At(timed, f[j]) = At(timed, f[l])
        BY <3>1, InOrder
      <4>2. QED
        BY <1>3, <2>1, <4>1
    <3>3. QED
      BY <1>3, <2>1, <2>4, <3>2
  <2>7. QED
    BY <1>1, <2>1, <2>4, <2>5, <2>6
<1>6. ASSUME NEW i \in OpenAt(timed, S, t) PROVE i \in Begun(S, f, k) /\ i \notin Ceased(S, f, k)
  <2>1. i \in S /\ <<i, 1>> \in Points(S) /\ <<i, -1>> \in Points(S)
    BY DEF OpenAt, Points
  <2>2. At(timed, <<i, 1>>) <= t /\ t < At(timed, <<i, -1>>) /\ At(timed, <<i, -1>>) \in Nat
    BY <2>1, Clock DEF OpenAt
  <2>3. PICK j \in 1..n : f[j] = <<i, 1>>
    BY <1>2, <2>1
  <2>4. j \in 1..k
    <3>1. ~(k < j)
      <4>1. k < j => t < At(timed, f[j])
        OBVIOUS
      <4>2. QED
        BY <1>3, <2>2, <2>3, <4>1
    <3>2. QED
      BY <1>1, <3>1
  <2>5. i \in Begun(S, f, k)
    BY <2>1, <2>3, <2>4 DEF Begun
  <2>6. ASSUME NEW l \in 1..k PROVE f[l] # <<i, -1>>
    <3>1. At(timed, f[l]) <= t
      BY <1>5
    <3>2. QED
      BY <2>2, <3>1
  <2>7. QED
    BY <2>5, <2>6 DEF Ceased
<1>7. QED
  BY <1>6

(* The sweep finds the most that are open at one instant.                  *)
LEMMA SweepIsWidest ==
  ASSUME NEW timed \in Timings, NEW S \in SUBSET DOMAIN timed
  PROVE  IsWidest(timed, S, MaxOverlap(timed, S))
<1> DEFINE n == Cardinality(Points(S))
           f == Sorted(Points(S), PointOrder(timed, S))
           open == Opened(f, n)
           Live(k) == Begun(S, f, k) \ Ceased(S, f, k)
<1>1. n \in Nat
  BY PointsSorted
<1>2. ASSUME NEW k \in 0..n
      PROVE  IsFiniteSet(Live(k)) /\ open[k] = Cardinality(Live(k)) /\ open[k] \in Nat
  <2>1. IsFiniteSet(Live(k)) /\ open[k] = Cardinality(Live(k))
    BY <1>1, SweepCounts
  <2> HIDE DEF Live, open
  <2>2. QED
    BY <2>1, FS_CardinalityType
<1>3. Live(0) = {}
  BY DEF Begun
<1>4. \A t \in Int : IsFiniteSet(OpenAt(timed, S, t)) /\ Cardinality(OpenAt(timed, S, t)) \in Nat
  <2>1. \A t \in Int : OpenAt(timed, S, t) \in SUBSET S
    BY DEF OpenAt
  <2>2. QED
    BY <2>1, RowsFinite, FS_Subset, FS_CardinalityType
<1>5. \A t \in Nat : \E k \in 0..n : OpenAt(timed, S, t) \subseteq Live(k)
  BY OpenAtAPoint
<1>6. \A k \in 1..n : \E t \in Int : Live(k) \subseteq OpenAt(timed, S, t)
  BY OpenBeside
<1>7. Instants(timed) \in SUBSET Nat
  <2>1. SUFFICES ASSUME NEW t \in Instants(timed) PROVE t \in Nat
    OBVIOUS
  <2>2. PICK i \in DOMAIN timed : t \in Started(timed, i)..Until(timed, i)
    BY DEF Instants
  <2>3. Started(timed, i) \in Nat /\ Until(timed, i) \in Nat
    BY Clock
  <2>4. QED
    BY <2>2, <2>3
<1>8. MaxOverlap(timed, S) = Largest({open[k] : k \in 0..n})
  BY DEF MaxOverlap
<1> HIDE DEF n, f, open, Live
<1>9. PICK top \in 0..n : \A j \in 0..n : open[j] <= open[top]
  <2>1. \A k \in 0..n : open[k] \in Int
    BY <1>2
  <2>2. QED
    BY <1>1, <2>1, HasLargest
<1>10. MaxOverlap(timed, S) = open[top]
  <2> DEFINE T == {open[k] : k \in 0..n}
  <2>1. T \in SUBSET Int /\ open[top] \in T /\ \A y \in T : y <= open[top]
    BY <1>2, <1>9
  <2> HIDE DEF T
  <2>2. Largest(T) = open[top]
    BY <2>1, LargestIs
  <2>3. QED
    BY <1>8, <2>2 DEF T
<1>11. ASSUME NEW t \in Nat PROVE Cardinality(OpenAt(timed, S, t)) <= open[top]
  <2>1. PICK k \in 0..n : OpenAt(timed, S, t) \subseteq Live(k)
    BY <1>5
  <2>2. Cardinality(OpenAt(timed, S, t)) <= open[k]
    BY <1>2, <2>1, FS_Subset
  <2>3. QED
    BY <1>2, <1>4, <1>9, <2>2
<1>12. ASSUME open[top] # 0
       PROVE  \E t \in Instants(timed) : Cardinality(OpenAt(timed, S, t)) = open[top]
  <2>1. top \in 1..n
    <3>1. open[0] = 0
      BY <1>1, <1>2, <1>3, FS_EmptySet
    <3>2. QED
      BY <1>12, <3>1
  <2>2. PICK t \in Int : Live(top) \subseteq OpenAt(timed, S, t)
    BY <1>6, <2>1
  <2>3. open[top] <= Cardinality(OpenAt(timed, S, t))
    BY <1>2, <1>4, <2>2, FS_Subset
  <2>4. OpenAt(timed, S, t) # {}
    <3>1. Live(top) # {}
      BY <1>2, <1>12, FS_EmptySet
    <3>2. QED
      BY <2>2, <3>1
  <2>5. t \in Instants(timed)
    <3>1. PICK i \in S : Started(timed, i) <= t /\ t < Larger(Started(timed, i) + 1, Ended(timed, i))
      BY <2>4 DEF OpenAt
    <3>2. i \in DOMAIN timed /\ Started(timed, i) \in Nat /\ Ended(timed, i) \in Nat
      BY Clock
    <3>3. t \in Started(timed, i)..Until(timed, i)
      BY <3>1, <3>2 DEF Until, Larger
    <3>4. QED
      BY <3>2, <3>3 DEF Instants
  <2>6. Cardinality(OpenAt(timed, S, t)) <= open[top]
    BY <1>7, <1>11, <2>5
  <2>7. QED
    BY <1>2, <1>4, <2>3, <2>5, <2>6
<1>13. QED
  BY <1>7, <1>10, <1>11, <1>12 DEF IsWidest

(***************************************************************************)
(* The sweep over spans.                                                   *)
(***************************************************************************)
LEMMA SpansSorted ==
  ASSUME NEW timed \in Timings, NEW S \in SUBSET DOMAIN timed
  PROVE  /\ Cardinality(S) \in Nat
         /\ IsSorting(S, SpanOrder(timed, S), Sorted(S, SpanOrder(timed, S)))
<1>1. \A i \in S : i \in Nat /\ Started(timed, i) \in Nat /\ Until(timed, i) \in Nat
  BY Clock, RowsFinite
<1>2. \A i, j \in S :
        <<i, j>> \in SpanOrder(timed, S) <=>
          \/ Started(timed, i) < Started(timed, j)
          \/ /\ Started(timed, i) = Started(timed, j)
             /\ \/ Until(timed, i) < Until(timed, j)
                \/ Until(timed, i) = Until(timed, j) /\ i < j
  BY DEF SpanOrder
<1>3. \A i \in S : <<i, i>> \notin SpanOrder(timed, S)
  BY <1>1, <1>2
<1>4. \A i, j, l \in S :
        <<i, j>> \in SpanOrder(timed, S) /\ <<j, l>> \in SpanOrder(timed, S)
          => <<i, l>> \in SpanOrder(timed, S)
  BY <1>1, <1>2
<1>5. \A i, j \in S :
        i = j \/ <<i, j>> \in SpanOrder(timed, S) \/ <<j, i>> \in SpanOrder(timed, S)
  <2>1. ASSUME NEW i \in S, NEW j \in S, ~(<<i, j>> \in SpanOrder(timed, S)),
               ~(<<j, i>> \in SpanOrder(timed, S))
        PROVE  i = j
    <3>1. /\ i \in Nat /\ Started(timed, i) \in Nat /\ Until(timed, i) \in Nat
          /\ j \in Nat /\ Started(timed, j) \in Nat /\ Until(timed, j) \in Nat
      BY <1>1
    <3>2. Started(timed, i) = Started(timed, j)
      BY <1>2, <2>1, <3>1
    <3>3. Until(timed, i) = Until(timed, j)
      BY <1>2, <2>1, <3>1, <3>2
    <3>4. QED
      BY <1>2, <2>1, <3>1, <3>2, <3>3
  <2>2. QED
    BY <2>1
<1>6. IsOrder(S, SpanOrder(timed, S))
  BY <1>3, <1>4, <1>5 DEF IsOrder
<1>7. QED
  BY <1>6, RowsFinite, SortedSorts, FS_CardinalityType

Sweeping == [total : Int, start : Int, end : Int]

(* The sweep goes on span by span.                                         *)
LEMMA SweptGoesOn ==
  ASSUME NEW n \in Nat, NEW timed, NEW f,
         \A k \in 1..n : Started(timed, f[k]) \in Int /\ Until(timed, f[k]) \in Int
  PROVE  /\ Swept(timed, f, n)[0] = Unswept
         /\ \A k \in 1..n :
              Swept(timed, f, n)[k] =
                Joined(Swept(timed, f, n)[k - 1], Started(timed, f[k]), Until(timed, f[k]))
<1> DEFINE Next(k, w) == Joined(w, Started(timed, f[k]), Until(timed, f[k]))
           step == [kw \in (1..n) \X Sweeping |-> Next(kw[1], kw[2])]
           Solves(g) == g = [k \in 0..n |-> IF k = 0 THEN Unswept ELSE Next(k, g[k - 1])]
<1>1. step \in [(1..n) \X Sweeping -> Sweeping]
  <2>1. ASSUME NEW k \in 1..n, NEW w \in Sweeping PROVE Next(k, w) \in Sweeping
    BY DEF Sweeping, Joined, Larger
  <2> HIDE DEF Next
  <2>2. QED
    BY <2>1
<1>2. Unswept \in Sweeping
  BY DEF Unswept, Sweeping
<1>3. \E g : Solves(g)
  <2>1. PICK g : GoesOn(n, Sweeping, Unswept, step, g)
    <3> HIDE DEF step
    <3>1. QED
      BY <1>1, <1>2, Recursion
  <2>2. ASSUME NEW k \in 1..n PROVE k - 1 \in 0..n /\ g[k] = Next(k, g[k - 1])
    <3>1. k - 1 \in 0..n /\ g[k - 1] \in Sweeping
      BY <2>1 DEF GoesOn
    <3>2. step[<<k, g[k - 1]>>] = Next(k, g[k - 1])
      <4> HIDE DEF Next
      <4>1. QED
        BY <3>1
    <3>3. g[k] = step[<<k, g[k - 1]>>]
      BY <2>1 DEF GoesOn
    <3>4. QED
      BY <3>1, <3>2, <3>3
  <2> HIDE DEF Next
  <2>3. \A k \in 0..n : g[k] = IF k = 0 THEN Unswept ELSE Next(k, g[k - 1])
    BY <2>1, <2>2 DEF GoesOn
  <2>4. Solves(g)
    <3>1. g = [k \in 0..n |-> g[k]]
      BY <2>1 DEF GoesOn
    <3>2. QED
      BY <2>3, <3>1
  <2> HIDE DEF Solves
  <2>5. QED
    BY <2>4
<1>4. Swept(timed, f, n) = CHOOSE g : Solves(g)
  BY DEF Swept
<1>5. Solves(Swept(timed, f, n))
  BY <1>3, <1>4
<1> HIDE DEF Next
<1>6. /\ Swept(timed, f, n)[0] = Unswept
      /\ \A k \in 1..n : Swept(timed, f, n)[k] = Next(k, Swept(timed, f, n)[k - 1])
  BY <1>5
<1>7. QED
  BY <1>6 DEF Next

(* A span that touches nothing adds its length.                            *)
LEMMA AddsLength ==
  ASSUME NEW C, IsFiniteSet(C), NEW a \in Nat, NEW b \in Nat, a <= b,
         \A t \in C : t \notin a..(b - 1)
  PROVE  /\ IsFiniteSet(C \cup a..(b - 1))
         /\ Cardinality(C \cup a..(b - 1)) = Cardinality(C) + (b - a)
<1>1. IsFiniteSet(a..(b - 1)) /\ Cardinality(a..(b - 1)) = b - a
  <2>1. CASE a = b
    <3>1. a > b - 1 /\ b - 1 \in Int /\ b - a = 0
      BY <2>1
    <3>2. QED
      BY <3>1, FS_Interval
  <2>2. CASE a < b
    <3>1. ~(a > b - 1) /\ b - 1 \in Int /\ (b - 1) - a + 1 = b - a
      BY <2>2
    <3>2. QED
      BY <3>1, FS_Interval
  <2>3. QED
    BY <2>1, <2>2
<1>2. C \cap a..(b - 1) = {}
  OBVIOUS
<1>3. QED
  <2> DEFINE D == a..(b - 1)
  <2>1. IsFiniteSet(D) /\ Cardinality(D) = b - a /\ C \cap D = {}
    BY <1>1, <1>2
  <2> HIDE DEF D
  <2>2. IsFiniteSet(C \cup D) /\ Cardinality(C \cup D) = Cardinality(C) + (b - a) - 0
    BY <2>1, FS_Union, FS_EmptySet
  <2>3. Cardinality(C) \in Nat
    BY FS_CardinalityType
  <2>4. Cardinality(C \cup D) = Cardinality(C) + (b - a)
    BY <2>2, <2>3
  <2>5. QED
    BY <2>2, <2>4 DEF D

(* What the first k spans cover.                                           *)
Covered(timed, f, k) ==
  {t \in Nat : \E j \in 1..k : Started(timed, f[j]) <= t /\ t < Until(timed, f[j])}

(* The sweep has the length of what is covered: the total, and the stretch *)
(* it is on, that what is covered does not reach beyond.                   *)
Measures(timed, f, k, w) ==
  /\ w.total \in Nat /\ w.start \in Nat /\ w.end \in Nat /\ w.start <= w.end
  /\ k = 0 \/ w.start <= Started(timed, f[k])
  /\ k = 0 => w.start = 0
  /\ IsFiniteSet(Covered(timed, f, k))
  /\ Cardinality(Covered(timed, f, k)) = w.total + (w.end - w.start)
  /\ \A t \in Covered(timed, f, k) : t < w.end
  /\ \A t \in Nat : w.start <= t /\ t < w.end => t \in Covered(timed, f, k)

(* So it goes on when a span is joined that begins no earlier.             *)
LEMMA JoinMeasures ==
  ASSUME NEW timed, NEW f, NEW k \in Nat \ {0}, NEW w, Measures(timed, f, k - 1, w),
         Started(timed, f[k]) \in Nat, Until(timed, f[k]) \in Nat,
         Started(timed, f[k]) <= Until(timed, f[k]),
         k - 1 # 0 => /\ Started(timed, f[k - 1]) \in Nat
                      /\ Started(timed, f[k - 1]) <= Started(timed, f[k])
  PROVE  Measures(timed, f, k, Joined(w, Started(timed, f[k]), Until(timed, f[k])))
<1> DEFINE s == Started(timed, f[k])
           e == Until(timed, f[k])
           C == Covered(timed, f, k - 1)
           v == Joined(w, s, e)
<1>1. Covered(timed, f, k) = C \cup s..(e - 1)
  <2>1. \A j : j \in 1..k <=> j \in 1..(k - 1) \/ j = k
    OBVIOUS
  <2>2. \A t \in Nat : t \in s..(e - 1) <=> s <= t /\ t < e
    OBVIOUS
  <2>3. s..(e - 1) \subseteq Nat
    OBVIOUS
  <2>4. QED
    BY <2>1, <2>2, <2>3 DEF Covered
<1>2. /\ w.total \in Nat /\ w.start \in Nat /\ w.end \in Nat /\ w.start <= w.end
      /\ IsFiniteSet(C) /\ Cardinality(C) = w.total + (w.end - w.start)
      /\ \A t \in C : t \in Nat /\ t < w.end
      /\ \A t \in Nat : w.start <= t /\ t < w.end => t \in C
  BY DEF Measures, Covered
<1>3. w.start <= s
  BY DEF Measures
<1>4. s \in Nat /\ e \in Nat /\ s <= e
  OBVIOUS
<1>5. CASE s <= w.end
  <2>1. /\ v.total = w.total /\ v.start = w.start
        /\ v.end = Larger(w.end, e)
    BY <1>5 DEF Joined
  <2> DEFINE b == Larger(w.end, e)
  <2>2. b \in Nat /\ w.end <= b /\ e <= b /\ (b = w.end \/ b = e)
    BY <1>2, <1>4 DEF Larger
  <2> HIDE DEF v, s, e, C, b
  <2>3. C \cup s..(e - 1) = C \cup w.end..(b - 1)
    <3>1. ASSUME NEW t \in s..(e - 1) PROVE t \in C \cup w.end..(b - 1)
      BY <1>2, <1>3, <1>4, <2>2
    <3>2. ASSUME NEW t \in w.end..(b - 1) PROVE t \in s..(e - 1)
      BY <1>2, <1>4, <1>5, <2>2
    <3>3. QED
      BY <3>1, <3>2
  <2>4. /\ IsFiniteSet(C \cup w.end..(b - 1))
        /\ Cardinality(C \cup w.end..(b - 1)) = Cardinality(C) + (b - w.end)
    <3>1. \A t \in C : t \notin w.end..(b - 1)
      BY <1>2, <2>2
    <3>2. QED
      BY <1>2, <2>2, <3>1, AddsLength
  <2>5. /\ \A t \in C \cup w.end..(b - 1) : t < b
        /\ \A t \in Nat : w.start <= t /\ t < b => t \in C \cup w.end..(b - 1)
    BY <1>2, <2>2
  <2>6. v.end = b
    BY <2>1 DEF b
  <2>7. Covered(timed, f, k) = C \cup w.end..(b - 1)
    BY <1>1, <2>3 DEF s, e
  <2> DEFINE K == Covered(timed, f, k)
  <2>8. /\ IsFiniteSet(K) /\ Cardinality(K) = v.total + (v.end - v.start)
        /\ \A t \in K : t < v.end
        /\ \A t \in Nat : v.start <= t /\ t < v.end => t \in K
    <3>1. K = C \cup w.end..(b - 1)
      BY <2>7
    <3> HIDE DEF K
    <3>2. QED
      BY <1>2, <2>1, <2>2, <2>4, <2>5, <2>6, <3>1
  <2>9. /\ v.total \in Nat /\ v.start \in Nat /\ v.end \in Nat /\ v.start <= v.end
        /\ k # 0 /\ v.start <= s
    BY <1>2, <1>3, <2>1, <2>2, <2>6
  <2>10. QED
    BY <2>8, <2>9 DEF Measures, v, s, e
<1>6. CASE ~(s <= w.end)
  <2>1. v.total = w.total + (w.end - w.start) /\ v.start = s /\ v.end = e
    BY <1>6 DEF Joined
  <2> HIDE DEF v, s, e, C
  <2>2. /\ IsFiniteSet(C \cup s..(e - 1))
        /\ Cardinality(C \cup s..(e - 1)) = Cardinality(C) + (e - s)
    <3>1. \A t \in C : t \notin s..(e - 1)
      BY <1>2, <1>4, <1>6
    <3>2. QED
      BY <1>2, <1>4, <3>1, AddsLength
  <2>3. /\ \A t \in C \cup s..(e - 1) : t < e
        /\ \A t \in Nat : s <= t /\ t < e => t \in C \cup s..(e - 1)
    BY <1>2, <1>4, <1>6
  <2>4. v.total \in Nat
    BY <1>2, <2>1
  <2> DEFINE K == Covered(timed, f, k)
  <2>5. /\ IsFiniteSet(K) /\ Cardinality(K) = v.total + (v.end - v.start)
        /\ \A t \in K : t < v.end
        /\ \A t \in Nat : v.start <= t /\ t < v.end => t \in K
    <3>1. K = C \cup s..(e - 1)
      BY <1>1 DEF s, e
    <3> HIDE DEF K
    <3>2. QED
      BY <1>2, <2>1, <2>2, <2>3, <3>1
  <2>6. v.start \in Nat /\ v.end \in Nat /\ v.start <= v.end /\ k # 0 /\ v.start <= s
    BY <1>4, <2>1
  <2>7. QED
    BY <2>4, <2>5, <2>6 DEF Measures, v, s, e
<1>7. QED
  BY <1>5, <1>6

(* The sweep covers every instant of a span, each once.                    *)
Under(timed, S) == {t \in Nat : \E i \in S : Started(timed, i) <= t /\ t < Ended(timed, i)}

LEMMA SweepMeasures ==
  ASSUME NEW timed \in Timings, NEW S \in SUBSET DOMAIN timed
  PROVE  IsFiniteSet(Under(timed, S)) /\ UnionLength(timed, S) = Cardinality(Under(timed, S))
<1> DEFINE n == Cardinality(S)
           f == Sorted(S, SpanOrder(timed, S))
           w == Swept(timed, f, n)
<1>1. n \in Nat /\ IsSorting(S, SpanOrder(timed, S), f)
  BY SpansSorted
<1>2. UnionLength(timed, S) = w[n].total + (w[n].end - w[n].start)
  BY DEF UnionLength
<1> HIDE DEF n, f
<1>3. /\ f \in [1..n -> S] /\ \A i \in S : \E k \in 1..n : f[k] = i
      /\ \A j, k \in 1..n : j < k => <<f[j], f[k]>> \in SpanOrder(timed, S)
  BY <1>1 DEF IsSorting, n
<1>4. \A k \in 1..n : /\ Started(timed, f[k]) \in Nat /\ Until(timed, f[k]) \in Nat
                      /\ Started(timed, f[k]) <= Until(timed, f[k])
  BY <1>3, Clock
<1>5. w[0] = Unswept
      /\ \A k \in 1..n : w[k] = Joined(w[k - 1], Started(timed, f[k]), Until(timed, f[k]))
  <2>1. \A k \in 1..n : Started(timed, f[k]) \in Int /\ Until(timed, f[k]) \in Int
    BY <1>4
  <2>2. QED
    BY <1>1, <2>1, SweptGoesOn
<1> HIDE DEF w
<1> DEFINE Holds == {k \in 0..n : Measures(timed, f, k, w[k])}
<1>6. 0 \in Holds
  <2>1. Covered(timed, f, 0) = {}
    BY DEF Covered
  <2>2. w[0].total = 0 /\ w[0].start = 0 /\ w[0].end = 0
    BY <1>5 DEF Unswept
  <2>3. IsFiniteSet(Covered(timed, f, 0)) /\ Cardinality(Covered(timed, f, 0)) = 0
    BY <2>1, FS_EmptySet
  <2>4. Measures(timed, f, 0, w[0])
    BY <2>1, <2>2, <2>3 DEF Measures
  <2>5. QED
    BY <1>1, <2>4
<1>7. ASSUME NEW k \in 1..n, k - 1 \in Holds PROVE k \in Holds
  <2>1. k - 1 # 0 => /\ Started(timed, f[k - 1]) \in Nat
                     /\ Started(timed, f[k - 1]) <= Started(timed, f[k])
    <3>1. SUFFICES ASSUME k - 1 # 0
                   PROVE  /\ Started(timed, f[k - 1]) \in Nat
                          /\ Started(timed, f[k - 1]) <= Started(timed, f[k])
      OBVIOUS
    <3>2. k - 1 \in 1..n /\ k - 1 < k
      BY <1>1, <3>1
    <3>3. <<f[k - 1], f[k]>> \in SpanOrder(timed, S)
      BY <1>3, <3>2
    <3>4. Started(timed, f[k - 1]) < Started(timed, f[k])
          \/ Started(timed, f[k - 1]) = Started(timed, f[k])
      BY <3>3 DEF SpanOrder
    <3>5. QED
      BY <1>4, <3>2, <3>4
  <2>2. k \in Nat \ {0} /\ k \in 0..n /\ Measures(timed, f, k - 1, w[k - 1])
    BY <1>7
  <2>3. Measures(timed, f, k, Joined(w[k - 1], Started(timed, f[k]), Until(timed, f[k])))
    BY <1>4, <2>1, <2>2, JoinMeasures
  <2>4. QED
    BY <1>5, <2>2, <2>3
<1>8. Measures(timed, f, n, w[n])
  <2>1. n \in Holds
    <3> HIDE DEF Holds
    <3>1. QED
      BY <1>1, <1>6, <1>7, UpTo
  <2>2. QED
    BY <2>1
<1>9. Covered(timed, f, n) = Under(timed, S)
  <2>1. \A i \in S, t \in Nat :
          Started(timed, i) <= t /\ t < Until(timed, i)
            <=> Started(timed, i) <= t /\ t < Ended(timed, i)
    <3>1. \A i \in S : Started(timed, i) \in Nat /\ Ended(timed, i) \in Nat
      BY Clock
    <3>2. QED
      BY <3>1 DEF Until, Larger
  <2>2. QED
    BY <1>3, <2>1 DEF Covered, Under
<1>10. QED
  BY <1>2, <1>8, <1>9 DEF Measures

(***************************************************************************)
(* The figures.                                                            *)
(***************************************************************************)
(* Nobody is busy before the first row begins, or after the last one ends. *)
LEMMA BusyWithinTheRun ==
  ASSUME NEW timed \in Timings, NEW S \in SUBSET DOMAIN timed
  PROVE  Cardinality(Under(timed, S)) <= RunUs(timed)
<1> DEFINE Starts == {Started(timed, i) : i \in DOMAIN timed}
           Ends == {Ended(timed, i) : i \in DOMAIN timed}
           n == Len(timed)
<1>1. n \in Nat /\ DOMAIN timed = 1..n
  BY LedgerAssumption DEF LedgerAssumption
<1>2. \A i \in DOMAIN timed : Started(timed, i) \in Nat /\ Ended(timed, i) \in Nat
  BY Clock
<1>3. CASE DOMAIN timed = {}
  <2>1. Under(timed, S) = {} /\ RunUs(timed) = 0
    BY <1>3 DEF Under, RunUs
  <2>2. QED
    BY <2>1, FS_EmptySet
<1>4. CASE DOMAIN timed # {}
  <2>1. n \in Nat \ {0}
    BY <1>1, <1>4
  <2> DEFINE first == CHOOSE s \in Starts : \A x \in Starts : s <= x
  <2>2. first \in Nat /\ \A i \in DOMAIN timed : first <= Started(timed, i)
    <3>1. Starts \in SUBSET Nat /\ Starts # {}
      BY <1>2, <1>4
    <3>2. \E s \in Starts : \A x \in Starts : s <= x
      <4> HIDE DEF Starts
      <4>1. QED
        BY <3>1, LeastNat
    <3>3. first \in Starts /\ \A x \in Starts : first <= x
      <4> HIDE DEF Starts
      <4>1. QED
        BY <3>2
    <3> HIDE DEF first
    <3>4. QED
      BY <3>1, <3>3
  <2>3. Largest(Ends) \in Nat /\ \A i \in DOMAIN timed : Ended(timed, i) <= Largest(Ends)
    <3> DEFINE g == [k \in 0..(n - 1) |-> Ended(timed, k + 1)]
    <3>1. \A k \in 0..(n - 1) : k + 1 \in DOMAIN timed /\ g[k] = Ended(timed, k + 1)
      BY <1>1
    <3>2. \A i \in DOMAIN timed : i - 1 \in 0..(n - 1) /\ g[i - 1] = Ended(timed, i)
      BY <1>1
    <3> HIDE DEF g
    <3>3. n - 1 \in Nat /\ \A k \in 0..(n - 1) : g[k] \in Int
      BY <1>2, <2>1, <3>1
    <3>4. PICK k \in 0..(n - 1) : \A j \in 0..(n - 1) : g[j] <= g[k]
      <4> HIDE DEF n
      <4>1. QED
        BY <3>3, HasLargest
    <3>5. /\ Ends \in SUBSET Int /\ Ended(timed, k + 1) \in Ends
          /\ \A x \in Ends : x <= Ended(timed, k + 1)
      <4>1. \A i \in DOMAIN timed : Ended(timed, i) <= Ended(timed, k + 1)
        BY <3>1, <3>2, <3>4
      <4>2. k + 1 \in DOMAIN timed
        BY <3>1
      <4>3. QED
        BY <1>2, <4>1, <4>2
    <3>6. Largest(Ends) = Ended(timed, k + 1)
      <4> HIDE DEF Ends
      <4>1. QED
        BY <3>5, LargestIs
    <3>7. \A i \in DOMAIN timed : Ended(timed, i) \in Ends
      OBVIOUS
    <3> HIDE DEF Ends
    <3>8. QED
      BY <1>2, <3>1, <3>5, <3>6, <3>7
  <2>4. RunUs(timed) = Larger(0, Largest(Ends) - first)
    BY <1>4 DEF RunUs
  <2> HIDE DEF first, Ends
  <2>5. Under(timed, S) \in SUBSET (first..(Largest(Ends) - 1))
    <3>1. SUFFICES ASSUME NEW t \in Under(timed, S) PROVE t \in first..(Largest(Ends) - 1)
      OBVIOUS
    <3>2. t \in Nat
      BY DEF Under
    <3>3. PICK i \in S : Started(timed, i) <= t /\ t < Ended(timed, i)
      BY DEF Under
    <3>4. QED
      BY <1>2, <2>2, <2>3, <3>2, <3>3
  <2> DEFINE last == Largest(Ends) - 1
  <2>6. /\ IsFiniteSet(first..last)
        /\ Cardinality(first..last) = IF first > last THEN 0 ELSE last - first + 1
    <3>1. first \in Int /\ last \in Int
      BY <2>2, <2>3
    <3> HIDE DEF last
    <3>2. QED
      BY <3>1, FS_Interval
  <2>7. Cardinality(Under(timed, S)) <= Cardinality(first..last)
    BY <2>5, <2>6, FS_Subset
  <2>8. Cardinality(Under(timed, S)) \in Nat
    BY <2>5, <2>6, FS_Subset, FS_CardinalityType
  <2>9. QED
    BY <2>2, <2>3, <2>4, <2>6, <2>7, <2>8 DEF Larger
<1>5. QED
  BY <1>3, <1>4

(* A receipt's figures are right, for any timed rows: what the sweeps over *)
(* sorted points and spans (ledger.rs, max_overlap and union_length) come  *)
(* to is what counting instant by instant would.                           *)
THEOREM FiguresAlwaysHold == FiguresHold
<1>1. SUFFICES ASSUME NEW timed \in Timings
               PROVE  /\ IsWidest(timed, Calls(timed), MaxParallel(timed))
                      /\ \A s \in DOMAIN MaxParallelBySurface(timed) :
                           IsWidest(timed, {i \in Calls(timed) : timed[i][1] = s},
                                    MaxParallelBySurface(timed)[s])
                      /\ BusyUs(timed) = Cardinality({t \in Instants(timed) : BusyAt(timed, t)})
                      /\ BusyUs(timed) <= RunUs(timed)
  BY DEF FiguresHold
<1>2. Calls(timed) \in SUBSET DOMAIN timed
  BY DEF Calls
<1>3. IsWidest(timed, Calls(timed), MaxParallel(timed))
  BY <1>2, SweepIsWidest DEF MaxParallel
<1>4. ASSUME NEW s \in DOMAIN MaxParallelBySurface(timed)
      PROVE  IsWidest(timed, {i \in Calls(timed) : timed[i][1] = s},
                      MaxParallelBySurface(timed)[s])
  <2>1. s # "event" /\ MaxParallelBySurface(timed)[s] = MaxOverlap(timed, OnSurface(timed, s))
    BY DEF MaxParallelBySurface, Calls
  <2>2. {i \in Calls(timed) : timed[i][1] = s} = OnSurface(timed, s)
    BY <2>1 DEF Calls, OnSurface
  <2>3. OnSurface(timed, s) \in SUBSET DOMAIN timed
    BY DEF OnSurface
  <2>4. QED
    BY <2>1, <2>2, <2>3, SweepIsWidest
<1>5. BusyUs(timed) = Cardinality(Under(timed, Calls(timed)))
  BY <1>2, SweepMeasures DEF BusyUs
<1>6. Under(timed, Calls(timed)) = {t \in Instants(timed) : BusyAt(timed, t)}
  <2>1. ASSUME NEW t \in Under(timed, Calls(timed)) PROVE t \in Instants(timed) /\ BusyAt(timed, t)
    <3>1. PICK i \in Calls(timed) : Started(timed, i) <= t /\ t < Ended(timed, i)
      BY DEF Under
    <3>2. i \in DOMAIN timed /\ Started(timed, i) \in Nat /\ Ended(timed, i) \in Nat /\ t \in Nat
      BY <1>2, Clock DEF Under
    <3>3. t \in Started(timed, i)..Until(timed, i)
      BY <3>1, <3>2 DEF Until, Larger
    <3>4. QED
      BY <3>1, <3>2, <3>3 DEF Instants, BusyAt
  <2>2. ASSUME NEW t \in Instants(timed), BusyAt(timed, t) PROVE t \in Under(timed, Calls(timed))
    <3>1. PICK i \in DOMAIN timed : t \in Started(timed, i)..Until(timed, i)
      BY DEF Instants
    <3>2. Started(timed, i) \in Nat /\ Until(timed, i) \in Nat
      BY Clock
    <3>3. t \in Nat
      BY <3>1, <3>2
    <3>4. QED
      BY <2>2, <3>3 DEF BusyAt, Under
  <2>3. QED
    BY <2>1, <2>2
<1>7. BusyUs(timed) <= RunUs(timed)
  BY <1>2, <1>5, BusyWithinTheRun
<1>8. QED
  BY <1>3, <1>4, <1>5, <1>6, <1>7
=============================================================================
