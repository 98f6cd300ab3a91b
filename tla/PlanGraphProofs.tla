-------------------------- MODULE PlanGraphProofs --------------------------
(***************************************************************************)
(* Footprints order whatever conflicts, and the reduction keeps that       *)
(* order, for any number of nodes: theorems about PlanGraph.               *)
(***************************************************************************)
EXTENDS PlanGraph, FiniteSetTheorems, WellFoundedInduction, TLAPS

LEMMA ConflictsCommute ==
  ASSUME NEW xs, NEW ys, AnyConflict(xs, ys)
  PROVE  AnyConflict(ys, xs)
  BY DEF AnyConflict, Conflicts

(* Two nodes, i before j in the plan, get exactly one edge when they touch *)
(* the same data, the one SecondFirst says.                                *)
LEMMA OneEdge ==
  ASSUME NEW nodes, NEW n \in Nat, DOMAIN nodes = 1..n,
         NEW i \in 1..n, NEW j \in 1..n, i < j, Touching(nodes[i], nodes[j])
  PROVE  /\ SecondFirst(nodes[i], nodes[j])
              => <<j, i>> \in FootprintEdges(nodes) /\ <<i, j>> \notin FootprintEdges(nodes)
         /\ ~SecondFirst(nodes[i], nodes[j])
              => <<i, j>> \in FootprintEdges(nodes) /\ <<j, i>> \notin FootprintEdges(nodes)
<1> DEFINE Pairs == {p \in (DOMAIN nodes) \X (DOMAIN nodes) :
                       p[1] < p[2] /\ Touching(nodes[p[1]], nodes[p[2]])}
           Edge(p) == IF SecondFirst(nodes[p[1]], nodes[p[2]]) THEN <<p[2], p[1]>> ELSE p
<1>1. FootprintEdges(nodes) = {Edge(p) : p \in Pairs}
  BY DEF FootprintEdges
<1>2. <<i, j>> \in Pairs
  OBVIOUS
<1>3. ASSUME NEW p \in Pairs, Edge(p) \in {<<i, j>>, <<j, i>>}
      PROVE  p = <<i, j>>
  <2>1. /\ p = <<p[1], p[2]>> /\ p[1] \in 1..n /\ p[2] \in 1..n /\ p[1] < p[2]
    OBVIOUS
  <2>2. Edge(p) = <<p[2], p[1]>> \/ Edge(p) = <<p[1], p[2]>>
    BY <2>1
  <2> QED BY <1>3, <2>1, <2>2
<1>4. Edge(<<i, j>>) = IF SecondFirst(nodes[i], nodes[j]) THEN <<j, i>> ELSE <<i, j>>
  OBVIOUS
<1>5. <<i, j>> # <<j, i>>
  OBVIOUS
<1> HIDE DEF Pairs, Edge
<1> QED BY <1>1, <1>2, <1>3, <1>4, <1>5

(* No two nodes of which one writes what the other touches are left        *)
(* without an order, and never are they ordered both ways: footprint_edges *)
(* of compiler.rs.                                                         *)
THEOREM ConflictsAreOrdered ==
  ASSUME NEW nodes, NEW n \in Nat, DOMAIN nodes = 1..n,
         NEW i \in 1..n, NEW j \in 1..n, i # j,
         AnyConflict(nodes[i].writes, nodes[j].reads \cup nodes[j].writes)
  PROVE  <<i, j>> \in FootprintEdges(nodes) <=> <<j, i>> \notin FootprintEdges(nodes)
<1>1. Touching(nodes[i], nodes[j]) /\ Touching(nodes[j], nodes[i])
  BY ConflictsCommute DEF Touching, AnyConflict
<1>2. CASE i < j
  BY <1>1, <1>2, OneEdge
<1>3. CASE j < i
  BY <1>1, <1>3, OneEdge
<1> QED BY <1>2, <1>3

(* A writer precedes a reader, wherever the wants put them, unless the     *)
(* reader writes something of the writer's itself.                         *)
THEOREM WritersPrecedeReaders ==
  ASSUME NEW nodes, NEW n \in Nat, DOMAIN nodes = 1..n,
         NEW i \in 1..n, NEW j \in 1..n, i # j,
         AnyConflict(nodes[i].writes, nodes[j].reads),
         ~AnyConflict(nodes[j].writes, nodes[i].reads \cup nodes[i].writes)
  PROVE  <<i, j>> \in FootprintEdges(nodes)
<1>1. Touching(nodes[i], nodes[j]) /\ Touching(nodes[j], nodes[i])
  BY ConflictsCommute DEF Touching, AnyConflict
<1>2. /\ ~AnyConflict(nodes[j].writes, nodes[i].reads)
      /\ ~AnyConflict(nodes[j].writes, nodes[i].writes)
      /\ ~AnyConflict(nodes[i].writes, nodes[j].writes)
  BY ConflictsCommute DEF AnyConflict
<1>3. ~SecondFirst(nodes[i], nodes[j]) /\ SecondFirst(nodes[j], nodes[i])
  BY <1>2 DEF SecondFirst
<1>4. CASE i < j
  BY <1>1, <1>3, <1>4, OneEdge
<1>5. CASE j < i
  BY <1>1, <1>3, <1>5, OneEdge
<1> QED BY <1>4, <1>5

(* Of two writers of one thing the declared one goes first, wherever the   *)
(* wants put them, unless each is declared to precede the other.           *)
THEOREM DeclaredWritersGoFirst ==
  ASSUME NEW nodes, NEW n \in Nat, DOMAIN nodes = 1..n,
         NEW i \in 1..n, NEW j \in 1..n, i # j,
         AnyConflict(nodes[i].writes, nodes[j].writes),
         nodes[j].op \in nodes[i].before, nodes[i].op \notin nodes[j].before
  PROVE  <<i, j>> \in FootprintEdges(nodes)
<1>1. AnyConflict(nodes[j].writes, nodes[i].writes)
  BY ConflictsCommute
<1>2. Touching(nodes[i], nodes[j]) /\ Touching(nodes[j], nodes[i])
  BY <1>1 DEF Touching, AnyConflict
<1>3. ~SecondFirst(nodes[i], nodes[j]) /\ SecondFirst(nodes[j], nodes[i])
  BY <1>1 DEF SecondFirst
<1>4. CASE i < j
  BY <1>2, <1>3, <1>4, OneEdge
<1>5. CASE j < i
  BY <1>2, <1>3, <1>5, OneEdge
<1> QED BY <1>4, <1>5

(***************************************************************************)
(* Reachability.                                                           *)
(***************************************************************************)
(* A nonempty set of naturals has a least element.                         *)
LEMMA LeastNat ==
  ASSUME NEW T \in SUBSET Nat, T # {}
  PROVE  \E x \in T : \A y \in T : x <= y
<1> DEFINE Less == {p \in Nat \X Nat : p[1] < p[2]}
<1>1. IsWellFoundedOn(Less, Nat)
  <2>1. Less = OpToRel(<, Nat)
    BY DEF OpToRel
  <2>2. QED
    BY <2>1, NatLessThanWellFounded
<1>2. \A x, y \in Nat : y < x => <<y, x>> \in Less
  OBVIOUS
<1> HIDE DEF Less
<1>3. PICK x \in T : \A y \in T : ~ (<<y, x>> \in Less)
  BY <1>1, WFMin
<1>4. ASSUME NEW y \in T PROVE x <= y
  <2>1. x \in Nat /\ y \in Nat
    OBVIOUS
  <2>2. <<y, x>> \notin Less
    BY <1>3
  <2>3. ~(y < x)
    BY <1>2, <2>1, <2>2
  <2>4. QED
    BY <2>1, <2>3
<1>5. QED
  BY <1>4

(* What is reached from a lies in every set that holds what follows a and  *)
(* what follows its members.                                               *)
LEMMA ReachedIsLeast ==
  ASSUME NEW a, NEW b, NEW E
  PROVE  Reachable(a, b, E) <=> \A S : Successors(S \cup {a}, E) \subseteq S => b \in S
<1> DEFINE Ends == Successors({e[1] : e \in E}, E)
<1>1. \A S : Successors(S, E) \subseteq Ends
  BY DEF Successors
<1>2. ASSUME Reachable(a, b, E), NEW S, Successors(S \cup {a}, E) \subseteq S
      PROVE  b \in S
  <2>1. Successors((S \cap Ends) \cup {a}, E) \subseteq Successors(S \cup {a}, E)
    BY DEF Successors
  <2>2. Successors((S \cap Ends) \cup {a}, E) \subseteq S \cap Ends
    BY <1>1, <1>2, <2>1
  <2> QED BY <1>2, <2>2 DEF Reachable, ReachedFrom
<1>3. ASSUME \A S : Successors(S \cup {a}, E) \subseteq S => b \in S
      PROVE  Reachable(a, b, E)
  <2>1. b \in Ends
    BY <1>1, <1>3
  <2> QED BY <1>3, <2>1 DEF Reachable, ReachedFrom
<1> QED BY <1>2, <1>3

LEMMA EdgeReaches ==
  ASSUME NEW E, NEW e \in E
  PROVE  Reachable(e[1], e[2], E)
<1>1. ASSUME NEW S, Successors(S \cup {e[1]}, E) \subseteq S
      PROVE  e[2] \in S
  BY <1>1 DEF Successors
<1> QED BY <1>1, ReachedIsLeast

LEMMA ReachesOn ==
  ASSUME NEW E, NEW a, NEW b, NEW x, Reachable(a, b, E), Reachable(b, x, E)
  PROVE  Reachable(a, x, E)
<1>1. ASSUME NEW S, Successors(S \cup {a}, E) \subseteq S
      PROVE  x \in S
  <2>1. b \in S
    BY <1>1, ReachedIsLeast
  <2>2. Successors(S \cup {b}, E) \subseteq S
    BY <1>1, <2>1 DEF Successors
  <2> QED BY <2>2, ReachedIsLeast
<1> QED BY <1>1, ReachedIsLeast

LEMMA MoreEdgesReachMore ==
  ASSUME NEW E, NEW F, E \subseteq F, NEW a, NEW b, Reachable(a, b, E)
  PROVE  Reachable(a, b, F)
<1>1. ASSUME NEW S, Successors(S \cup {a}, F) \subseteq S
      PROVE  b \in S
  <2>1. Successors(S \cup {a}, E) \subseteq S
    BY <1>1 DEF Successors
  <2> QED BY <2>1, ReachedIsLeast
<1> QED BY <1>1, ReachedIsLeast

(* Edges along which a rank grows: find_cycle lets nothing else through.   *)
Ranked(V, E, rank) ==
  /\ E \subseteq V \X V /\ rank \in [V -> Nat]
  /\ \A e \in E : rank[e[1]] < rank[e[2]]

LEMMA RankGrows ==
  ASSUME NEW V, NEW E, NEW rank, Ranked(V, E, rank), NEW a \in V, NEW b, Reachable(a, b, E)
  PROVE  b \in V /\ rank[a] < rank[b]
<1> DEFINE S == {z \in V : rank[a] < rank[z]}
<1>1. ASSUME NEW e \in E, e[1] \in S \cup {a}
      PROVE  e[2] \in S
  <2>1. e[1] \in V /\ e[2] \in V /\ rank[e[1]] < rank[e[2]]
    BY DEF Ranked
  <2>2. rank[a] \in Nat /\ rank[e[1]] \in Nat /\ rank[e[2]] \in Nat
    BY <2>1 DEF Ranked
  <2>3. rank[a] <= rank[e[1]]
    BY <1>1, <2>2
  <2> QED BY <2>1, <2>2, <2>3
<1>2. Successors(S \cup {a}, E) \subseteq S
  BY <1>1 DEF Successors
<1> HIDE DEF S
<1>3. b \in S
  BY <1>2, ReachedIsLeast
<1> QED BY <1>3 DEF S

(* The step the reduction rests on: if every edge that climbs less than e  *)
(* is reached along the kept edges, so is e.                               *)
LEMMA LongWayRound ==
  ASSUME NEW V, NEW E, NEW rank, Ranked(V, E, rank), NEW e \in E,
         \A f \in E : rank[f[2]] - rank[f[1]] < rank[e[2]] - rank[e[1]]
                        => Reachable(f[1], f[2], Reduce(E))
  PROVE  Reachable(e[1], e[2], Reduce(E))
<1> DEFINE a == e[1]
           b == e[2]
           R == Reduce(E)
           Leads(x) == x = b \/ Reachable(x, b, E)
           S == {x \in V : Reachable(a, x, R) \/ ~Leads(x)}
<1>1. CASE e \in R
  BY <1>1, EdgeReaches
<1>2. CASE e \notin R
  <2>1. Reachable(a, b, E \ {e})
    BY <1>2 DEF Reduce
  <2>2. a \in V /\ b \in V /\ \A x \in V : rank[x] \in Nat
    BY DEF Ranked
  <2>3. ASSUME NEW f \in E \ {e}, f[1] \in S \cup {a}
        PROVE  f[2] \in S
    <3>1. /\ f[1] \in V /\ f[2] \in V /\ rank[f[1]] < rank[f[2]]
          /\ f = <<f[1], f[2]>> /\ e = <<a, b>>
      BY DEF Ranked
    <3>2. CASE ~Leads(f[2])
      BY <3>1, <3>2
    <3>3. CASE Leads(f[2])
      <4>1. Reachable(f[1], f[2], E)
        BY EdgeReaches
      <4>2. Leads(f[1])
        BY <3>3, <4>1, ReachesOn
      <4>3. f[1] = a \/ Reachable(a, f[1], R)
        BY <2>3, <4>2
      <4>4. R \subseteq E
        BY DEF Reduce
      <4>5. f[1] = a \/ rank[a] < rank[f[1]]
        <5>1. CASE Reachable(a, f[1], R)
          BY <5>1, <4>4, <2>2, MoreEdgesReachMore, RankGrows
        <5> QED BY <4>3, <5>1
      <4>6. f[2] = b \/ rank[f[2]] < rank[b]
        BY <3>1, <3>3, RankGrows
      <4>7. ~(f[1] = a /\ f[2] = b)
        BY <3>1
      <4>8. rank[f[2]] - rank[f[1]] < rank[b] - rank[a]
        BY <2>2, <3>1, <4>5, <4>6, <4>7
      <4>9. Reachable(f[1], f[2], R)
        BY <4>8
      <4>10. Reachable(a, f[2], R)
        BY <4>3, <4>9, ReachesOn
      <4> QED BY <3>1, <4>10
    <3> QED BY <3>2, <3>3
  <2>4. Successors(S \cup {a}, E \ {e}) \subseteq S
    BY <2>3 DEF Successors
  <2> HIDE DEF S
  <2>5. b \in S
    BY <2>1, <2>4, ReachedIsLeast
  <2> QED BY <2>5 DEF S
<1> QED BY <1>1, <1>2

(* The edges that are dropped are those the kept ones lead around.         *)
LEMMA RankedReduction ==
  ASSUME NEW V, NEW E, NEW rank, Ranked(V, E, rank), NEW x, NEW y
  PROVE  Reachable(x, y, Reduce(E)) <=> Reachable(x, y, E)
<1> DEFINE R == Reduce(E)
           Climb(e) == rank[e[2]] - rank[e[1]]
           Lost == {e \in E : ~Reachable(e[1], e[2], R)}
<1>1. R \subseteq E
  BY DEF Reduce
<1>2. \A e \in E : Climb(e) \in Nat
  BY DEF Ranked
<1>3. Lost = {}
  <2> SUFFICES ASSUME Lost # {} PROVE FALSE
    OBVIOUS
  <2> DEFINE Climbs == {Climb(e) : e \in Lost}
  <2>1. Climbs \subseteq Nat /\ Climbs # {}
    BY <1>2
  <2> HIDE DEF Climbs
  <2>2. PICK k \in Climbs : \A l \in Climbs : k <= l
    BY <2>1, LeastNat
  <2>3. PICK e \in Lost : k = Climb(e)
    BY <2>2 DEF Climbs
  <2>4. ASSUME NEW f \in E, Climb(f) < Climb(e)
        PROVE  Reachable(f[1], f[2], R)
    <3> SUFFICES ASSUME f \in Lost PROVE FALSE
      OBVIOUS
    <3>1. Climb(f) \in Climbs
      BY DEF Climbs
    <3>2. Climb(e) <= Climb(f)
      BY <2>2, <2>3, <3>1
    <3> QED BY <1>2, <2>3, <2>4, <3>2
  <2>5. Reachable(e[1], e[2], R)
    BY <2>4, LongWayRound
  <2> QED BY <2>5
<1>4. ASSUME Reachable(x, y, E) PROVE Reachable(x, y, R)
  <2>1. ASSUME NEW S, Successors(S \cup {x}, R) \subseteq S
        PROVE  Successors(S \cup {x}, E) \subseteq S
    <3>1. ASSUME NEW e \in E, e[1] \in S \cup {x} PROVE e[2] \in S
      <4>1. Reachable(e[1], e[2], R)
        BY <1>3
      <4>2. Successors(S \cup {e[1]}, R) \subseteq S
        BY <2>1, <3>1 DEF Successors
      <4> QED BY <4>1, <4>2, ReachedIsLeast
    <3> QED BY <3>1 DEF Successors
  <2> QED BY <1>4, <2>1, ReachedIsLeast
<1> QED BY <1>1, <1>4, MoreEdgesReachMore

(***************************************************************************)
(* Acyclic plans.                                                          *)
(***************************************************************************)
(* Only a node that something follows is reached from itself.              *)
LEMMA CyclicAnywhere ==
  ASSUME NEW E
  PROVE  Cyclic(E) <=> \E x : Reachable(x, x, E)
<1>1. ASSUME NEW x, Reachable(x, x, E) PROVE Cyclic(E)
  <2>1. CASE \E e \in E : e[1] = x
    BY <1>1, <2>1 DEF Cyclic
  <2>2. CASE ~\E e \in E : e[1] = x
    <3>1. Successors({} \cup {x}, E) \subseteq {}
      BY <2>2 DEF Successors
    <3>2. x \in {}
      BY <1>1, <3>1, ReachedIsLeast
    <3> QED BY <3>2
  <2> QED BY <2>1, <2>2
<1> QED BY <1>1 DEF Cyclic

(* What a reaches is a node, and so is a.                                  *)
LEMMA ReachedAreNodes ==
  ASSUME NEW V, NEW E, E \subseteq V \X V, NEW a, NEW b, Reachable(a, b, E)
  PROVE  a \in V /\ b \in V
<1>1. Successors(V \cup {a}, E) \subseteq V
  BY DEF Successors
<1>2. b \in V
  BY <1>1, ReachedIsLeast
<1>3. a \in V
  <2> SUFFICES ASSUME a \notin V PROVE FALSE
    OBVIOUS
  <2>1. Successors({} \cup {a}, E) \subseteq {}
    BY DEF Successors
  <2>2. b \in {}
    BY <2>1, ReachedIsLeast
  <2> QED BY <2>2
<1> QED BY <1>2, <1>3

(* The nodes of a plan without a cycle can be numbered so that every edge  *)
(* climbs: by how many nodes come before.  This is what Scheduler.tla      *)
(* assumes of a plan.                                                      *)
LEMMA AcyclicIsRanked ==
  ASSUME NEW V, IsFiniteSet(V), NEW E, E \subseteq V \X V, ~Cyclic(E)
  PROVE  \E rank \in [V -> 1..Cardinality(V)] : \A e \in E : rank[e[1]] < rank[e[2]]
<1> DEFINE Before(x) == {a \in V : Reachable(a, x, E)}
           size == Cardinality(V)
           rank == [x \in V |-> Cardinality(Before(x)) + 1]
<1>1. \A x \in V : x \notin Before(x)
  BY CyclicAnywhere
<1>2. ASSUME NEW x \in V
      PROVE  /\ IsFiniteSet(Before(x)) /\ Cardinality(Before(x)) \in Nat
             /\ Cardinality(Before(x)) < size
  <2>1. Before(x) \subseteq V /\ Before(x) # V
    BY <1>1
  <2> HIDE DEF Before
  <2>2. IsFiniteSet(Before(x)) /\ Cardinality(Before(x)) < Cardinality(V)
    BY <2>1, FS_Subset, FS_CardinalityType
  <2> QED BY <2>2, FS_CardinalityType
<1>3. size \in Nat
  BY FS_CardinalityType
<1>4. ASSUME NEW e \in E PROVE rank[e[1]] < rank[e[2]]
  <2>1. e[1] \in V /\ e[2] \in V
    OBVIOUS
  <2>2. Before(e[1]) \cup {e[1]} \subseteq Before(e[2])
    BY <2>1, EdgeReaches, ReachesOn
  <2>3. e[1] \notin Before(e[1])
    BY <1>1, <2>1
  <2> HIDE DEF Before
  <2>4. /\ IsFiniteSet(Before(e[1]) \cup {e[1]})
        /\ Cardinality(Before(e[1]) \cup {e[1]}) = Cardinality(Before(e[1])) + 1
    BY <1>2, <2>1, <2>3, FS_AddElement
  <2>5. Cardinality(Before(e[1])) + 1 <= Cardinality(Before(e[2]))
    BY <1>2, <2>1, <2>2, <2>4, FS_Subset
  <2> QED BY <1>2, <2>1, <2>5
<1>5. rank \in [V -> 1..size]
  <2>1. \A x \in V : Cardinality(Before(x)) + 1 \in 1..size
    <3> HIDE DEF size, Before
    <3> QED BY <1>2, <1>3
  <2> HIDE DEF Before, size
  <2> QED BY <2>1
<1> HIDE DEF rank
<1> QED BY <1>4, <1>5

(* The transitive reduction of an acyclic plan orders exactly what all its *)
(* edges order: reduce of compiler.rs drops no ordering and adds none.     *)
THEOREM ReductionKeepsTheOrder ==
  ASSUME NEW V, IsFiniteSet(V), NEW E, E \subseteq V \X V, ~Cyclic(E), NEW x, NEW y
  PROVE  Reachable(x, y, Reduce(E)) <=> Reachable(x, y, E)
<1>1. PICK rank \in [V -> 1..Cardinality(V)] : \A e \in E : rank[e[1]] < rank[e[2]]
  BY AcyclicIsRanked
<1>2. Ranked(V, E, rank)
  BY <1>1, FS_CardinalityType DEF Ranked
<1> QED BY <1>2, RankedReduction

(* And it keeps no edge that the others make superfluous.                  *)
THEOREM ReductionIsLeast ==
  ASSUME NEW E, NEW e \in Reduce(E)
  PROVE  ~Reachable(e[1], e[2], Reduce(E) \ {e})
<1>1. Reduce(E) \ {e} \subseteq E \ {e}
  BY DEF Reduce
<1>2. ~Reachable(e[1], e[2], E \ {e})
  BY DEF Reduce
<1> QED BY <1>1, <1>2, MoreEdgesReachMore

(* What compile() keeps is a plan the scheduler can run to its end: the    *)
(* edges join its nodes and none leads back (Scheduler.tla's               *)
(* PlanAssumption).                                                        *)
THEOREM KeptPlansCanBeRun ==
  ASSUME NEW V, IsFiniteSet(V), NEW E, E \subseteq V \X V, ~Cyclic(E)
  PROVE  /\ Reduce(E) \subseteq V \X V
         /\ \E rank \in [V -> 1..Cardinality(V)] :
              \A e \in Reduce(E) : rank[e[1]] < rank[e[2]]
<1>1. Reduce(E) \subseteq E
  BY DEF Reduce
<1>2. PICK rank \in [V -> 1..Cardinality(V)] : \A e \in E : rank[e[1]] < rank[e[2]]
  BY AcyclicIsRanked
<1> QED BY <1>1, <1>2

(* The whole of it, as compile() puts it together: whatever the explicit   *)
(* dependencies, if the edges have no cycle, any two nodes of which one    *)
(* writes what the other touches are ordered by the edges the plan keeps.  *)
THEOREM PlansOrderConflicts ==
  ASSUME NEW nodes, NEW n \in Nat, DOMAIN nodes = 1..n, NEW deps,
         deps \subseteq (1..n) \X (1..n),
         ~Cyclic(Dedupe(deps \cup FootprintEdges(nodes))),
         NEW i \in 1..n, NEW j \in 1..n, i # j,
         AnyConflict(nodes[i].writes, nodes[j].reads \cup nodes[j].writes)
  PROVE  LET kept == Reduce(Dedupe(deps \cup FootprintEdges(nodes)))
         IN Reachable(i, j, kept) \/ Reachable(j, i, kept)
<1> DEFINE E == Dedupe(deps \cup FootprintEdges(nodes))
<1>1. <<i, j>> \in FootprintEdges(nodes) \/ <<j, i>> \in FootprintEdges(nodes)
  BY ConflictsAreOrdered
<1>2. <<i, j>> \in E \/ <<j, i>> \in E
  BY <1>1 DEF Dedupe
<1> HIDE DEF E
<1>3. Reachable(i, j, E) \/ Reachable(j, i, E)
  BY <1>2, EdgeReaches
<1>4. E \subseteq (1..n) \X (1..n) /\ ~Cyclic(E) /\ IsFiniteSet(1..n)
  <2>1. FootprintEdges(nodes) \subseteq (1..n) \X (1..n)
    BY DEF FootprintEdges
  <2> QED BY <2>1, FS_Interval DEF E, Dedupe
<1>5. Reachable(i, j, Reduce(E)) \/ Reachable(j, i, Reduce(E))
  BY <1>3, <1>4, ReductionKeepsTheOrder
<1> QED BY <1>5 DEF E
=============================================================================
