------------------------------- MODULE Ledger -------------------------------
(***************************************************************************)
(* What a ledger says of its rows (crates/rwmcp/src/ledger.rs): which      *)
(* nodes are done, what a receipt lists, and the figures, which come from  *)
(* sorting the ends of spans and sweeping over them.                       *)
(***************************************************************************)
EXTENDS Integers, FiniteSets, Sequences

CONSTANT Timings \* the timed rows to try the sweeps on: <<surface, started_us, ended_us>>

(* Of a clock that does not go back before it began, and is not used up.   *)
ASSUME LedgerAssumption ==
  \A timed \in Timings :
    /\ Len(timed) \in Nat /\ DOMAIN timed = 1..Len(timed)
    /\ \A i \in DOMAIN timed : timed[i][2] \in Nat /\ timed[i][3] \in Nat

(***************************************************************************)
(* A row is [run, node, key, ok]: one for each node of a run, its attempts *)
(* folded into the last of them; later runs append after earlier ones.     *)
(***************************************************************************)
NoKey == <<>>

(* The key the compiler stamps on a node, scoped to the plan's id.         *)
KeyOf(id, node) == IF node.keyed THEN <<id, node.canon>> ELSE NoKey

(* Mutant: a node is done when some node of its number is.                 *)
CompletedByNumber(rows, id, nodes) ==
  {n \in DOMAIN nodes : nodes[n].keyed /\ \E r \in rows : r.ok /\ r.node = n}

(* The nodes a ledger proves done: keyed ones whose key has an ok row.     *)
Completed(rows, id, nodes) ==
  {n \in DOMAIN nodes : nodes[n].keyed /\ \E r \in rows : r.ok /\ r.key = KeyOf(id, nodes[n])}

(* Mutant: the first row of a node counts.                                 *)
FirstRow(rows, n) ==
  CHOOSE r \in rows : r.node = n /\ \A x \in rows : x.node = n => r.run <= x.run

LastRow(rows, n) ==
  CHOOSE r \in rows : r.node = n /\ \A x \in rows : x.node = n => x.run <= r.run

(* The effects of a receipt: for each node that has rows, the last of them.*)
Effects(rows, id, nodes) ==
  {[key |-> KeyOf(id, nodes[n]), ok |-> LastRow(rows, n).ok] :
     n \in {i \in DOMAIN nodes : \E r \in rows : r.node = i}}

(***************************************************************************)
(* The sweeps, over some of the timed rows.  The k-th in an order has      *)
(* k - 1 before it.                                                        *)
(***************************************************************************)
Sorted(X, before) ==
  [k \in 1..Cardinality(X) |->
     CHOOSE x \in X : Cardinality({y \in X : <<y, x>> \in before}) = k - 1]

Larger(a, b) == IF a >= b THEN a ELSE b

Started(timed, i) == timed[i][2]
Ended(timed, i) == timed[i][3]

(* Where a call begins, <<i, 1>>, and where it ends, <<i, -1>>; one of no  *)
(* length, or that ends before it begins, is taken to have one.            *)
Points(calls) == calls \X {1, -1}

At(timed, p) ==
  IF p[2] = 1 THEN Started(timed, p[1]) ELSE Larger(Ended(timed, p[1]), Started(timed, p[1]) + 1)

(* Mutant: starts come first.                                              *)
StartsFirst(p, q) == p[2] > q[2]

(* At one instant ends come first: touching calls do not overlap.          *)
EndsFirst(p, q) == p[2] < q[2]

PointOrder(timed, calls) ==
  {pq \in Points(calls) \X Points(calls) :
     LET p == pq[1] q == pq[2] IN
     \/ At(timed, p) < At(timed, q)
     \/ At(timed, p) = At(timed, q) /\ (EndsFirst(p, q) \/ (p[2] = q[2] /\ p[1] < q[1]))}

(* How many are open after each point, and the most there ever are.        *)
Opened(points, n) ==
  LET open[k \in 0..n] == IF k = 0 THEN 0 ELSE open[k - 1] + points[k][2] IN open

Largest(T) == CHOOSE x \in T : \A y \in T : y <= x

MaxOverlap(timed, calls) ==
  LET n == Cardinality(Points(calls))
      open == Opened(Sorted(Points(calls), PointOrder(timed, calls)), n)
  IN Largest({open[k] : k \in 0..n})

(* The length covered, overlaps counted once: spans are taken by where     *)
(* they begin, and joined to what is covered already if they reach it.     *)
(* Backwards ones have no length.                                          *)
Until(timed, i) == Larger(Started(timed, i), Ended(timed, i))

SpanOrder(timed, calls) ==
  {ij \in calls \X calls :
     LET i == ij[1] j == ij[2] IN
     \/ Started(timed, i) < Started(timed, j)
     \/ /\ Started(timed, i) = Started(timed, j)
        /\ \/ Until(timed, i) < Until(timed, j)
           \/ Until(timed, i) = Until(timed, j) /\ i < j}

Unswept == [total |-> 0, start |-> 0, end |-> 0]

Joined(w, s, e) ==
  IF s <= w.end THEN [w EXCEPT !.end = Larger(@, e)]
  ELSE [total |-> w.total + (w.end - w.start), start |-> s, end |-> e]

Swept(timed, spans, n) ==
  LET w[k \in 0..n] ==
        IF k = 0 THEN Unswept
        ELSE Joined(w[k - 1], Started(timed, spans[k]), Until(timed, spans[k]))
  IN w

UnionLength(timed, calls) ==
  LET n == Cardinality(calls)
      last == Swept(timed, Sorted(calls, SpanOrder(timed, calls)), n)[n]
  IN last.total + (last.end - last.start)

(***************************************************************************)
(* The figures.  Waits for events are not calls.                           *)
(***************************************************************************)
Calls(timed) == {i \in DOMAIN timed : timed[i][1] # "event"}
OnSurface(timed, s) == {i \in DOMAIN timed : timed[i][1] = s}

MaxParallel(timed) == MaxOverlap(timed, Calls(timed))
MaxParallelBySurface(timed) ==
  [s \in {timed[i][1] : i \in Calls(timed)} |-> MaxOverlap(timed, OnSurface(timed, s))]
BusyUs(timed) == UnionLength(timed, Calls(timed))
RunUs(timed) ==
  IF DOMAIN timed = {} THEN 0
  ELSE LET Starts == {Started(timed, i) : i \in DOMAIN timed}
           first == CHOOSE s \in Starts : \A x \in Starts : s <= x
       IN Larger(0, Largest({Ended(timed, i) : i \in DOMAIN timed}) - first)

(***************************************************************************)
(* The figures are those somebody with a clock would write down, instant   *)
(* by instant, whether calls touch, are empty, nest, or run backwards.     *)
(***************************************************************************)
Instants(timed) == UNION {Started(timed, i)..Until(timed, i) : i \in DOMAIN timed}

OpenAt(timed, S, t) ==
  {i \in S : Started(timed, i) <= t /\ t < Larger(Started(timed, i) + 1, Ended(timed, i))}

IsWidest(timed, S, k) ==
  /\ \A t \in Instants(timed) : Cardinality(OpenAt(timed, S, t)) <= k
  /\ k = 0 \/ \E t \in Instants(timed) : Cardinality(OpenAt(timed, S, t)) = k

BusyAt(timed, t) ==
  \E i \in Calls(timed) : Started(timed, i) <= t /\ t < Ended(timed, i)

FiguresHold ==
  \A timed \in Timings :
    /\ IsWidest(timed, Calls(timed), MaxParallel(timed))
    /\ \A s \in DOMAIN MaxParallelBySurface(timed) :
         IsWidest(timed, {i \in Calls(timed) : timed[i][1] = s}, MaxParallelBySurface(timed)[s])
    /\ BusyUs(timed) = Cardinality({t \in Instants(timed) : BusyAt(timed, t)})
    /\ BusyUs(timed) <= RunUs(timed)
=============================================================================
