-------------------------- MODULE PlanEdgesProofs --------------------------
(***************************************************************************)
(* The two searches at the end of compile() come to what it promises, for  *)
(* any number of nodes and any edges between them, and what it promises    *)
(* orders a plan as its data demands, for any nodes: theorems about        *)
(* PlanEdges and PlanBuild.                                                *)
(***************************************************************************)
EXTENDS PlanEdges, PlanBuild, PlanGraphProofs, SequenceTheorems

(***************************************************************************)
(* The search.                                                             *)
(***************************************************************************)
OpenNodes == {n \in Nodes : mark[n] = "open"}

DoneNodes == {n \in Nodes : mark[n] = "done"}

(* The stack is the path, along edges, that the search has come.           *)
StackInv ==
  /\ \A i \in DOMAIN stack : stack[i] \in OpenNodes
  /\ \A n \in OpenNodes : \E i \in DOMAIN stack : stack[i] = n
  /\ \A i, j \in DOMAIN stack : stack[i] = stack[j] => i = j
  /\ \A i \in DOMAIN stack : i + 1 \in DOMAIN stack => <<stack[i], stack[i + 1]>> \in edges
  /\ \A i \in DOMAIN stack : left[stack[i]] \subseteq Successors({stack[i]}, edges)

(* What follows an open node is still to be looked at, is done, or is the  *)
(* next on the stack.                                                      *)
LeftInv ==
  \A i \in DOMAIN stack : \A e \in edges :
    e[1] = stack[i] =>
      \/ e[2] \in left[stack[i]] \/ e[2] \in DoneNodes
      \/ i + 1 \in DOMAIN stack /\ stack[i + 1] = e[2]

(* Nothing leads out of the nodes that are done, and none is on a cycle.   *)
DoneInv ==
  /\ Successors(DoneNodes, edges) \subseteq DoneNodes
  /\ \A n \in DoneNodes : ~Reachable(n, n, edges)

RootInv == \A n \in Nodes : n < root => mark[n] # "new"

SearchInv == phase = "search" => StackInv /\ LeftInv /\ DoneInv /\ RootInv

(* Whichever answer find_cycle has given is right.                         *)
AnswerInv ==
  /\ phase = "cycle" => CycleIsReal /\ Cyclic(edges)
  /\ phase \in {"reduce", "plan"} => ~Cyclic(edges)

(***************************************************************************)
(* The reduction.                                                          *)
(***************************************************************************)
(* What was seen is reached, and what follows it is seen too unless it is  *)
(* still on the worklist.                                                  *)
WorkInv ==
  edge # None =>
    /\ edge \notin waiting /\ edge[2] \notin seen /\ work \subseteq seen \cup {edge[1]}
    /\ \A x \in seen : Reachable(edge[1], x, Others)
    /\ Successors((seen \cup {edge[1]}) \ work, Others) \subseteq seen

KeptInv ==
  kept = {e \in edges \ waiting : e # edge /\ ~Reachable(e[1], e[2], edges \ {e})}

ReduceInv ==
  /\ phase \in {"search", "cycle"} => edge = None /\ kept = {}
  /\ phase = "reduce" => WorkInv /\ KeptInv
  /\ phase = "plan" => kept = Reduce(edges)

IInv == TypeOK /\ SearchInv /\ AnswerInv /\ ReduceInv

(***************************************************************************)
(* Types.                                                                  *)
(***************************************************************************)
LEMMA AnEdge ==
  ASSUME TypeOK, NEW e \in edges
  PROVE  e # None /\ e = <<e[1], e[2]>> /\ e[1] \in Nodes /\ e[2] \in Nodes
BY DEF TypeOK, None

LEMMA Followers ==
  ASSUME TypeOK, NEW n
  PROVE  Successors({n}, edges) \subseteq Nodes
<1>1. \A e \in edges : e[2] \in Nodes
  BY AnEdge
<1> QED BY <1>1 DEF Successors

LEMMA InitTypeOK == Init => TypeOK
<1> SUFFICES ASSUME Init PROVE TypeOK
  OBVIOUS
<1>1. edges \subseteq Nodes \X Nodes
  BY EdgesAssumption DEF Init, Dedupe
<1>2. root \in 1..Size + 1
  BY EdgesAssumption DEF Init
<1>3. Len(stack) <= Size
  BY EdgesAssumption DEF Init
<1> QED BY <1>1, <1>2, <1>3 DEF Init, TypeOK

(* Where a node is on the stack, if it is, and else its bottom.            *)
LEMMA AtPosition ==
  ASSUME TypeOK, NEW n
  PROVE  /\ Position(n) \in DOMAIN stack \cup {1}
         /\ (\E i \in DOMAIN stack : stack[i] = n)
              => Position(n) \in DOMAIN stack /\ stack[Position(n)] = n
BY DEF Position

(* The path from n up to the top, and back to n.                           *)
RoundFrom(n, p) ==
  LET first == Position(n)
      size == Len(stack) - first + 1 IN
  /\ size \in Nat \ {0} /\ Len(p) = size + 1 /\ p[size + 1] = n
  /\ \A i \in 1..size : first + i - 1 \in DOMAIN stack /\ p[i] = stack[first + i - 1]

LEMMA ThePath ==
  ASSUME TypeOK, NEW n \in Nodes, NEW rest, ComeAround(n, rest)
  PROVE  /\ path' \in Seq(Nodes)
         /\ (\E i \in DOMAIN stack : stack[i] = n) => RoundFrom(n, path')
<1> DEFINE first == Position(n)
           s == SubSeq(stack, first, Len(stack))
<1>1. Len(stack) \in Nat /\ DOMAIN stack = 1..Len(stack) /\ \A i \in 1..Len(stack) : stack[i] \in Nodes
  BY DEF TypeOK
<1>2. first \in 1..Len(stack) \cup {1}
  BY <1>1, AtPosition
<1> HIDE DEF first
<1>3. \A i \in first..Len(stack) : stack[i] \in Nodes
  BY <1>1, <1>2
<1>4. /\ s \in Seq(Nodes)
      /\ Len(s) = IF first <= Len(stack) THEN Len(stack) - first + 1 ELSE 0
      /\ \A i \in 1..Len(stack) - first + 1 : s[i] = stack[first + i - 1]
  <2>1. first \in Int /\ Len(stack) \in Int
    BY <1>1, <1>2
  <2> QED BY <1>3, <2>1, SubSeqProperties
<1>5. path' = Append(s, n)
  BY DEF ComeAround, first
<1> HIDE DEF s
<1>6. /\ path' \in Seq(Nodes) /\ Len(path') = Len(s) + 1
      /\ \A i \in 1..Len(s) : path'[i] = s[i]
      /\ path'[Len(s) + 1] = n
  BY <1>4, <1>5, AppendProperties
<1>7. ASSUME \E i \in DOMAIN stack : stack[i] = n
      PROVE  /\ Len(stack) - first + 1 \in Nat \ {0} /\ Len(path') = Len(stack) - first + 1 + 1
             /\ path'[Len(stack) - first + 1 + 1] = n
             /\ \A i \in 1..Len(stack) - first + 1 :
                  first + i - 1 \in DOMAIN stack /\ path'[i] = stack[first + i - 1]
  <2>1. first \in 1..Len(stack)
    BY <1>1, <1>7, AtPosition DEF first
  <2>2. Len(s) = Len(stack) - first + 1 /\ Len(s) \in Nat \ {0}
    BY <1>1, <1>4, <2>1
  <2> QED BY <1>1, <1>4, <1>6, <2>1, <2>2
<1> QED BY <1>6, <1>7 DEF first, RoundFrom

(* The top, and the stack without it.                                      *)
LEMMA TheTop ==
  ASSUME TypeOK, stack # <<>>
  PROVE  LET size == Len(stack)
             rest == SubSeq(stack, 1, Len(stack) - 1) IN
         /\ size \in Nat \ {0} /\ DOMAIN stack = 1..size /\ Top \in Nodes /\ Top = stack[size]
         /\ rest \in Seq(Nodes) /\ Len(rest) = size - 1 /\ DOMAIN rest = 1..size - 1
         /\ \A i \in 1..size - 1 : rest[i] = stack[i]
<1>1. /\ Len(stack) \in Nat /\ DOMAIN stack = 1..Len(stack)
      /\ \A i \in 1..Len(stack) : stack[i] \in Nodes
  BY DEF TypeOK
<1>2. Len(stack) # 0
  BY EmptySeq DEF TypeOK
<1>3. 1 \in Int /\ Len(stack) - 1 \in Int /\ \A i \in 1..Len(stack) - 1 : stack[i] \in Nodes
  BY <1>1
<1>4. LET rest == SubSeq(stack, 1, Len(stack) - 1) IN
      /\ rest \in Seq(Nodes)
      /\ Len(rest) = IF 1 <= Len(stack) - 1 THEN Len(stack) - 1 - 1 + 1 ELSE 0
      /\ \A i \in 1..Len(stack) - 1 - 1 + 1 : rest[i] = stack[1 + i - 1]
  BY <1>3, SubSeqProperties
<1> DEFINE rest == SubSeq(stack, 1, Len(stack) - 1)
<1>5. rest \in Seq(Nodes) /\ Len(rest) = Len(stack) - 1
  BY <1>1, <1>2, <1>4
<1>6. DOMAIN rest = 1..Len(stack) - 1
  BY <1>5
<1>7. \A i \in 1..Len(stack) - 1 : rest[i] = stack[i]
  BY <1>1, <1>4
<1> HIDE DEF rest
<1>8. Top \in Nodes /\ Top = stack[Len(stack)]
  BY <1>1, <1>2 DEF Top
<1> QED BY <1>1, <1>2, <1>5, <1>6, <1>7, <1>8 DEF rest

(***************************************************************************)
(* One call of walk(n): n follows the top of the stack, if there is one,   *)
(* and has been taken off what is left of it.                              *)
(***************************************************************************)
Called(n, rest) ==
  /\ n \in Nodes /\ (stack # <<>> => <<Top, n>> \in edges)
  /\ rest \in [Nodes -> SUBSET Nodes]
  /\ \A i \in DOMAIN stack :
       /\ rest[stack[i]] \subseteq left[stack[i]]
       /\ left[stack[i]] \subseteq rest[stack[i]] \cup (IF i = Len(stack) THEN {n} ELSE {})

WalkInv == StackInv /\ LeftInv /\ DoneInv

LEMMA RootIsCalled ==
  ASSUME TypeOK, stack = <<>>, root <= Size
  PROVE  Called(root, left)
<1>1. root \in Nodes
  BY EdgesAssumption DEF TypeOK, Nodes
<1>2. DOMAIN stack = {}
  BY SMT
<1> QED BY <1>1, <1>2 DEF Called, TypeOK

LEMMA FollowerIsCalled ==
  ASSUME TypeOK, StackInv, stack # <<>>, NEW n \in left[Top]
  PROVE  Called(n, [left EXCEPT ![Top] = @ \ {n}])
<1>1. Top \in Nodes /\ Len(stack) \in DOMAIN stack /\ Top = stack[Len(stack)]
  BY TheTop
<1>2. n \in Nodes /\ n \in Successors({Top}, edges)
  BY <1>1 DEF TypeOK, StackInv
<1>3. <<Top, n>> \in edges
  <2>1. PICK e \in edges : e[1] = Top /\ e[2] = n
    BY <1>2 DEF Successors
  <2> QED BY <2>1, AnEdge
<1>4. \A i \in DOMAIN stack : stack[i] \in Nodes /\ (stack[i] = Top => i = Len(stack))
  BY <1>1 DEF StackInv, OpenNodes
<1> QED BY <1>1, <1>2, <1>3, <1>4 DEF Called, TypeOK

(* A path along edges that comes back to where it began is a cycle.        *)
LEMMA BackAgain ==
  ASSUME NEW E, NEW p, NEW last \in Nat, last > 1, p[1] = p[last],
         \A i \in 1..last - 1 : <<p[i], p[i + 1]>> \in E
  PROVE  Cyclic(E)
<1>1. ASSUME NEW S, Successors(S \cup {p[1]}, E) \subseteq S
      PROVE  p[last] \in S
  <2> SUFFICES ASSUME p[last] \notin S PROVE FALSE
    OBVIOUS
  <2> DEFINE Astray == {k \in 2..last : p[k] \notin S}
  <2>1. Astray \in SUBSET Nat /\ Astray # {}
    OBVIOUS
  <2> HIDE DEF Astray
  <2>2. PICK k \in Astray : \A l \in Astray : k <= l
    BY <2>1, LeastNat
  <2>3. k \in 2..last /\ p[k] \notin S
    BY DEF Astray
  <2>4. p[k - 1] \in S \cup {p[1]}
    <3>1. CASE k = 2
      BY <3>1
    <3>2. CASE k # 2
      <4>1. k - 1 \in 2..last /\ ~(k <= k - 1)
        BY <2>3, <3>2
      <4> QED BY <2>2, <4>1 DEF Astray
    <3> QED BY <3>1, <3>2
  <2>5. <<p[k - 1], p[k]>> \in E
    <3>1. k - 1 \in 1..last - 1 /\ k - 1 + 1 = k
      BY <2>3
    <3> QED BY <3>1
  <2>6. p[k] \in Successors(S \cup {p[1]}, E)
    BY <2>4, <2>5 DEF Successors
  <2> QED BY <1>1, <2>3, <2>6
<1>2. Reachable(p[1], p[1], E)
  BY <1>1, ReachedIsLeast
<1> QED BY <1>2, CyclicAnywhere

LEMMA AroundStep ==
  ASSUME TypeOK, StackInv, NEW n, NEW rest, Called(n, rest), ComeAround(n, rest), edges' = edges
  PROVE  CycleIsReal' /\ Cyclic(edges)
<1> DEFINE first == Position(n)
           size == Len(stack) - first + 1
<1>1. n \in Nodes /\ \E i \in DOMAIN stack : stack[i] = n
  BY DEF ComeAround, StackInv, OpenNodes, Called
<1>2. first \in DOMAIN stack /\ stack[first] = n
  BY <1>1, AtPosition
<1>3. /\ size \in Nat \ {0} /\ Len(path') = size + 1 /\ path'[size + 1] = n
      /\ \A i \in 1..size : first + i - 1 \in DOMAIN stack /\ path'[i] = stack[first + i - 1]
  <2>1. RoundFrom(n, path')
    BY <1>1, ThePath
  <2> QED BY <2>1 DEF RoundFrom
<1>4. stack # <<>> /\ Len(stack) \in Nat /\ DOMAIN stack = 1..Len(stack)
      /\ <<stack[Len(stack)], n>> \in edges
  <2>1. stack # <<>>
    BY <1>2
  <2> QED BY <2>1, TheTop DEF Called
<1>5. path'[1] = n
  BY <1>2, <1>3, <1>4
<1>6. ASSUME NEW i \in 1..size PROVE <<path'[i], path'[i + 1]>> \in edges
  <2>1. CASE i = size
    <3>1. first + i - 1 = Len(stack)
      BY <1>2, <1>4, <2>1
    <3> QED BY <1>3, <1>4, <2>1, <3>1
  <2>2. CASE i # size
    <3>1. i + 1 \in 1..size
      BY <1>3, <2>2
    <3>2. first + (i + 1) - 1 = (first + i - 1) + 1
      BY <1>2, <1>4
    <3>3. /\ path'[i] = stack[first + i - 1] /\ path'[i + 1] = stack[(first + i - 1) + 1]
          /\ first + i - 1 \in DOMAIN stack /\ (first + i - 1) + 1 \in DOMAIN stack
      BY <1>3, <3>1, <3>2
    <3> QED BY <3>3 DEF StackInv
  <2> QED BY <2>1, <2>2
<1>7. ASSUME NEW i \in 1..size, NEW j \in 1..size, path'[i] = path'[j]
      PROVE  i = j
  <2>1. first + i - 1 = first + j - 1
    BY <1>3, <1>7 DEF StackInv
  <2> QED BY <1>2, <1>4, <2>1
<1> HIDE DEF size, first
<1>8. Len(path') > 1 /\ Len(path') - 1 = size /\ Len(path') \in Nat /\ path'[1] = path'[Len(path')]
  BY <1>3, <1>5
<1>9. Cyclic(edges)
  BY <1>6, <1>8, BackAgain
<1>10. CycleIsReal'
  BY <1>6, <1>7, <1>8 DEF CycleIsReal
<1> QED BY <1>9, <1>10

LEMMA SkipStep ==
  ASSUME TypeOK, WalkInv, NEW n, NEW rest, Called(n, rest), Skip(n, rest), edges' = edges
  PROVE  WalkInv'
<1>1. mark' = mark /\ stack' = stack /\ left' = rest /\ n \in DoneNodes
  BY DEF Skip, Called, DoneNodes
<1>2. OpenNodes' = OpenNodes /\ DoneNodes' = DoneNodes
  BY <1>1 DEF OpenNodes, DoneNodes
<1>3. StackInv'
  BY <1>1, <1>2 DEF WalkInv, StackInv, Called
<1>4. LeftInv'
  <2> SUFFICES ASSUME NEW i \in DOMAIN stack, NEW e \in edges, e[1] = stack[i],
                      e[2] \notin DoneNodes, ~(i + 1 \in DOMAIN stack /\ stack[i + 1] = e[2])
               PROVE  e[2] \in rest[stack[i]]
    BY <1>1, <1>2 DEF LeftInv
  <2>1. e[2] \in left[stack[i]]
    BY DEF WalkInv, LeftInv
  <2> QED BY <1>1, <2>1 DEF Called
<1>5. DoneInv'
  BY <1>2 DEF WalkInv, DoneInv
<1> QED BY <1>3, <1>4, <1>5 DEF WalkInv

LEMMA OpenStep ==
  ASSUME TypeOK, WalkInv, NEW n, NEW rest, Called(n, rest), Open(n, rest), edges' = edges
  PROVE  WalkInv'
<1> DEFINE size == Len(stack)
<1>1. /\ n \in Nodes /\ mark[n] = "new" /\ mark' = [mark EXCEPT ![n] = "open"]
      /\ stack' = Append(stack, n) /\ left' = [rest EXCEPT ![n] = Successors({n}, edges)]
      /\ rest \in [Nodes -> SUBSET Nodes]
  BY DEF Open, Called
<1>2. /\ size \in Nat /\ DOMAIN stack = 1..size /\ DOMAIN stack' = 1..size + 1
      /\ \A i \in 1..size : stack'[i] = stack[i]
      /\ stack'[size + 1] = n
  <2>1. stack \in Seq(Nodes)
    BY DEF TypeOK
  <2>2. /\ stack' \in Seq(Nodes) /\ Len(stack') = size + 1
        /\ \A i \in 1..size : stack'[i] = stack[i]
        /\ stack'[size + 1] = n
    BY <1>1, <2>1, AppendProperties
  <2> QED BY <2>1, <2>2
<1>3. OpenNodes' = OpenNodes \cup {n} /\ DoneNodes' = DoneNodes /\ n \notin OpenNodes
  BY <1>1 DEF OpenNodes, DoneNodes, TypeOK
<1>4. \A i \in 1..size : stack[i] \in OpenNodes /\ stack[i] \in Nodes /\ stack[i] # n
  BY <1>2, <1>3 DEF WalkInv, StackInv, OpenNodes
<1>5. \A i \in 1..size : left'[stack[i]] = rest[stack[i]]
  BY <1>1, <1>4
<1>6. left'[n] = Successors({n}, edges)
  BY <1>1
<1>7. size # 0 => <<stack[size], n>> \in edges
  <2>1. size # 0 => stack # <<>>
    BY EmptySeq
  <2> QED BY <2>1 DEF Called, Top
<1> HIDE DEF size
<1>8. StackInv'
  <2>1. \A i \in 1..size + 1 : i \in 1..size \/ i = size + 1
    BY <1>2
  <2>2. \A i \in DOMAIN stack' : stack'[i] \in OpenNodes'
    BY <1>2, <1>3, <1>4, <2>1
  <2>3. \A m \in OpenNodes' : \E i \in DOMAIN stack' : stack'[i] = m
    <3> SUFFICES ASSUME NEW m \in OpenNodes' PROVE \E i \in DOMAIN stack' : stack'[i] = m
      OBVIOUS
    <3>1. CASE m = n
      <4>1. size + 1 \in DOMAIN stack'
        BY <1>2
      <4> QED BY <1>2, <3>1, <4>1
    <3>2. CASE m \in OpenNodes
      <4>1. PICK i \in 1..size : stack[i] = m
        BY <1>2, <3>2 DEF WalkInv, StackInv
      <4> QED BY <1>2, <4>1
    <3> QED BY <1>3, <3>1, <3>2
  <2>4. \A i, j \in DOMAIN stack' : stack'[i] = stack'[j] => i = j
    BY <1>2, <1>4, <2>1 DEF WalkInv, StackInv
  <2>5. ASSUME NEW i \in DOMAIN stack', i + 1 \in DOMAIN stack'
        PROVE  <<stack'[i], stack'[i + 1]>> \in edges
    <3>1. i \in 1..size
      BY <1>2, <2>5
    <3>2. CASE i = size
      BY <1>2, <1>7, <3>1, <3>2
    <3>3. CASE i # size
      <4>1. i + 1 \in 1..size
        BY <1>2, <3>1, <3>3
      <4> QED BY <1>2, <3>1, <4>1 DEF WalkInv, StackInv
    <3> QED BY <3>2, <3>3
  <2>6. ASSUME NEW i \in DOMAIN stack'
        PROVE  left'[stack'[i]] \subseteq Successors({stack'[i]}, edges)
    <3>1. CASE i \in 1..size
      BY <1>2, <1>5, <3>1 DEF WalkInv, StackInv, Called
    <3>2. CASE i = size + 1
      BY <1>2, <1>6, <3>2
    <3> QED BY <1>2, <2>1, <3>1, <3>2
  <2> QED BY <2>2, <2>3, <2>4, <2>5, <2>6 DEF StackInv
<1>9. LeftInv'
  <2> SUFFICES ASSUME NEW i \in DOMAIN stack', NEW e \in edges, e[1] = stack'[i],
                      e[2] \notin DoneNodes, ~(i + 1 \in DOMAIN stack' /\ stack'[i + 1] = e[2])
               PROVE  e[2] \in left'[stack'[i]]
    BY <1>3 DEF LeftInv
  <2>1. CASE i = size + 1
    <3>1. e[2] \in Successors({n}, edges)
      BY <1>2, <2>1 DEF Successors
    <3> QED BY <1>2, <1>6, <2>1, <3>1
  <2>2. CASE i \in 1..size
    <3>1. i + 1 \in DOMAIN stack' /\ stack'[i + 1] # e[2]
      BY <1>2, <2>2
    <3>2. ~(i + 1 \in DOMAIN stack /\ stack[i + 1] = e[2])
      BY <1>2, <3>1
    <3>3. e[2] \in left[stack[i]]
      BY <1>2, <2>2, <3>2 DEF WalkInv, LeftInv
    <3>4. e[2] # n \/ i # size
      BY <1>2, <2>2, <3>1
    <3>5. e[2] \in rest[stack[i]]
      BY <1>2, <2>2, <3>3, <3>4 DEF Called, size
    <3> QED BY <1>2, <1>5, <2>2, <3>5
  <2> QED BY <1>2, <2>1, <2>2
<1>10. DoneInv'
  BY <1>3 DEF WalkInv, DoneInv
<1> QED BY <1>8, <1>9, <1>10 DEF WalkInv

(* A stack that holds every node once at most is never higher than there   *)
(* are nodes.                                                              *)
LEMMA NotDeep ==
  ASSUME NEW s \in Seq(Nodes), \A i, j \in DOMAIN s : s[i] = s[j] => i = j
  PROVE  Len(s) <= Size
<1>1. Len(s) \in Nat /\ s \in [1..Len(s) -> Nodes]
  BY LenProperties
<1>2. Size \in Nat
  BY EdgesAssumption
<1>3. /\ IsFiniteSet(1..Len(s)) /\ Cardinality(1..Len(s)) = Len(s)
      /\ IsFiniteSet(Nodes) /\ Cardinality(Nodes) = Size
  <2>1. \A k \in Nat : IsFiniteSet(1..k) /\ Cardinality(1..k) = k
    BY FS_Interval
  <2> QED BY <1>1, <1>2, <2>1 DEF Nodes
<1> SUFFICES ASSUME Len(s) > Size PROVE FALSE
  BY <1>1, <1>2
<1>4. PICK i, j \in 1..Len(s) : i # j /\ s[i] = s[j]
  <2>1. Cardinality(Nodes) < Cardinality(1..Len(s))
    BY <1>1, <1>2, <1>3
  <2> QED BY <1>1, <1>3, <2>1, FS_PigeonHole
<1> QED BY <1>1, <1>4

LEMMA WalkTypes ==
  ASSUME TypeOK, WalkInv, phase = "search", NEW n, NEW rest,
         Called(n, rest), Walk(n, rest), edges' = edges
  PROVE  /\ mark' \in [Nodes -> {"new", "open", "done"}] /\ left' \in [Nodes -> SUBSET Nodes]
         /\ stack' \in Seq(Nodes) /\ Len(stack') <= Size
         /\ path' \in Seq(Nodes) /\ phase' \in {"search", "cycle"}
<1>1. n \in Nodes /\ rest \in [Nodes -> SUBSET Nodes]
  BY DEF Called
<1>2. CASE ComeAround(n, rest)
  <2>1. path' \in Seq(Nodes)
    BY <1>1, <1>2, ThePath
  <2> QED BY <1>1, <1>2, <2>1 DEF ComeAround, TypeOK
<1>3. CASE Skip(n, rest)
  BY <1>1, <1>3 DEF Skip, TypeOK
<1>4. CASE Open(n, rest)
  <2>1. stack' \in Seq(Nodes)
    BY <1>1, <1>4, AppendProperties DEF Open, TypeOK
  <2>2. Len(stack') <= Size
    <3>1. \A i, j \in DOMAIN stack' : stack'[i] = stack'[j] => i = j
      BY <1>4, OpenStep DEF WalkInv, StackInv
    <3> QED BY <2>1, <3>1, NotDeep
  <2>3. left' \in [Nodes -> SUBSET Nodes]
    BY <1>1, <1>4, Followers DEF Open
  <2> QED BY <1>1, <1>4, <2>1, <2>2, <2>3 DEF Open, TypeOK
<1> QED BY <1>2, <1>3, <1>4 DEF Walk

(* All that follows the top is done when nothing is left of it, so it is   *)
(* on no cycle itself.                                                     *)
LEMMA LeaveStep ==
  ASSUME TypeOK, WalkInv, Leave
  PROVE  WalkInv'
<1> DEFINE size == Len(stack)
<1>1. /\ size \in Nat \ {0} /\ DOMAIN stack = 1..size /\ Top \in Nodes /\ Top = stack[size]
      /\ DOMAIN stack' = 1..size - 1 /\ \A i \in 1..size - 1 : stack'[i] = stack[i]
  BY TheTop DEF Leave
<1>2. mark' = [mark EXCEPT ![Top] = "done"] /\ left' = left /\ edges' = edges /\ left[Top] = {}
  BY DEF Leave, Marked
<1>3. Top \in OpenNodes /\ \A i \in 1..size : stack[i] \in OpenNodes
  BY <1>1 DEF WalkInv, StackInv
<1>4. OpenNodes' = OpenNodes \ {Top} /\ DoneNodes' = DoneNodes \cup {Top} /\ Top \notin DoneNodes
  BY <1>1, <1>2, <1>3 DEF OpenNodes, DoneNodes, TypeOK
<1> HIDE DEF size
<1>5. \A i \in 1..size : stack[i] = Top => i = size
  BY <1>1 DEF WalkInv, StackInv
<1>6. StackInv'
  <2>1. \A i \in 1..size - 1 : i \in 1..size /\ i # size
    BY <1>1
  <2>2. \A i \in DOMAIN stack' : stack'[i] \in OpenNodes'
    BY <1>1, <1>3, <1>4, <1>5, <2>1
  <2>3. ASSUME NEW m \in OpenNodes' PROVE \E i \in DOMAIN stack' : stack'[i] = m
    <3>1. PICK i \in 1..size : stack[i] = m
      BY <1>1, <1>4 DEF WalkInv, StackInv
    <3>2. i \in 1..size - 1
      BY <1>1, <1>4, <3>1
    <3> QED BY <1>1, <3>1, <3>2
  <2>4. \A i, j \in DOMAIN stack' : stack'[i] = stack'[j] => i = j
    BY <1>1, <2>1 DEF WalkInv, StackInv
  <2>5. \A i \in DOMAIN stack' : i + 1 \in DOMAIN stack' => <<stack'[i], stack'[i + 1]>> \in edges
    BY <1>1, <2>1 DEF WalkInv, StackInv
  <2>6. \A i \in DOMAIN stack' : left[stack'[i]] \subseteq Successors({stack'[i]}, edges)
    BY <1>1, <2>1 DEF WalkInv, StackInv
  <2> QED BY <1>2, <2>2, <2>3, <2>4, <2>5, <2>6 DEF StackInv
<1>7. LeftInv'
  <2> SUFFICES ASSUME NEW i \in DOMAIN stack', NEW e \in edges, e[1] = stack'[i],
                      e[2] \notin DoneNodes, e[2] # Top,
                      ~(i + 1 \in DOMAIN stack' /\ stack'[i + 1] = e[2])
               PROVE  e[2] \in left[stack'[i]]
    BY <1>2, <1>4 DEF LeftInv
  <2>1. i \in 1..size /\ i + 1 \in 1..size /\ stack'[i] = stack[i]
    BY <1>1
  <2>2. stack[i + 1] # e[2]
    <3>1. CASE i + 1 = size
      BY <1>1, <3>1
    <3>2. CASE i + 1 # size
      BY <1>1, <2>1, <3>2
    <3> QED BY <3>1, <3>2
  <2> QED BY <1>1, <2>1, <2>2 DEF WalkInv, LeftInv
<1>8. ASSUME NEW e \in edges, e[1] = Top PROVE e[2] \in DoneNodes
  <2>1. size \in DOMAIN stack /\ size + 1 \notin DOMAIN stack
    BY <1>1
  <2> QED BY <1>1, <1>2, <1>8, <2>1 DEF WalkInv, LeftInv
<1>9. Successors(DoneNodes \cup {Top}, edges) \subseteq DoneNodes
  BY <1>8 DEF WalkInv, DoneInv, Successors
<1>10. ~Reachable(Top, Top, edges)
  BY <1>4, <1>9, ReachedIsLeast
<1>11. DoneInv'
  BY <1>2, <1>4, <1>9, <1>10 DEF WalkInv, DoneInv
<1> QED BY <1>6, <1>7, <1>11 DEF WalkInv

(***************************************************************************)
(* The search as a whole.                                                  *)
(***************************************************************************)
LEMMA WalkStep ==
  ASSUME TypeOK, WalkInv, phase = "search", NEW n, NEW rest,
         Called(n, rest), Walk(n, rest), edges' = edges
  PROVE  /\ phase' = "search" => WalkInv'
         /\ phase' = "cycle" => CycleIsReal' /\ Cyclic(edges)
         /\ mark'[n] # "new" /\ \A m \in Nodes : mark[m] # "new" => mark'[m] # "new"
<1>1. CASE ComeAround(n, rest)
  BY <1>1, AroundStep DEF ComeAround, WalkInv
<1>2. CASE Skip(n, rest)
  BY <1>2, SkipStep DEF Skip
<1>3. CASE Open(n, rest)
  <2>1. n \in Nodes /\ mark' = [mark EXCEPT ![n] = "open"] /\ phase' = "search"
    BY <1>3 DEF Open, Called
  <2> QED BY <1>3, <2>1, OpenStep DEF TypeOK
<1> QED BY <1>1, <1>2, <1>3 DEF Walk

(* When all is done, no node is on a cycle.                                *)
LEMMA AllDone ==
  ASSUME TypeOK, StackInv, DoneInv, RootInv, stack = <<>>, root > Size
  PROVE  ~Cyclic(edges)
<1>1. \A n \in Nodes : n < root
  BY EdgesAssumption DEF Nodes, TypeOK
<1>2. DOMAIN stack = {}
  BY SMT
<1>3. \A n \in Nodes : n \in DoneNodes
  BY <1>1, <1>2 DEF StackInv, RootInv, OpenNodes, DoneNodes, TypeOK
<1>4. \A e \in edges : e[1] \in DoneNodes
  BY <1>3, AnEdge
<1> QED BY <1>4 DEF Cyclic, DoneInv

LEMMA InitInv == Init => IInv
<1> SUFFICES ASSUME Init PROVE IInv
  OBVIOUS
<1>1. TypeOK
  BY InitTypeOK
<1>2. DOMAIN stack = {} /\ OpenNodes = {} /\ DoneNodes = {} /\ \A n \in Nodes : ~(n < root)
  <2>1. DOMAIN stack = {}
    BY SMT DEF Init
  <2>2. \A n \in Nodes : mark[n] = "new"
    BY DEF Init
  <2>3. \A n \in Nodes : ~(n < root)
    BY EdgesAssumption DEF Init, Nodes
  <2> QED BY <2>1, <2>2, <2>3 DEF OpenNodes, DoneNodes
<1>3. SearchInv
  <2>1. StackInv /\ LeftInv
    BY <1>2 DEF StackInv, LeftInv
  <2>2. Successors({}, edges) = {}
    BY DEF Successors
  <2> QED BY <1>2, <2>1, <2>2 DEF SearchInv, DoneInv, RootInv
<1>4. AnswerInv /\ ReduceInv
  BY DEF Init, AnswerInv, ReduceInv
<1> QED BY <1>1, <1>3, <1>4 DEF IInv

(* While the search goes on, nothing of the reduction has begun.           *)
LEMMA SearchRest ==
  ASSUME IInv, phase = "search", phase' \in {"search", "cycle"}, UNCHANGED <<edges, reduceVars>>
  PROVE  ReduceInv'
BY DEF IInv, ReduceInv, reduceVars

LEMMA WalkRootStep ==
  ASSUME IInv, WalkRoot
  PROVE  IInv'
<1>1. TypeOK /\ WalkInv /\ RootInv
  BY DEF IInv, SearchInv, WalkInv, WalkRoot
<1>2. /\ phase = "search" /\ stack = <<>> /\ root <= Size /\ root' = root + 1
      /\ Walk(root, left) /\ edges' = edges /\ UNCHANGED reduceVars
  BY DEF WalkRoot
<1>3. Called(root, left)
  BY <1>1, <1>2, RootIsCalled
<1>4. /\ phase' = "search" => WalkInv'
      /\ phase' = "cycle" => CycleIsReal' /\ Cyclic(edges)
      /\ mark'[root] # "new" /\ \A m \in Nodes : mark[m] # "new" => mark'[m] # "new"
  BY <1>1, <1>2, <1>3, WalkStep
<1>5. /\ mark' \in [Nodes -> {"new", "open", "done"}] /\ left' \in [Nodes -> SUBSET Nodes]
      /\ stack' \in Seq(Nodes) /\ Len(stack') <= Size
      /\ path' \in Seq(Nodes) /\ phase' \in {"search", "cycle"}
  BY <1>1, <1>2, <1>3, WalkTypes
<1>6. root' \in 1..Size + 1
  BY <1>1, <1>2, EdgesAssumption DEF TypeOK
<1>7. TypeOK'
  BY <1>1, <1>2, <1>5, <1>6 DEF TypeOK, reduceVars
<1>8. RootInv'
  <2> SUFFICES ASSUME NEW n \in Nodes, n < root + 1 PROVE mark'[n] # "new"
    BY <1>2 DEF RootInv
  <2>1. n < root \/ n = root
    BY <1>1 DEF TypeOK, Nodes
  <2> QED BY <1>1, <1>4, <2>1 DEF RootInv
<1>9. SearchInv' /\ AnswerInv'
  BY <1>2, <1>4, <1>5, <1>8 DEF SearchInv, AnswerInv, WalkInv
<1> QED BY <1>2, <1>5, <1>7, <1>9, SearchRest DEF IInv

LEMMA WalkOnStep ==
  ASSUME IInv, WalkOn
  PROVE  IInv'
<1>1. TypeOK /\ WalkInv /\ RootInv
  BY DEF IInv, SearchInv, WalkInv, WalkOn
<1>2. /\ phase = "search" /\ stack # <<>> /\ root' = root
      /\ edges' = edges /\ UNCHANGED reduceVars
  BY DEF WalkOn
<1>3. PICK n \in left[Top] : Walk(n, [left EXCEPT ![Top] = @ \ {n}])
  BY DEF WalkOn
<1> DEFINE rest == [left EXCEPT ![Top] = @ \ {n}]
<1>4. Called(n, rest) /\ Walk(n, rest)
  BY <1>1, <1>2, <1>3, FollowerIsCalled DEF WalkInv
<1> HIDE DEF rest
<1>5. /\ phase' = "search" => WalkInv'
      /\ phase' = "cycle" => CycleIsReal' /\ Cyclic(edges)
      /\ \A m \in Nodes : mark[m] # "new" => mark'[m] # "new"
  BY <1>1, <1>2, <1>4, WalkStep
<1>6. /\ mark' \in [Nodes -> {"new", "open", "done"}] /\ left' \in [Nodes -> SUBSET Nodes]
      /\ stack' \in Seq(Nodes) /\ Len(stack') <= Size
      /\ path' \in Seq(Nodes) /\ phase' \in {"search", "cycle"}
  BY <1>1, <1>2, <1>4, WalkTypes
<1>7. TypeOK'
  BY <1>1, <1>2, <1>6 DEF TypeOK, reduceVars
<1>8. RootInv'
  BY <1>1, <1>2, <1>5 DEF RootInv
<1>9. SearchInv' /\ AnswerInv'
  BY <1>2, <1>5, <1>6, <1>8 DEF SearchInv, AnswerInv, WalkInv
<1> QED BY <1>2, <1>6, <1>7, <1>9, SearchRest DEF IInv

LEMMA LeaveHolds ==
  ASSUME IInv, Leave
  PROVE  IInv'
<1>1. TypeOK /\ WalkInv /\ RootInv
  BY DEF IInv, SearchInv, WalkInv, Leave
<1>2. /\ phase = "search" /\ phase' = "search" /\ stack # <<>> /\ mark' = [mark EXCEPT ![Top] = "done"]
      /\ stack' = SubSeq(stack, 1, Len(stack) - 1)
      /\ UNCHANGED <<edges, root, left, path, reduceVars>>
  BY DEF Leave, Marked
<1>3. Top \in Nodes /\ stack' \in Seq(Nodes) /\ Len(stack') <= Size
  <2>1. Len(stack) \in Nat /\ Len(stack) <= Size /\ Len(stack') = Len(stack) - 1
    BY <1>1, <1>2, TheTop DEF TypeOK
  <2>2. Len(stack') <= Size
    BY <2>1, EdgesAssumption
  <2> QED BY <1>1, <1>2, <2>2, TheTop
<1>4. TypeOK'
  BY <1>1, <1>2, <1>3 DEF TypeOK, reduceVars
<1>5. RootInv'
  BY <1>1, <1>2, <1>3 DEF RootInv, TypeOK
<1>6. SearchInv' /\ AnswerInv'
  BY <1>1, <1>2, <1>5, LeaveStep DEF SearchInv, AnswerInv, WalkInv
<1> QED BY <1>2, <1>4, <1>6, SearchRest DEF IInv

LEMMA NoneFoundStep ==
  ASSUME IInv, NoneFound
  PROVE  IInv'
<1>1. TypeOK /\ StackInv /\ DoneInv /\ RootInv /\ edge = None /\ kept = {}
  BY DEF IInv, SearchInv, ReduceInv, NoneFound
<1>2. /\ phase' = "reduce" /\ waiting' = edges
      /\ UNCHANGED <<edges, root, mark, left, stack, path, edge, work, seen, kept>>
  BY DEF NoneFound, searchVars
<1>3. ~Cyclic(edges)
  BY <1>1, AllDone DEF NoneFound
<1>4. TypeOK'
  BY <1>1, <1>2 DEF TypeOK
<1>5. ReduceInv'
  BY <1>1, <1>2 DEF ReduceInv, WorkInv, KeptInv
<1>6. SearchInv' /\ AnswerInv'
  BY <1>2, <1>3 DEF SearchInv, AnswerInv
<1> QED BY <1>4, <1>5, <1>6 DEF IInv

(***************************************************************************)
(* The reduction.                                                          *)
(***************************************************************************)
(* What follows a, or follows what is reached from a, is reached from a.   *)
LEMMA OneFurther ==
  ASSUME NEW E, NEW a, NEW n, n = a \/ Reachable(a, n, E), NEW x \in Successors({n}, E)
  PROVE  Reachable(a, x, E)
<1>1. PICK e \in E : e[1] = n /\ e[2] = x
  BY DEF Successors
<1>2. Reachable(n, x, E)
  BY <1>1, EdgeReaches
<1> QED BY <1>2, ReachesOn

(* The reduction leaves what find_cycle has left alone.                    *)
LEMMA ReduceRest ==
  ASSUME IInv, phase = "reduce", phase' \in {"reduce", "plan"}, UNCHANGED <<edges, searchVars>>
  PROVE  SearchInv' /\ AnswerInv'
BY DEF IInv, SearchInv, AnswerInv, searchVars

LEMMA TakeStep ==
  ASSUME IInv, Take
  PROVE  IInv'
<1>1. TypeOK /\ KeptInv /\ phase = "reduce" /\ edge = None
  BY DEF IInv, ReduceInv, Take
<1>2. PICK e \in waiting : edge' = e /\ waiting' = waiting \ {e} /\ work' = {e[1]} /\ seen' = {}
  BY DEF Take
<1>3. UNCHANGED <<edges, phase, searchVars, kept>>
  BY DEF Take
<1>4. e \in edges /\ e # None /\ e[1] \in Nodes
  BY <1>1, AnEdge DEF TypeOK
<1>5. TypeOK'
  BY <1>1, <1>2, <1>3, <1>4 DEF TypeOK, searchVars
<1>6. WorkInv'
  BY <1>2 DEF WorkInv, Successors
<1>7. KeptInv'
  <2>1. \A x \in edges : x # None
    BY <1>1, AnEdge
  <2> QED BY <1>1, <1>2, <1>3, <2>1 DEF KeptInv
<1>8. ReduceInv'
  BY <1>1, <1>3, <1>6, <1>7 DEF ReduceInv
<1> QED BY <1>1, <1>3, <1>5, <1>8, ReduceRest DEF IInv

(* Another way was found: the edge is superfluous.  Or the worklist moves  *)
(* on by a node.                                                           *)
LEMMA LookStep ==
  ASSUME IInv, Look
  PROVE  IInv'
<1>1. TypeOK /\ KeptInv /\ WorkInv /\ phase = "reduce" /\ edge # None /\ edge \in edges
  BY DEF IInv, ReduceInv, Look, TypeOK
<1> DEFINE Fresh(n) == Successors({n}, Others) \ seen
<1>2. PICK n \in work :
        IF edge[2] \in Fresh(n)
        THEN edge' = None /\ work' = {} /\ seen' = {}
        ELSE work' = Popped(n) \cup Fresh(n) /\ seen' = seen \cup Fresh(n) /\ UNCHANGED edge
  BY DEF Look
<1>3. UNCHANGED <<edges, phase, searchVars, waiting, kept>>
  BY DEF Look
<1>4. n = edge[1] \/ Reachable(edge[1], n, Others)
  BY <1>1 DEF WorkInv
<1>5. \A x \in Fresh(n) : Reachable(edge[1], x, Others)
  BY <1>4, OneFurther
<1>6. Fresh(n) \subseteq Nodes
  <2>1. \A e \in edges : e[2] \in Nodes
    BY <1>1, AnEdge
  <2> QED BY <2>1 DEF Successors, Others
<1>7. CASE edge[2] \in Fresh(n)
  <2>1. edge' = None /\ work' = {} /\ seen' = {}
    BY <1>2, <1>7
  <2>2. Reachable(edge[1], edge[2], edges \ {edge})
    BY <1>5, <1>7 DEF Others
  <2>3. KeptInv'
    <3>1. \A x \in edges : x # None
      BY <1>1, AnEdge
    <3> QED BY <1>1, <1>3, <2>1, <2>2, <3>1 DEF KeptInv
  <2>4. WorkInv'
    BY <2>1 DEF WorkInv
  <2>5. TypeOK'
    BY <1>1, <1>3, <2>1 DEF TypeOK, searchVars
  <2>6. ReduceInv'
    BY <1>1, <1>3, <2>3, <2>4 DEF ReduceInv
  <2> QED BY <1>1, <1>3, <2>5, <2>6, ReduceRest DEF IInv
<1>8. CASE edge[2] \notin Fresh(n)
  <2>1. work' = (work \ {n}) \cup Fresh(n) /\ seen' = seen \cup Fresh(n) /\ edge' = edge
    BY <1>2, <1>8 DEF Popped
  <2>2. Others' = Others
    BY <1>3, <2>1 DEF Others
  <2>3. Successors((seen' \cup {edge[1]}) \ work', Others) \subseteq seen'
    <3> SUFFICES ASSUME NEW e \in Others, e[1] \in seen' \cup {edge[1]}, e[1] \notin work'
                 PROVE  e[2] \in seen'
      BY DEF Successors
    <3>1. CASE e[1] = n
      <4>1. e[2] \in Successors({n}, Others)
        BY <3>1 DEF Successors
      <4> QED BY <2>1, <4>1
    <3>2. CASE e[1] # n
      <4>1. e[1] \in (seen \cup {edge[1]}) \ work
        BY <2>1, <3>2
      <4>2. e[2] \in Successors((seen \cup {edge[1]}) \ work, Others)
        BY <4>1 DEF Successors
      <4> QED BY <1>1, <2>1, <4>2 DEF WorkInv
    <3> QED BY <3>1, <3>2
  <2> HIDE DEF Fresh
  <2>4. WorkInv'
    <3>1. edge \notin waiting' /\ edge[2] \notin seen' /\ work' \subseteq seen' \cup {edge[1]}
      BY <1>1, <1>3, <1>8, <2>1 DEF WorkInv
    <3>2. \A x \in seen' : Reachable(edge[1], x, Others)
      BY <1>1, <1>5, <2>1 DEF WorkInv
    <3> QED BY <2>1, <2>2, <2>3, <3>1, <3>2 DEF WorkInv
  <2>5. KeptInv'
    BY <1>1, <1>3, <2>1 DEF KeptInv
  <2>6. TypeOK'
    BY <1>1, <1>3, <1>6, <2>1 DEF TypeOK, searchVars
  <2>7. ReduceInv'
    BY <1>1, <1>3, <2>4, <2>5 DEF ReduceInv
  <2> QED BY <1>1, <1>3, <2>6, <2>7, ReduceRest DEF IInv
<1> QED BY <1>7, <1>8

(* The worklist has run out: all that is reached was seen.                 *)
LEMMA KeepEdgeStep ==
  ASSUME IInv, KeepEdge
  PROVE  IInv'
<1>1. /\ TypeOK /\ KeptInv /\ WorkInv /\ phase = "reduce"
      /\ edge # None /\ edge \in edges /\ work = {}
  BY DEF IInv, ReduceInv, KeepEdge, TypeOK
<1>2. /\ kept' = kept \cup {edge} /\ edge' = None /\ seen' = {}
      /\ UNCHANGED <<edges, phase, searchVars, waiting, work>>
  BY DEF KeepEdge
<1>3. ~Reachable(edge[1], edge[2], edges \ {edge})
  <2>1. Successors(seen \cup {edge[1]}, Others) \subseteq seen /\ edge[2] \notin seen
    BY <1>1 DEF WorkInv
  <2> QED BY <2>1, ReachedIsLeast DEF Others
<1>4. KeptInv'
  <2>1. \A x \in edges : x # None
    BY <1>1, AnEdge
  <2>2. edge \in edges \ waiting
    BY <1>1 DEF WorkInv
  <2> QED BY <1>1, <1>2, <1>3, <2>1, <2>2 DEF KeptInv
<1>5. WorkInv'
  BY <1>2 DEF WorkInv
<1>6. TypeOK'
  BY <1>1, <1>2 DEF TypeOK, searchVars
<1>7. ReduceInv'
  BY <1>1, <1>2, <1>4, <1>5 DEF ReduceInv
<1> QED BY <1>1, <1>2, <1>6, <1>7, ReduceRest DEF IInv

LEMMA NoneWaitsStep ==
  ASSUME IInv, NoneWaits
  PROVE  IInv'
<1>1. TypeOK /\ KeptInv /\ phase = "reduce" /\ edge = None /\ waiting = {}
  BY DEF IInv, ReduceInv, NoneWaits
<1>2. phase' = "plan" /\ UNCHANGED <<edges, searchVars, reduceVars>>
  BY DEF NoneWaits
<1>3. kept = Reduce(edges)
  <2>1. \A x \in edges : x # None
    BY <1>1, AnEdge
  <2> QED BY <1>1, <2>1 DEF KeptInv, Reduce
<1>4. TypeOK'
  BY <1>1, <1>2 DEF TypeOK, searchVars, reduceVars
<1>5. ReduceInv'
  BY <1>2, <1>3 DEF ReduceInv, reduceVars
<1> QED BY <1>1, <1>2, <1>4, <1>5, ReduceRest DEF IInv

LEMMA StutterStep ==
  ASSUME IInv, UNCHANGED vars
  PROVE  IInv'
<1>1. UNCHANGED <<edges, phase, root, mark, left, stack, path, waiting, edge, work, seen, kept>>
  BY DEF vars, searchVars, reduceVars
<1>2. TypeOK'
  BY <1>1 DEF IInv, TypeOK
<1>3. SearchInv'
  <2>1. OpenNodes' = OpenNodes /\ DoneNodes' = DoneNodes
    BY <1>1 DEF OpenNodes, DoneNodes
  <2>2. StackInv' = StackInv /\ LeftInv' = LeftInv /\ DoneInv' = DoneInv /\ RootInv' = RootInv
    BY <1>1, <2>1 DEF StackInv, LeftInv, DoneInv, RootInv
  <2> QED BY <1>1, <2>2 DEF IInv, SearchInv
<1>4. AnswerInv'
  BY <1>1 DEF IInv, AnswerInv, CycleIsReal
<1>5. ReduceInv'
  BY <1>1 DEF IInv, ReduceInv, WorkInv, KeptInv, Others
<1> QED BY <1>2, <1>3, <1>4, <1>5 DEF IInv

LEMMA Invariance == Spec => []IInv
<1>1. IInv /\ [Next]_vars => IInv'
  BY WalkRootStep, WalkOnStep, LeaveHolds, NoneFoundStep, TakeStep, LookStep, KeepEdgeStep,
     NoneWaitsStep, StutterStep DEF Next
<1> QED BY <1>1, InitInv, PTL DEF Spec

(***************************************************************************)
(* What it comes to.                                                       *)
(***************************************************************************)
(* Every variable of the two searches keeps its type, and walk() never     *)
(* calls itself more often than there are nodes: find_cycle and reduce of  *)
(* compiler.rs.                                                            *)
THEOREM SearchesTypeOK == Spec => []TypeOK
BY Invariance, PTL DEF IInv

(* What find_cycle reports is a cycle of the plan, told from its one end   *)
(* to the other.                                                           *)
THEOREM ReportedCyclesAreReal == Spec => []CycleIsReal
<1>1. IInv => CycleIsReal
  BY DEF IInv, AnswerInv, CycleIsReal
<1> QED BY <1>1, Invariance, PTL

(* What reduce leaves of edges that find_cycle let through joins nodes of  *)
(* the plan and never leads back: Scheduler.tla's PlanAssumption.          *)
THEOREM PlansCanBeRun == Spec => []PlanCanBeRun
<1>1. IInv => PlanCanBeRun
  <2> SUFFICES ASSUME IInv, phase = "plan" PROVE
        /\ kept \subseteq Nodes \X Nodes
        /\ \E rank \in [Nodes -> Nodes] : \A e \in kept : rank[e[1]] < rank[e[2]]
    BY DEF PlanCanBeRun
  <2>1. edges \subseteq Nodes \X Nodes /\ ~Cyclic(edges) /\ kept = Reduce(edges)
    BY DEF IInv, TypeOK, AnswerInv, ReduceInv
  <2>2. Size \in Nat
    BY EdgesAssumption
  <2>3. IsFiniteSet(Nodes) /\ Cardinality(Nodes) = Size
    BY <2>2, FS_Interval DEF Nodes
  <2>4. 1..Cardinality(Nodes) = Nodes
    BY <2>3 DEF Nodes
  <2> QED BY <2>1, <2>3, <2>4, KeptPlansCanBeRun
<1> QED BY <1>1, Invariance, PTL

LEMMA SameReach ==
  ASSUME NEW a, NEW b, NEW E
  PROVE  Promise!Reachable(a, b, E) <=> Reachable(a, b, E)
BY DEF Promise!Reachable, Promise!ReachedFrom, Promise!Successors, Reachable, ReachedFrom, Successors

(* The two searches together do what compile() promises: every step of     *)
(* theirs is a step of PlanOrder, or none.                                 *)
THEOREM SearchesKeepTheOrder == Spec => KeepsTheOrder
<1>1. Init => Promise!Start
  BY DEF Init, Promise!Start, Promise!Dedupe, Dedupe
<1>2. ASSUME IInv, IInv', [Next]_vars
      PROVE  [Promise!Decide]_(Promise!order)
  <2>1. CASE WalkRoot \/ WalkOn
    <3>1. phase = "search" /\ edges' = edges
      BY <2>1 DEF WalkRoot, WalkOn
    <3>2. phase' \in {"search", "cycle"}
      BY <2>1, <3>1 DEF WalkRoot, WalkOn, Walk, ComeAround, Skip, Open
    <3>3. CASE phase' = "search"
      BY <3>1, <3>3 DEF Promise!order
    <3>4. CASE phase' = "cycle"
      <4>1. Promise!Cyclic(edges)
        BY <1>2, <3>1, <3>4, SameReach DEF IInv, AnswerInv, Cyclic, Promise!Cyclic
      <4>2. Promise!TurnDown
        BY <3>1, <3>4, <4>1 DEF Promise!TurnDown
      <4> QED BY <4>2 DEF Promise!Decide
    <3> QED BY <3>2, <3>3, <3>4
  <2>2. CASE Leave \/ NoneFound \/ Take \/ Look \/ KeepEdge
    <3>1. phase \in {"search", "reduce"} /\ phase' \in {"search", "reduce"} /\ edges' = edges
      BY <2>2 DEF Leave, NoneFound, Take, Look, KeepEdge
    <3> QED BY <3>1 DEF Promise!order
  <2>3. CASE NoneWaits
    <3>1. phase = "reduce" /\ phase' = "plan" /\ edges' = edges /\ kept' = kept
      BY <2>3 DEF NoneWaits, reduceVars
    <3>2. edges \subseteq Nodes \X Nodes /\ ~Cyclic(edges) /\ kept = Reduce(edges)
      BY <1>2, <3>1 DEF IInv, TypeOK, AnswerInv, ReduceInv
    <3>3. IsFiniteSet(Nodes)
      BY EdgesAssumption, FS_Interval DEF Nodes
    <3>4. ~Promise!Cyclic(edges)
      BY <3>2, SameReach DEF Cyclic, Promise!Cyclic
    <3>5. Promise!SameOrder(edges, kept)
      <4>1. \A x, y : Reachable(x, y, kept) <=> Reachable(x, y, edges)
        BY <3>2, <3>3, ReductionKeepsTheOrder
      <4> QED BY <4>1, SameReach DEF Promise!SameOrder
    <3>6. \A e \in kept : ~Promise!Superfluous(e, kept)
      BY <3>2, ReductionIsLeast, SameReach DEF Promise!Superfluous
    <3>7. kept \in SUBSET edges
      BY <3>2 DEF Reduce
    <3>8. Promise!Keep
      BY <3>1, <3>4, <3>5, <3>6, <3>7 DEF Promise!Keep
    <3> QED BY <3>8 DEF Promise!Decide
  <2>4. CASE UNCHANGED vars
    BY <2>4 DEF vars, reduceVars, Promise!order
  <2> QED BY <1>2, <2>1, <2>2, <2>3, <2>4 DEF Next
<1> QED BY <1>1, <1>2, Invariance, PTL DEF Spec, KeepsTheOrder, Promise!Spec

(***************************************************************************)
(* What compile() promises (PlanBuild), and what follows from it.          *)
(***************************************************************************)
(* Every node comes after what it needs, and what its arguments refer to   *)
(* is among that.                                                          *)
GrownInv ==
  /\ Len(nodes) \in Nat /\ DOMAIN nodes = 1..Len(nodes)
  /\ deps \subseteq (DOMAIN nodes) \X (DOMAIN nodes) /\ \A e \in deps : e[1] < e[2]
  /\ \A n \in DOMAIN nodes : \A m \in RefersTo(nodes[n]) : <<m, n>> \in deps

VerdictInv ==
  /\ verdict = "none" => Before(order) = Before(Demanded)
  /\ verdict = "cycle" => Cyclic(Demanded)

LEMMA GrowStep ==
  ASSUME GrownInv, Grow
  PROVE  GrownInv'
<1> DEFINE Added == DOMAIN nodes' \ DOMAIN nodes
<1>1. /\ Len(nodes') \in Nat /\ DOMAIN nodes' = 1..Len(nodes')
      /\ DOMAIN nodes \subseteq DOMAIN nodes' /\ \A n \in DOMAIN nodes : nodes'[n] = nodes[n]
      /\ deps \subseteq deps'
      /\ \A e \in deps' \ deps : e \in (DOMAIN nodes') \X Added /\ e[1] < e[2]
      /\ \A n \in Added : \A m \in RefersTo(nodes'[n]) : <<m, n>> \in deps'
  BY DEF Grow
<1>2. deps' \subseteq (DOMAIN nodes') \X (DOMAIN nodes') /\ \A e \in deps' : e[1] < e[2]
  <2> SUFFICES ASSUME NEW e \in deps'
               PROVE  e \in (DOMAIN nodes') \X (DOMAIN nodes') /\ e[1] < e[2]
    OBVIOUS
  <2>1. CASE e \in deps
    BY <1>1, <2>1 DEF GrownInv
  <2>2. CASE e \notin deps
    BY <1>1, <2>2
  <2> QED BY <2>1, <2>2
<1>3. ASSUME NEW n \in DOMAIN nodes', NEW m \in RefersTo(nodes'[n])
      PROVE  <<m, n>> \in deps'
  <2>1. CASE n \in DOMAIN nodes
    <3>1. nodes'[n] = nodes[n]
      BY <1>1, <2>1
    <3>2. m \in RefersTo(nodes[n])
      BY <1>3, <3>1
    <3>3. <<m, n>> \in deps
      BY <2>1, <3>2 DEF GrownInv
    <3> QED BY <1>1, <3>3
  <2>2. CASE n \notin DOMAIN nodes
    BY <1>1, <1>3, <2>2
  <2> QED BY <2>1, <2>2
<1> QED BY <1>1, <1>2, <1>3 DEF GrownInv

LEMMA BuildInvariance == BuildSpec => [](GrownInv /\ VerdictInv)
<1>1. Blank => GrownInv /\ VerdictInv
  <2> SUFFICES ASSUME Blank PROVE GrownInv /\ VerdictInv
    OBVIOUS
  <2>1. nodes = <<>> /\ deps = {} /\ verdict = "compiling"
    BY DEF Blank
  <2>2. Len(nodes) = 0 /\ DOMAIN nodes = {} /\ 1..0 = {}
    BY <2>1
  <2> QED BY <2>1, <2>2 DEF GrownInv, VerdictInv
<1>2. ASSUME GrownInv, VerdictInv, [Proceed]_build
      PROVE  GrownInv' /\ VerdictInv'
  <2>1. CASE Grow
    <3>1. verdict' = "compiling"
      BY <2>1 DEF Grow
    <3> QED BY <1>2, <2>1, <3>1, GrowStep DEF VerdictInv
  <2>2. CASE GiveUp \/ Reject \/ Return \/ UNCHANGED build
    <3>1. nodes' = nodes /\ deps' = deps
      BY <2>2 DEF GiveUp, Reject, Return, build
    <3>2. Demanded' = Demanded /\ GrownInv'
      BY <1>2, <3>1 DEF Demanded, GrownInv
    <3>3. \A E : Before(E)' = Before(E)
      BY <3>1 DEF Before
    <3>4. CASE GiveUp \/ Reject
      BY <3>2, <3>4 DEF GiveUp, Reject, VerdictInv
    <3>5. CASE Return
      <4>1. verdict' = "none" /\ Before(order') = Before(Demanded)
        BY <3>5 DEF Return
      <4>2. Before(order)' = Before(Demanded)'
        BY <3>1, <3>2, <4>1 DEF Before
      <4> QED BY <3>2, <4>1, <4>2 DEF VerdictInv
    <3>6. CASE UNCHANGED build
      <4>1. order' = order /\ verdict' = verdict
        BY <3>6 DEF build
      <4>2. Before(order)' = Before(order) /\ Before(Demanded)' = Before(Demanded)
        BY <3>1, <3>2, <4>1 DEF Before
      <4> QED BY <1>2, <3>2, <4>1, <4>2 DEF VerdictInv
    <3> QED BY <2>2, <3>4, <3>5, <3>6
  <2> QED BY <1>2, <2>1, <2>2 DEF Proceed
<1> QED BY <1>1, <1>2, PTL DEF BuildSpec

(* An edge that is demanded puts its one end before its other.             *)
LEMMA DemandedIsOrdered ==
  ASSUME GrownInv, VerdictInv, verdict = "none",
         NEW i \in DOMAIN nodes, NEW j \in DOMAIN nodes, <<i, j>> \in Demanded
  PROVE  <<i, j>> \in Before(order)
<1>1. Reachable(i, j, Demanded)
  BY EdgeReaches
<1>2. <<i, j>> \in Before(Demanded)
  BY <1>1 DEF Before, Reachable
<1> QED BY <1>2 DEF VerdictInv

(* However many nodes compile() makes of whatever wants, the data decides  *)
(* their order.                                                            *)
THEOREM DataDecides == BuildSpec => []DataDecidesTheOrder
<1> SUFFICES ASSUME GrownInv, VerdictInv, verdict = "none" PROVE DataDecidesTheOrder
  BY BuildInvariance, PTL DEF DataDecidesTheOrder
<1> DEFINE B == Before(order)
<1> SUFFICES ASSUME NEW i \in DOMAIN nodes, NEW j \in DOMAIN nodes, i # j
             PROVE  LET a == nodes[i] b == nodes[j] IN
      /\ AnyConflict(a.writes, b.reads \cup b.writes) => <<i, j>> \in B \/ <<j, i>> \in B
      /\ AnyConflict(a.writes, b.reads) /\ ~AnyConflict(b.writes, a.reads \cup a.writes)
           => <<i, j>> \in B
      /\ AnyConflict(a.writes, b.writes) /\ b.op \in a.before /\ a.op \notin b.before
           => <<i, j>> \in B
  BY DEF DataDecidesTheOrder
<1> HIDE DEF B
<1>1. Len(nodes) \in Nat /\ DOMAIN nodes = 1..Len(nodes)
  BY DEF GrownInv
<1>2. /\ <<i, j>> \in FootprintEdges(nodes) => <<i, j>> \in B
      /\ <<j, i>> \in FootprintEdges(nodes) => <<j, i>> \in B
  BY DemandedIsOrdered DEF B, Demanded, Dedupe
<1>3. AnyConflict(nodes[i].writes, nodes[j].reads \cup nodes[j].writes)
        => <<i, j>> \in B \/ <<j, i>> \in B
  BY <1>1, <1>2, ConflictsAreOrdered
<1>4. AnyConflict(nodes[i].writes, nodes[j].reads)
        /\ ~AnyConflict(nodes[j].writes, nodes[i].reads \cup nodes[i].writes)
        => <<i, j>> \in B
  BY <1>1, <1>2, WritersPrecedeReaders
<1>5. AnyConflict(nodes[i].writes, nodes[j].writes)
        /\ nodes[j].op \in nodes[i].before /\ nodes[i].op \notin nodes[j].before
        => <<i, j>> \in B
  BY <1>1, <1>2, DeclaredWritersGoFirst
<1> QED BY <1>3, <1>4, <1>5

(* And what a node's arguments refer to is before it: the engine's         *)
(* resolve_arg always finds an output.                                     *)
THEOREM PlansResolve == BuildSpec => []ReferencesResolve
<1> SUFFICES ASSUME GrownInv, VerdictInv, verdict = "none" PROVE ReferencesResolve
  BY BuildInvariance, PTL DEF ReferencesResolve
<1> SUFFICES ASSUME NEW j \in DOMAIN nodes, NEW i \in RefersTo(nodes[j])
             PROVE  <<i, j>> \in Before(order)
  BY DEF ReferencesResolve
<1>1. <<i, j>> \in deps
  BY DEF GrownInv
<1>2. i \in DOMAIN nodes /\ i < j /\ i \in Nat /\ j \in Nat
  BY <1>1 DEF GrownInv
<1>3. <<i, j>> \in Demanded
  BY <1>1, <1>2 DEF Demanded, Dedupe
<1> QED BY <1>2, <1>3, DemandedIsOrdered

(* Wants that compile() turns down as a cycle ask for two things of which  *)
(* the data wants the later first: dependencies alone only ever lead       *)
(* from earlier nodes to later ones.                                       *)
THEOREM OnlyDataMakesCycles == BuildSpec => []CyclesComeOfData
<1> SUFFICES ASSUME GrownInv, VerdictInv, verdict = "cycle" PROVE CyclesComeOfData
  BY BuildInvariance, PTL DEF CyclesComeOfData
<1> SUFFICES ASSUME \A i, j \in DOMAIN nodes :
                      i < j /\ Touching(nodes[i], nodes[j]) => ~SecondFirst(nodes[i], nodes[j])
             PROVE  FALSE
  BY DEF CyclesComeOfData
<1> DEFINE V == DOMAIN nodes
           rank == [n \in V |-> n]
<1>1. Len(nodes) \in Nat /\ V = 1..Len(nodes)
  BY DEF GrownInv
<1>2. \A e \in FootprintEdges(nodes) : e \in V \X V /\ e[1] < e[2]
  BY DEF FootprintEdges
<1>3. Demanded \subseteq V \X V /\ \A e \in Demanded : e[1] < e[2]
  BY <1>2 DEF Demanded, Dedupe, GrownInv
<1>4. Ranked(V, Demanded, rank)
  <2>1. rank \in [V -> Nat]
    BY <1>1
  <2>2. ASSUME NEW e \in Demanded PROVE rank[e[1]] < rank[e[2]]
    BY <1>3
  <2> QED BY <1>3, <2>1, <2>2 DEF Ranked
<1>5. PICK e \in Demanded : Reachable(e[1], e[1], Demanded)
  BY DEF VerdictInv, Cyclic
<1>6. e[1] \in V /\ rank[e[1]] \in Nat
  BY <1>1, <1>3
<1> HIDE DEF rank, V
<1>7. rank[e[1]] < rank[e[1]]
  BY <1>4, <1>5, <1>6, RankGrows
<1> QED BY <1>6, <1>7
=============================================================================
