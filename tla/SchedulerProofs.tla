-------------------------- MODULE SchedulerProofs --------------------------
(***************************************************************************)
(* Theorems about the engine, for every plan without cycles, every choice  *)
(* of kinds, surfaces and pools, and every bound.                          *)
(***************************************************************************)
EXTENDS Scheduler, FiniteSetTheorems, WellFoundedInduction, TLAPS

(***************************************************************************)
(* The inductive invariant, part by part.                                  *)
(***************************************************************************)

(* What a lane's state says about its answer and its attempt counter.      *)
LaneInv ==
  \A n \in Nodes :
     /\ lane[n] = "replied" => res[n] \in Answers
     /\ lane[n] = "finished" => res[n] \in Results
     /\ lane[n] = "backoff" => try[n] < 2 * MaxAttempts
     /\ lane[n] = "glancing" => n \in Waits

(* The app changed once for each remembered key and not at all for a read. *)
DoorInv ==
  \A n \in Nodes :
     /\ n \in Keyed => effects[n] = IF n \in replay THEN 1 ELSE 0
     /\ effects[n] > 0 => n \in Writes

(* Every trace of success goes back to an effect.                          *)
HonestInv ==
  \A n \in Writes :
     \/ effects[n] > 0
     \/ /\ n \notin recOk \cup ledOk \cup known
        /\ ~(lane[n] = "replied" /\ res[n] = "ok")
        /\ ~(lane[n] = "finished" /\ res[n] = "ok")

(* The run's outputs, and the keyed rows, were all reported.               *)
KnownInv ==
  /\ outputs \cup ((recOk \cup ledOk) \cap Keyed) \subseteq known
  /\ \A n \in Nodes : lane[n] = "finished" /\ res[n] = "ok" => n \in known

(* Every keyed node the run saw succeed has its row, and the run has taken *)
(* over every node the ledger proves done.                                 *)
RowInv ==
  /\ outputs \cap Keyed \subseteq recOk \cup ledOk
  /\ \A n \in Keyed :
        lane[n] = "finished" /\ res[n] = "ok" => n \in recOk \cup ledOk
  /\ status = "running" => Completed \subseteq outputs

(* Whatever was started, landed or reported came after its predecessors.   *)
OrderInv ==
  \A n \in Nodes :
     n \in known \/ effects[n] > 0 \/ late[n] > 0 \/ lane[n] # "idle" \/ n \in ready
        => Preds(n) \subseteq known

(* The loop's bookkeeping: missing predecessors are counted exactly, ready *)
(* and spawned nodes miss none, and while nothing failed every node that   *)
(* misses none is ready, spawned or done.                                  *)
CountInv ==
  status = "running" =>
     /\ \A n \in Nodes \ outputs : indeg[n] = Cardinality(Preds(n) \ outputs)
     /\ \A n \in Nodes : n \in ready \/ lane[n] # "idle"
           => Preds(n) \subseteq outputs
     /\ \A n \in Nodes : n \in ready \/ lane[n] \in Spawned => n \notin outputs
     /\ \A n \in ready : lane[n] = "idle"
     /\ ~stopping => /\ outcome = "committed"
                     /\ \A n \in Nodes \ outputs :
                           Preds(n) \subseteq outputs
                              => n \in ready \/ lane[n] \in Spawned
     /\ stopping => outcome \in {"fork", "gate", "error"}

(* Between runs the lanes are still and the recorder is empty.             *)
RestInv ==
  /\ status = "down" => outputs = {} /\ \A n \in Nodes : lane[n] = "idle"
  /\ status # "running" => /\ recOk = {}
                           /\ ready = {}
                           /\ \A n \in Nodes : lane[n] \notin Spawned
  /\ status = "ended" /\ outcome = "committed" => outputs = Nodes
  /\ outcome # "incomplete"

IInv ==
  /\ TypeOK
  /\ LaneInv
  /\ DoorInv
  /\ HonestInv
  /\ KnownInv
  /\ RowInv
  /\ OrderInv
  /\ CountInv
  /\ RestInv
-----------------------------------------------------------------------------

(* Sets of predecessors are finite, and counting them tells whether any is *)
(* left.                                                                   *)
LEMMA PredsFinite ==
  ASSUME NEW n \in Nodes, NEW S
  PROVE  /\ IsFiniteSet(Preds(n) \ S)
         /\ Cardinality(Preds(n) \ S) \in Nat
         /\ Cardinality(Preds(n) \ S) = 0 <=> Preds(n) \subseteq S
<1>1. IsFiniteSet(Preds(n) \ S)
  BY PlanAssumption, FS_Subset DEF Preds, PlanAssumption
<1>2. Cardinality(Preds(n) \ S) \in Nat
  BY <1>1, FS_CardinalityType
<1>3. Cardinality(Preds(n) \ S) = 0 <=> Preds(n) \ S = {}
  BY <1>1, FS_EmptySet
<1>4. QED
  BY <1>1, <1>2, <1>3

(* A nonempty set of naturals has a least element.                         *)
LEMMA LeastNat ==
  ASSUME NEW T \in SUBSET Nat, T # {}
  PROVE  \E x \in T : \A y \in T : x <= y
<1> DEFINE Less == {p \in Nat \X Nat : p[1] < p[2]}
<1>1. IsWellFoundedOn(Less, Nat)
  <2>1. Less = OpToRel(<, Nat)
    BY DEF OpToRel
  <2>2. QED
    BY <2>1, NatLessThanWellFounded
<1>2. \A x, y \in Nat : y < x => <<y, x>> \in Less
  OBVIOUS
<1> HIDE DEF Less
<1>3. PICK x \in T : \A y \in T : ~ (<<y, x>> \in Less)
  BY <1>1, WFMin
<1>4. ASSUME NEW y \in T PROVE x <= y
  <2>1. x \in Nat /\ y \in Nat
    OBVIOUS
  <2>2. <<y, x>> \notin Less
    BY <1>3
  <2>3. ~(y < x)
    BY <1>2, <2>1, <2>2
  <2>4. QED
    BY <2>1, <2>3
<1>5. QED
  BY <1>4

(* On a plan without cycles, a set of nodes that leaves out only nodes     *)
(* with a predecessor left out leaves out nothing.                         *)
LEMMA NoOrphans ==
  ASSUME NEW S \in SUBSET Nodes, \A n \in Nodes \ S : ~ (Preds(n) \subseteq S)
  PROVE  S = Nodes
<1>1. PICK rank \in [Nodes -> 1..Cardinality(Nodes)] :
         \A e \in Edges : rank[e[1]] < rank[e[2]]
  BY PlanAssumption DEF PlanAssumption
<1>2. SUFFICES ASSUME S # Nodes PROVE FALSE
  OBVIOUS
<1> DEFINE T == {rank[n] : n \in Nodes \ S}
<1>3. T \in SUBSET Nat /\ T # {}
  BY <1>1, <1>2
<1>4. PICK x \in T : \A y \in T : x <= y
  BY <1>3, LeastNat
<1>5. PICK n \in Nodes \ S : x = rank[n]
  BY <1>4
<1>6. PICK m \in Nodes \ S : <<m, n>> \in Edges
  BY <1>5 DEF Preds
<1>7. rank[m] < rank[n] /\ rank[m] \in Nat /\ rank[n] \in Nat
  BY <1>1, <1>5, <1>6
<1>8. rank[n] <= rank[m]
  BY <1>4, <1>5, <1>6
<1>9. QED
  BY <1>7, <1>8

LEMMA InitIInv == Init => IInv
<1> SUFFICES ASSUME Init PROVE IInv
  OBVIOUS
<1>1. TypeOK
  <2>1. 0 \in 0..(2 * MaxAttempts) /\ 0 \in 0..MaxRuns /\ 0 \in 0..MaxCrashes
    BY BoundAssumption DEF BoundAssumption
  <2>2. QED
    BY <2>1 DEF Init, TypeOK, LaneStates, Outcomes
<1>2. LaneInv /\ DoorInv /\ HonestInv /\ KnownInv /\ RowInv
  BY KindAssumption
  DEF Init, LaneInv, DoorInv, HonestInv, KnownInv, RowInv, Completed, KindAssumption
<1>3. OrderInv /\ CountInv /\ RestInv
  BY DEF Init, OrderInv, CountInv, RestInv, Spawned, Holding
<1>4. QED
  BY <1>1, <1>2, <1>3 DEF IInv

(* A run starts from the keyed rows of the ledger.                         *)
LEMMA StartRunStep == ASSUME IInv, StartRun PROVE IInv'
<1> USE DEF IInv
<1>1. TypeOK'
  <2>1. indeg' \in [Nodes -> Nat]
    BY PredsFinite DEF StartRun, Missing
  <2>2. 0 \in 0..(2 * MaxAttempts) /\ runs' \in 0..MaxRuns
    BY BoundAssumption DEF BoundAssumption, StartRun, TypeOK
  <2>3. QED
    BY <2>1, <2>2 DEF TypeOK, StartRun, Completed, appVars, LaneStates, Outcomes
<1>2. LaneInv' /\ DoorInv' /\ HonestInv' /\ KnownInv' /\ RowInv'
  BY KindAssumption
  DEF StartRun, LaneInv, DoorInv, HonestInv, KnownInv, RowInv, appVars, Completed,
      KindAssumption
<1>3. \A n \in ready' : n \notin Completed /\ Preds(n) \subseteq Completed
  BY PredsFinite DEF StartRun, Missing
<1>4. OrderInv'
  BY <1>3 DEF OrderInv, KnownInv, StartRun, appVars, Completed
<1>5. CountInv'
  <2>1. \A n \in Nodes \ outputs' : indeg'[n] = Cardinality(Preds(n) \ outputs')
    BY DEF StartRun, Missing
  <2>2. \A n \in Nodes \ outputs' : Preds(n) \subseteq outputs' => n \in ready'
    BY PredsFinite DEF StartRun, Missing
  <2>3. QED
    BY <1>3, <2>1, <2>2 DEF CountInv, StartRun, Spawned, Holding
<1>6. RestInv'
  BY DEF RestInv, StartRun
<1>7. QED
  BY <1>1, <1>2, <1>4, <1>5, <1>6

LEMMA DispatchStep == ASSUME IInv, Dispatch PROVE IInv'
<1> USE DEF IInv
<1>1. TypeOK'
  BY DEF TypeOK, Dispatch, Spawn, recordVars, appVars, LaneStates, Results
<1>2. LaneInv' /\ DoorInv'
  BY DEF Dispatch, Spawn, LaneInv, DoorInv, appVars, recordVars, TypeOK, Results
<1>3. HonestInv' /\ KnownInv' /\ RowInv'
  BY KindAssumption
  DEF Dispatch, Spawn, HonestInv, KnownInv, RowInv, Completed, appVars, recordVars, TypeOK,
      KindAssumption
<1>4. OrderInv'
  BY DEF OrderInv, Dispatch, Spawn, appVars, recordVars, Gated, TypeOK
<1>5. CountInv'
  BY DEF CountInv, Dispatch, Spawn, Spawned, Holding, Gated, TypeOK
<1>6. RestInv'
  BY DEF RestInv, Dispatch, Spawn, CountInv
<1>7. QED
  BY <1>1, <1>2, <1>3, <1>4, <1>5, <1>6

LEMMA DiscardStep == ASSUME IInv, Discard PROVE IInv'
<1> USE DEF IInv, Discard, laneVars, recordVars, appVars
<1>1. TypeOK' /\ LaneInv' /\ DoorInv' /\ HonestInv' /\ KnownInv' /\ RowInv' /\ OrderInv'
  BY DEF TypeOK, LaneInv, DoorInv, HonestInv, KnownInv, RowInv, Completed, OrderInv
<1>2. CountInv' /\ RestInv'
  BY DEF CountInv, RestInv
<1>3. QED
  BY <1>1, <1>2

(* A completed node is taken off the count of each successor not yet done, *)
(* and nothing else misses it.                                             *)
LEMMA CountAfterComplete ==
  ASSUME IInv, status = "running", NEW n \in Nodes, n \notin outputs, Complete(n),
         NEW m \in Nodes \ outputs'
  PROVE  indeg'[m] = Cardinality(Preds(m) \ outputs')
<1> USE DEF Complete
<1>1. indeg[m] = Cardinality(Preds(m) \ outputs)
  BY DEF IInv, CountInv
<1>2. CASE n \in Preds(m)
  <2>1. m \in Blocked(n)
    BY <1>2 DEF Blocked, Preds, Succs
  <2>2. Preds(m) \ outputs' = (Preds(m) \ outputs) \ {n}
    OBVIOUS
  <2>3. n \in Preds(m) \ outputs /\ IsFiniteSet(Preds(m) \ outputs)
    BY <1>2, PredsFinite
  <2>4. Cardinality(Preds(m) \ outputs') = Cardinality(Preds(m) \ outputs) - 1
    BY <2>2, <2>3, FS_RemoveElement
  <2>5. indeg[m] \in Nat /\ indeg[m] > 0
    BY <1>1, <2>3, PredsFinite
  <2>6. QED
    BY <1>1, <2>1, <2>4, <2>5
<1>3. CASE n \notin Preds(m)
  <2>1. m \notin Blocked(n)
    BY <1>3 DEF Blocked, Preds, Succs
  <2>2. Preds(m) \ outputs' = Preds(m) \ outputs
    BY <1>3
  <2>3. QED
    BY <1>1, <2>1, <2>2
<1>4. QED
  BY <1>2, <1>3

LEMMA JoinOkCount ==
  ASSUME IInv, NEW n \in Nodes, Join(n), res[n] = "ok", Complete(n)
  PROVE  CountInv' /\ OrderInv'
<1> USE DEF IInv
<1>1. status = "running" /\ status' = "running" /\ ready = {}
  BY DEF Join
<1>2. n \notin outputs /\ Preds(n) \subseteq outputs
  BY <1>1 DEF CountInv, Join, Spawned
<1>3. \A m \in Nodes \ outputs' : indeg'[m] = Cardinality(Preds(m) \ outputs')
  BY <1>1, <1>2, CountAfterComplete
<1>4. ASSUME NEW m \in Nodes
      PROVE  m \in ready' <=> m \in Succs(n) \ outputs' /\ Preds(m) \subseteq outputs'
  <2>1. Blocked(n) = Succs(n) \ outputs'
    BY DEF Blocked, Complete
  <2>2. m \in ready' <=> m \in Succs(n) \ outputs' /\ indeg'[m] = 0
    BY <1>1, <2>1 DEF Complete, Succs
  <2>3. QED
    BY <1>3, <2>2, PredsFinite
<1>5. ready' \subseteq Nodes
  BY <1>1 DEF Complete, Blocked, Succs
<1>6. \A m \in ready' : lane[m] = "idle"
  BY <1>1, <1>2, <1>4, <1>5 DEF CountInv, Succs, Preds
<1>7. CountInv'
  <2>1. \A m \in Nodes : m \in ready' \/ lane'[m] # "idle" => Preds(m) \subseteq outputs'
    BY <1>1, <1>4 DEF CountInv, Join, Complete, TypeOK
  <2>2. \A m \in Nodes : m \in ready' \/ lane'[m] \in Spawned => m \notin outputs'
    BY <1>1, <1>4 DEF CountInv, Join, Complete, TypeOK, Spawned, Holding
  <2>3. \A m \in ready' : lane'[m] = "idle"
    BY <1>2, <1>5, <1>6, <1>4 DEF Join, TypeOK, Complete
  <2>4. ASSUME ~stopping, NEW m \in Nodes \ outputs', Preds(m) \subseteq outputs'
        PROVE  m \in ready' \/ lane'[m] \in Spawned
    <3>1. CASE n \in Preds(m)
      BY <1>4, <2>4, <3>1 DEF Succs, Preds
    <3>2. CASE n \notin Preds(m)
      <4>1. m # n /\ m \notin outputs /\ Preds(m) \subseteq outputs
        BY <2>4, <3>2 DEF Complete
      <4>2. lane[m] \in Spawned
        BY <1>1, <2>4, <4>1 DEF CountInv
      <4>3. QED
        BY <4>1, <4>2 DEF Join, TypeOK
    <3>3. QED
      BY <3>1, <3>2
  <2>5. stopping' = stopping /\ outcome' = outcome
    BY DEF Complete
  <2>6. QED
    BY <1>1, <1>3, <2>1, <2>2, <2>3, <2>4, <2>5 DEF CountInv
<1>8. OrderInv'
  <2>1. outputs' \subseteq known /\ known' = known
    BY DEF KnownInv, Join, Complete
  <2>2. \A m \in Nodes : lane'[m] # "idle" => lane[m] # "idle"
    BY DEF Join, TypeOK
  <2>3. QED
    BY <1>4, <2>1, <2>2 DEF OrderInv, Join, appVars
<1>9. QED
  BY <1>7, <1>8

LEMMA JoinStep == ASSUME IInv, NEW n \in Nodes, Join(n) PROVE IInv'
<1> USE DEF IInv, Success
<1>1. res[n] \in Results /\ n \notin outputs
  BY DEF Join, LaneInv, CountInv, Spawned
<1>2. TypeOK'
  <2>1. CASE res[n] = "ok" /\ Complete(n)
    <3>1. indeg' \in [Nodes -> Nat]
      BY <2>1 DEF TypeOK, Complete
    <3>2. QED
      BY <2>1, <3>1 DEF TypeOK, Join, Complete, Blocked, Succs, recordVars, appVars, LaneStates
  <2>2. CASE res[n] # "ok" /\ Stop(n)
    <3>1. outcome' \in Outcomes
      BY <1>1, <2>2 DEF TypeOK, Stop, OutcomeOf, Outcomes, Results
    <3>2. QED
      BY <2>2, <3>1 DEF TypeOK, Join, Stop, recordVars, appVars, LaneStates
  <2>3. QED
    BY <2>1, <2>2 DEF Join
<1>3. LaneInv' /\ DoorInv' /\ HonestInv'
  BY KindAssumption
  DEF Join, LaneInv, DoorInv, HonestInv, TypeOK, recordVars, appVars, KindAssumption
<1>4. KnownInv' /\ RowInv'
  BY DEF Join, Complete, Stop, KnownInv, RowInv, Completed, TypeOK, recordVars
<1>5. OrderInv' /\ CountInv'
  <2>1. CASE res[n] = "ok" /\ Complete(n)
    BY <2>1, JoinOkCount
  <2>2. CASE res[n] # "ok" /\ Stop(n)
    <3>1. OrderInv'
      BY <2>2 DEF Join, Stop, OrderInv, TypeOK, appVars
    <3>2. outcome' \in {"fork", "gate", "error"}
      BY <1>1, <2>2 DEF Join, Stop, OutcomeOf, CountInv, Results
    <3>3. CountInv'
      BY <2>2, <3>2 DEF Join, Stop, CountInv, TypeOK, Spawned, Holding
    <3>4. QED
      BY <3>1, <3>3
  <2>3. QED
    BY <2>1, <2>2 DEF Join
<1>6. RestInv'
  BY <1>5 DEF Join, RestInv, CountInv, TypeOK
<1>7. QED
  BY <1>2, <1>3, <1>4, <1>5, <1>6

LEMMA FinishStep == ASSUME IInv, Finish PROVE IInv'
<1> USE DEF IInv, Finish, Drain
<1>1. outcome = "committed" => outputs = Nodes
  <2>1. outcome = "committed" => ~stopping
    BY DEF CountInv, TypeOK
  <2>2. ~stopping => \A n \in Nodes \ outputs : ~ (Preds(n) \subseteq outputs)
    BY DEF CountInv
  <2>3. QED
    BY <2>1, <2>2, NoOrphans DEF TypeOK
<1>2. TypeOK'
  BY <1>1 DEF TypeOK, laneVars, appVars
<1>3. LaneInv' /\ DoorInv' /\ HonestInv' /\ KnownInv' /\ RowInv' /\ OrderInv'
  BY DEF LaneInv, DoorInv, HonestInv, KnownInv, RowInv, Completed, OrderInv, laneVars, appVars
<1>4. CountInv' /\ RestInv'
  BY <1>1 DEF CountInv, RestInv, laneVars, appVars
<1>5. QED
  BY <1>2, <1>3, <1>4

(* What a lane's own step leaves alone: the loop's state, so all that the  *)
(* loop's part of the invariant needs is that the lane stays spawned.      *)
LEMMA LaneKeepsLoop ==
  ASSUME IInv, UNCHANGED runVars, NEW n \in Nodes, status = "running",
         lane[n] \in Spawned, NEW st \in Spawned,
         lane' = [lane EXCEPT ![n] = st]
  PROVE  CountInv' /\ RestInv'
<1> USE DEF IInv, runVars
<1>1. \A m \in Nodes : /\ lane'[m] \in Spawned <=> lane[m] \in Spawned
                       /\ lane'[m] # "idle" <=> lane[m] # "idle"
  BY DEF TypeOK, Spawned, Holding
<1>2. CountInv'
  BY <1>1 DEF CountInv
<1>3. RestInv'
  BY DEF RestInv
<1>4. QED
  BY <1>2, <1>3

LEMMA NoEffectorStep == ASSUME IInv, NEW n \in Nodes, NoEffector(n) PROVE IInv'
<1> USE DEF IInv, NoEffector, Return, InFlight
<1>1. TypeOK'
  BY BoundAssumption
  DEF TypeOK, runVars, recordVars, appVars, LaneStates, Results, BoundAssumption
<1>2. LaneInv' /\ DoorInv' /\ HonestInv' /\ KnownInv' /\ RowInv'
  BY KindAssumption
  DEF LaneInv, DoorInv, HonestInv, KnownInv, RowInv, Completed, TypeOK, runVars, recordVars, appVars,
      Results, KindAssumption
<1>3. OrderInv'
  BY DEF OrderInv, TypeOK, runVars, appVars
<1>4. CountInv' /\ RestInv'
  BY LaneKeepsLoop DEF Spawned
<1>5. QED
  BY <1>1, <1>2, <1>3, <1>4

LEMMA WaitEndsStep == ASSUME IInv, NEW n \in Nodes, WaitEnds(n) PROVE IInv'
<1> USE DEF IInv, WaitEnds, Return, InFlight
<1>1. TypeOK'
  BY BoundAssumption
  DEF TypeOK, runVars, appVars, LaneStates, Results, BoundAssumption
<1>2. n \notin Writes
  BY KindAssumption DEF KindAssumption
<1>3. LaneInv' /\ DoorInv' /\ HonestInv' /\ KnownInv' /\ RowInv'
  BY <1>2, KindAssumption
  DEF LaneInv, DoorInv, HonestInv, KnownInv, RowInv, Completed, TypeOK, runVars, appVars, Results,
      KindAssumption
<1>4. OrderInv'
  BY DEF OrderInv, TypeOK, runVars, appVars
<1>5. CountInv' /\ RestInv'
  BY LaneKeepsLoop DEF Spawned
<1>6. QED
  BY <1>1, <1>3, <1>4, <1>5

LEMMA GlanceStep == ASSUME IInv, NEW n \in Nodes, Glance(n) PROVE IInv'
<1> USE DEF IInv, Glance, InFlight
<1>1. TypeOK'
  BY DEF TypeOK, runVars, recordVars, appVars, LaneStates
<1>2. LaneInv' /\ DoorInv' /\ HonestInv' /\ KnownInv' /\ RowInv'
  BY KindAssumption
  DEF LaneInv, DoorInv, HonestInv, KnownInv, RowInv, Completed, TypeOK, runVars,
      recordVars, appVars, KindAssumption
<1>3. OrderInv'
  BY DEF OrderInv, TypeOK, runVars, appVars
<1>4. CountInv' /\ RestInv'
  BY LaneKeepsLoop DEF Spawned
<1>5. QED
  BY <1>1, <1>2, <1>3, <1>4

LEMMA GlanceAnsweredStep ==
  ASSUME IInv, NEW n \in Nodes, GlanceAnswered(n) PROVE IInv'
<1> USE DEF IInv, GlanceAnswered, Return, InFlight
<1>1. TypeOK'
  BY BoundAssumption
  DEF TypeOK, runVars, appVars, LaneStates, Results, BoundAssumption
<1>2. n \notin Writes
  BY KindAssumption DEF LaneInv, KindAssumption
<1>3. LaneInv' /\ DoorInv' /\ HonestInv' /\ KnownInv' /\ RowInv'
  BY <1>2, KindAssumption
  DEF LaneInv, DoorInv, HonestInv, KnownInv, RowInv, Completed, TypeOK, runVars,
      appVars, Results, KindAssumption
<1>4. OrderInv'
  BY DEF OrderInv, TypeOK, runVars, appVars
<1>5. CountInv' /\ RestInv'
  BY LaneKeepsLoop DEF Spawned
<1>6. QED
  BY <1>1, <1>3, <1>4, <1>5

LEMMA AcquireStep == ASSUME IInv, NEW n \in Nodes, Acquire(n) PROVE IInv'
<1> USE DEF IInv, Acquire, InFlight
<1>1. TypeOK'
  <2>1. 1 \in 0..(2 * MaxAttempts)
    BY BoundAssumption DEF BoundAssumption
  <2>2. QED
    BY <2>1 DEF TypeOK, runVars, recordVars, appVars, LaneStates
<1>2. LaneInv' /\ DoorInv' /\ HonestInv' /\ KnownInv' /\ RowInv'
  BY KindAssumption
  DEF LaneInv, DoorInv, HonestInv, KnownInv, RowInv, Completed, TypeOK, runVars, recordVars, appVars,
      KindAssumption
<1>3. OrderInv'
  BY DEF OrderInv, TypeOK, runVars, appVars
<1>4. CountInv' /\ RestInv'
  BY LaneKeepsLoop DEF Spawned, Holding
<1>5. QED
  BY <1>1, <1>2, <1>3, <1>4

(* Retried or given up, the lane stays within its budget.                  *)
LEMMA RetryInv ==
  ASSUME IInv, NEW n \in Nodes, NEW r \in {"retryable", "throttled"},
         RetryOrGiveUp(n, r), lane[n] \in {"sent", "replied"}
  PROVE  /\ try' \in [Nodes -> 0..(2 * MaxAttempts)]
         /\ known' = known
         /\ \/ /\ lane' = [lane EXCEPT ![n] = "backoff"]
               /\ res' = [res EXCEPT ![n] = "none"]
               /\ try'[n] < 2 * MaxAttempts
               /\ \A m \in Nodes : try'[m] = try[m]
            \/ /\ lane' = [lane EXCEPT ![n] = "finished"]
               /\ res' = [res EXCEPT ![n] = "fatal"]
               /\ \A m \in Nodes \ {n} : try'[m] = try[m]
<1> USE DEF IInv, TypeOK
<1>1. Budget(r) <= 2 * MaxAttempts /\ 0 \in 0..(2 * MaxAttempts)
  BY BoundAssumption DEF Budget, BoundAssumption
<1>2. Budget(r) \in Int
  BY BoundAssumption DEF Budget, BoundAssumption
<1>3. CASE /\ try[n] < Budget(r)
           /\ lane' = [lane EXCEPT ![n] = "backoff"]
           /\ res' = [res EXCEPT ![n] = "none"]
           /\ UNCHANGED <<try, known>>
  <2>1. try[n] < 2 * MaxAttempts
    BY <1>1, <1>2, <1>3, BoundAssumption DEF BoundAssumption
  <2>2. QED
    BY <1>3, <2>1
<1>4. CASE try[n] >= Budget(r) /\ Return(n, "fatal")
  BY <1>1, <1>4 DEF Return
<1>5. QED
  BY <1>3, <1>4 DEF RetryOrGiveUp

(* An attempt that failed: nothing but the lane and the budget changes.    *)
LEMMA FailedAttempt ==
  ASSUME IInv, NEW n \in Nodes, NEW r \in {"retryable", "throttled"},
         RetryOrGiveUp(n, r), InFlight(n, {"sent", "replied"}),
         UNCHANGED <<runVars, recordVars, effects, replay>>,
         late' \in [Nodes -> Nat],
         \A m \in Nodes \ {n} : late'[m] = late[m]
  PROVE  IInv'
<1> USE DEF IInv, InFlight
<1>1. /\ try' \in [Nodes -> 0..(2 * MaxAttempts)]
      /\ known' = known
      /\ \/ /\ lane' = [lane EXCEPT ![n] = "backoff"]
            /\ res' = [res EXCEPT ![n] = "none"]
            /\ try'[n] < 2 * MaxAttempts
            /\ \A m \in Nodes : try'[m] = try[m]
         \/ /\ lane' = [lane EXCEPT ![n] = "finished"]
            /\ res' = [res EXCEPT ![n] = "fatal"]
            /\ \A m \in Nodes \ {n} : try'[m] = try[m]
  BY RetryInv
<1>2. TypeOK'
  BY <1>1 DEF TypeOK, runVars, recordVars, LaneStates, Results
<1>3. LaneInv'
  BY <1>1 DEF LaneInv, TypeOK, Results
<1>4. DoorInv' /\ HonestInv' /\ KnownInv' /\ RowInv'
  BY <1>1, KindAssumption
  DEF DoorInv, HonestInv, KnownInv, RowInv, Completed, TypeOK, runVars, recordVars, KindAssumption
<1>5. OrderInv'
  BY <1>1 DEF OrderInv, TypeOK, runVars
<1>6. CountInv' /\ RestInv'
  BY <1>1, LaneKeepsLoop DEF Spawned, Holding
<1>7. QED
  BY <1>2, <1>3, <1>4, <1>5, <1>6

LEMMA ReceiveOkStep == ASSUME IInv, NEW n \in Nodes, ReceiveOk(n) PROVE IInv'
<1> USE DEF IInv, ReceiveOk, Return, InFlight
<1>1. TypeOK'
  BY BoundAssumption
  DEF TypeOK, runVars, appVars, LaneStates, Results, BoundAssumption
<1>2. n \in Writes => n \notin Forkable /\ effects[n] > 0
  BY KindAssumption DEF HonestInv, KindAssumption
<1>3. LaneInv' /\ DoorInv'
  BY DEF LaneInv, DoorInv, TypeOK, runVars, appVars, Results
<1>4. HonestInv' /\ KnownInv' /\ RowInv'
  BY <1>2, KindAssumption
  DEF HonestInv, KnownInv, RowInv, Completed, TypeOK, runVars, appVars, KindAssumption
<1>5. OrderInv'
  BY DEF OrderInv, TypeOK, runVars, appVars
<1>6. CountInv' /\ RestInv'
  BY LaneKeepsLoop DEF Spawned, Holding
<1>7. QED
  BY <1>1, <1>3, <1>4, <1>5, <1>6

LEMMA ReceiveErrorStep == ASSUME IInv, NEW n \in Nodes, ReceiveError(n) PROVE IInv'
<1> USE DEF IInv
<1>1. lane[n] = "replied" /\ res[n] \in Answers \ {"ok"}
  BY DEF ReceiveError, InFlight, LaneInv
<1>2. CASE res[n] = "fatal" /\ Return(n, "fatal")
  <2> USE <1>2 DEF ReceiveError, Return, InFlight
  <2>1. TypeOK'
    BY BoundAssumption
    DEF TypeOK, runVars, recordVars, appVars, LaneStates, Results, BoundAssumption
  <2>2. LaneInv' /\ DoorInv' /\ HonestInv' /\ KnownInv' /\ RowInv'
    BY KindAssumption
    DEF LaneInv, DoorInv, HonestInv, KnownInv, RowInv, Completed, TypeOK, runVars, recordVars, appVars,
        Results, KindAssumption
  <2>3. OrderInv'
    BY DEF OrderInv, TypeOK, runVars, appVars
  <2>4. CountInv' /\ RestInv'
    BY LaneKeepsLoop DEF Spawned, Holding
  <2>5. QED
    BY <2>1, <2>2, <2>3, <2>4
<1>3. CASE res[n] # "fatal" /\ RetryOrGiveUp(n, res[n])
  <2>1. res[n] \in {"retryable", "throttled"}
    BY <1>1, <1>3 DEF Answers
  <2>2. InFlight(n, {"sent", "replied"})
    BY DEF ReceiveError, InFlight
  <2>3. UNCHANGED <<runVars, recordVars, effects, replay, late>>
    BY DEF ReceiveError, appVars
  <2>4. QED
    BY <1>3, <2>1, <2>2, <2>3, FailedAttempt DEF TypeOK
<1>4. QED
  BY <1>2, <1>3 DEF ReceiveError

LEMMA NoAnswerStep == ASSUME IInv, NEW n \in Nodes, NoAnswer(n) PROVE IInv'
<1>1. late' \in [Nodes -> Nat] /\ \A m \in Nodes \ {n} : late'[m] = late[m]
  BY DEF NoAnswer, IInv, TypeOK
<1>2. QED
  BY <1>1, FailedAttempt DEF NoAnswer

LEMMA ResendStep == ASSUME IInv, NEW n \in Nodes, Resend(n) PROVE IInv'
<1> USE DEF IInv, Resend, InFlight
<1>1. TypeOK'
  <2>1. try[n] + 1 \in 0..(2 * MaxAttempts)
    BY BoundAssumption DEF LaneInv, TypeOK, BoundAssumption
  <2>2. QED
    BY <2>1 DEF TypeOK, runVars, recordVars, appVars, LaneStates
<1>2. LaneInv' /\ DoorInv' /\ HonestInv' /\ KnownInv' /\ RowInv'
  BY KindAssumption
  DEF LaneInv, DoorInv, HonestInv, KnownInv, RowInv, Completed, TypeOK, runVars, recordVars, appVars,
      KindAssumption
<1>3. OrderInv'
  BY DEF OrderInv, TypeOK, runVars, appVars
<1>4. CountInv' /\ RestInv'
  BY LaneKeepsLoop DEF Spawned, Holding
<1>5. QED
  BY <1>1, <1>2, <1>3, <1>4

(* Landing changes the app only for a write whose predecessors are known,  *)
(* and keeps replay table and effects in step.                             *)
LEMMA LandInv ==
  ASSUME IInv, NEW n \in Nodes, Land(n)
  PROVE  /\ effects' \in [Nodes -> Nat] /\ replay' \subseteq Keyed
         /\ DoorInv'
         /\ \A m \in Nodes : effects[m] > 0 => effects'[m] > 0
         /\ \A m \in Nodes \ {n} : effects'[m] = effects[m]
         /\ n \in Writes => effects'[n] > 0
<1> USE KindAssumption DEF IInv, TypeOK, DoorInv, KindAssumption
<1>1. CASE n \in replay \/ n \notin Writes
  BY <1>1 DEF Land
<1>2. CASE ~(n \in replay \/ n \notin Writes)
  BY <1>2 DEF Land
<1>3. QED
  BY <1>1, <1>2

LEMMA ServeStep == ASSUME IInv, NEW n \in Nodes, Serve(n) PROVE IInv'
<1> USE DEF IInv, Serve, InFlight
<1>1. /\ effects' \in [Nodes -> Nat] /\ replay' \subseteq Keyed
      /\ DoorInv'
      /\ \A m \in Nodes : effects[m] > 0 => effects'[m] > 0
      /\ \A m \in Nodes \ {n} : effects'[m] = effects[m]
      /\ n \in Writes => effects'[n] > 0
  BY LandInv
<1>2. TypeOK'
  BY <1>1 DEF TypeOK, runVars, recordVars, LaneStates, Answers
<1>3. LaneInv'
  BY DEF LaneInv, TypeOK, Answers
<1>4. HonestInv' /\ KnownInv' /\ RowInv'
  BY <1>1, KindAssumption
  DEF HonestInv, KnownInv, RowInv, Completed, TypeOK, runVars, recordVars, KindAssumption
<1>5. OrderInv'
  BY <1>1 DEF OrderInv, TypeOK, runVars
<1>6. CountInv' /\ RestInv'
  BY LaneKeepsLoop DEF Spawned, Holding
<1>7. QED
  BY <1>1, <1>2, <1>3, <1>4, <1>5, <1>6

LEMMA RefuseStep == ASSUME IInv, NEW n \in Nodes, Refuse(n) PROVE IInv'
<1> USE DEF IInv, Refuse, InFlight
<1>1. TypeOK'
  BY DEF TypeOK, runVars, recordVars, appVars, LaneStates, Answers
<1>2. LaneInv' /\ DoorInv'
  BY DEF LaneInv, DoorInv, TypeOK, appVars, Answers
<1>3. HonestInv' /\ KnownInv' /\ RowInv'
  BY KindAssumption
  DEF HonestInv, KnownInv, RowInv, Completed, TypeOK, runVars, recordVars, appVars, KindAssumption
<1>4. OrderInv'
  BY DEF OrderInv, TypeOK, runVars, appVars
<1>5. CountInv' /\ RestInv'
  BY LaneKeepsLoop DEF Spawned, Holding
<1>6. QED
  BY <1>1, <1>2, <1>3, <1>4, <1>5

LEMMA LateArrivalStep == ASSUME IInv, NEW n \in Nodes, LateArrival(n) PROVE IInv'
<1> USE DEF IInv, LateArrival
<1>1. /\ effects' \in [Nodes -> Nat] /\ replay' \subseteq Keyed
      /\ DoorInv'
      /\ \A m \in Nodes : effects[m] > 0 => effects'[m] > 0
      /\ \A m \in Nodes \ {n} : effects'[m] = effects[m]
  BY LandInv
<1>2. late' \in [Nodes -> Nat] /\ \A m \in Nodes : late'[m] > 0 => late[m] > 0
  BY DEF TypeOK
<1>3. TypeOK' /\ LaneInv'
  BY <1>1, <1>2 DEF TypeOK, LaneInv, runVars, laneVars, recordVars
<1>4. HonestInv' /\ KnownInv' /\ RowInv'
  BY <1>1, KindAssumption
  DEF HonestInv, KnownInv, RowInv, Completed, runVars, laneVars, recordVars, KindAssumption
<1>5. OrderInv'
  BY <1>1, <1>2 DEF OrderInv, TypeOK, runVars, laneVars
<1>6. CountInv' /\ RestInv'
  BY DEF CountInv, RestInv, runVars, laneVars, recordVars
<1>7. QED
  BY <1>1, <1>3, <1>4, <1>5, <1>6

LEMMA CrashStep == ASSUME IInv, Crash PROVE IInv'
<1> USE DEF IInv, Crash
<1>1. late' \in [Nodes -> Nat]
      /\ \A m \in Nodes : late'[m] > 0 => late[m] > 0 \/ lane[m] = "sent"
  BY DEF TypeOK
<1>2. TypeOK'
  <2>1. 0 \in 0..(2 * MaxAttempts) /\ crashes' \in 0..MaxCrashes
    BY BoundAssumption DEF BoundAssumption, TypeOK
  <2>2. QED
    BY <1>1, <2>1 DEF TypeOK, LaneStates, Outcomes
<1>3. LaneInv' /\ DoorInv' /\ HonestInv' /\ KnownInv' /\ RowInv'
  BY KindAssumption
  DEF LaneInv, DoorInv, HonestInv, KnownInv, RowInv, Completed, KindAssumption
<1>4. OrderInv'
  BY <1>1 DEF OrderInv, TypeOK
<1>5. CountInv' /\ RestInv'
  BY DEF CountInv, RestInv, Spawned, Holding
<1>6. QED
  BY <1>2, <1>3, <1>4, <1>5

LEMMA StutterStep == ASSUME IInv, UNCHANGED vars PROVE IInv'
<1> USE DEF IInv, vars, runVars, laneVars, recordVars, appVars
<1>1. TypeOK' /\ LaneInv' /\ DoorInv' /\ HonestInv' /\ KnownInv' /\ RowInv'
  BY DEF TypeOK, LaneInv, DoorInv, HonestInv, KnownInv, RowInv, Completed
<1>2. OrderInv' /\ CountInv' /\ RestInv'
  BY DEF OrderInv, CountInv, RestInv
<1>3. QED
  BY <1>1, <1>2

(* Every state of every run of a plan satisfies the inductive invariant.   *)
THEOREM Invariance == Spec => []IInv
<1>1. Init => IInv
  BY InitIInv
<1>2. IInv /\ [Next]_vars => IInv'
  <2> SUFFICES ASSUME IInv, [Next]_vars PROVE IInv'
    OBVIOUS
  <2>1. CASE StartRun
    BY <2>1, StartRunStep
  <2>2. CASE Engine
    BY <2>2, DispatchStep, DiscardStep, FinishStep, JoinStep DEF Engine
  <2>3. ASSUME NEW n \in Nodes, Lane(n) PROVE IInv'
    BY <2>3, NoEffectorStep, WaitEndsStep, GlanceStep, AcquireStep, ReceiveOkStep,
       ReceiveErrorStep, NoAnswerStep, ResendStep DEF Lane
  <2>4. ASSUME NEW n \in Nodes, App(n) PROVE IInv'
    BY <2>4, ServeStep, GlanceAnsweredStep, RefuseStep, LateArrivalStep DEF App
  <2>5. CASE Crash
    BY <2>5, CrashStep
  <2>6. CASE UNCHANGED vars
    BY <2>6, StutterStep
  <2>7. QED
    BY <2>1, <2>2, <2>3, <2>4, <2>5, <2>6 DEF Next
<1>3. QED
  BY <1>1, <1>2, PTL DEF Spec
-----------------------------------------------------------------------------

(* Every variable keeps its type; in particular a lane's attempt counter   *)
(* never exceeds twice Policy.max_attempts.                                *)
THEOREM TypeCorrect == Spec => []TypeOK
BY Invariance, PTL DEF IInv

(* A keyed write changes the app at most once, over every retry, late      *)
(* request, crash and resumed run.                                         *)
THEOREM KeyedOnce == Spec => []ExactlyOnce
<1>1. IInv => ExactlyOnce
  BY KindAssumption DEF IInv, DoorInv, ExactlyOnce, KindAssumption
<1>2. QED
  BY <1>1, Invariance, PTL

(* Effects and reports follow the plan's edges.                            *)
THEOREM EffectsFollowEdges == Spec => []OrderedEffects
<1>1. IInv => OrderedEffects
  <2> SUFFICES ASSUME IInv, NEW e \in Edges, effects[e[2]] > 0 \/ e[2] \in known
               PROVE  e[1] \in known /\ (e[1] \in Writes => effects[e[1]] > 0)
    BY DEF OrderedEffects
  <2>1. e[1] \in Nodes /\ e[2] \in Nodes /\ <<e[1], e[2]>> \in Edges
    BY PlanAssumption DEF PlanAssumption
  <2>2. e[1] \in known
    BY <2>1 DEF IInv, OrderInv, Preds
  <2>3. QED
    BY <2>2 DEF IInv, HonestInv
<1>2. QED
  BY <1>1, Invariance, PTL

(* A row that says ok is about a write that happened.                      *)
THEOREM RowsAreHonest == Spec => []LedgerHonest
<1>1. IInv => LedgerHonest
  BY DEF IInv, HonestInv, LedgerHonest
<1>2. QED
  BY <1>1, Invariance, PTL

(* "Committed" is said only when every node succeeded and every write took *)
(* effect.                                                                 *)
THEOREM CommitMeansAll == Spec => []CommittedIsComplete
<1>1. IInv => CommittedIsComplete
  BY KindAssumption
  DEF IInv, RestInv, KnownInv, HonestInv, CommittedIsComplete, KindAssumption
<1>2. QED
  BY <1>1, Invariance, PTL

(* "x of n nodes completed" is never the outcome.                          *)
THEOREM NoNodeIsOrphaned == Spec => []NeverIncomplete
<1>1. IInv => NeverIncomplete
  BY DEF IInv, RestInv, NeverIncomplete
<1>2. QED
  BY <1>1, Invariance, PTL

(* What a step inside a run does to the lanes: the loop starts ready lanes *)
(* when nothing has failed and joins finished ones, a spawned lane stays   *)
(* spawned, and a call only leaves a lane that was queued or backed off.   *)
LEMMA LanesInARun ==
  ASSUME IInv, Next, status = "running", status' = "running", NEW n \in Nodes
  PROVE  \/ lane'[n] = lane[n]
         \/ n \in ready /\ ~stopping /\ lane'[n] \in {"queued", "finished"}
         \/ lane[n] \in Spawned /\ lane'[n] # "idle"
<1> USE DEF IInv, TypeOK, InFlight, Spawned, Holding
<1>1. CASE Engine
  <2>1. CASE Dispatch
    <3>1. PICK unresolved \in SUBSET ready :
            lane' = [m \in Nodes |->
                      CASE m \in Gated(ready) \cup unresolved -> "finished"
                        [] m \in ready \ (Gated(ready) \cup unresolved) -> "queued"
                        [] OTHER -> lane[m]]
      BY <2>1 DEF Dispatch, Spawn
    <3>2. Gated(ready) \subseteq ready
      BY DEF Gated
    <3>3. lane'[n] # lane[n] => n \in ready /\ lane'[n] \in {"queued", "finished"}
      BY <3>1, <3>2
    <3>4. QED
      BY <2>1, <3>3 DEF Dispatch
  <2>2. CASE Discard \/ Finish
    BY <2>2 DEF Discard, Finish, Drain, laneVars
  <2>3. ASSUME NEW m \in Nodes, Join(m)
        PROVE  lane' = [lane EXCEPT ![m] = "joined"] /\ lane[m] = "finished"
    BY <2>3 DEF Join
  <2>4. QED
    BY <1>1, <2>1, <2>2, <2>3 DEF Engine
<1>2. ASSUME NEW m \in Nodes, Lane(m)
      PROVE  lane[m] \in Spawned /\ \E st \in Spawned : lane' = [lane EXCEPT ![m] = st]
  BY <1>2 DEF Lane, NoEffector, WaitEnds, Glance, Acquire, ReceiveOk, ReceiveError,
              NoAnswer, Resend, RetryOrGiveUp, Return
<1>3. ASSUME NEW m \in Nodes, App(m)
      PROVE  \/ lane' = lane
             \/ lane[m] \in Spawned /\ \E st \in Spawned : lane' = [lane EXCEPT ![m] = st]
  BY <1>3 DEF App, Serve, GlanceAnswered, Refuse, LateArrival, Return, laneVars
<1>4. CASE \E m \in Nodes : Lane(m) \/ App(m)
  BY <1>2, <1>3, <1>4
<1>5. QED
  BY <1>1, <1>4 DEF Next, StartRun, Crash

(* No node starts twice in a run, and none the ledger proves done.         *)
THEOREM NothingRunsAgain == Spec => NoRerun
<1>1. IInv /\ [Next]_vars =>
        [status = "running" /\ status' = "running" =>
           \A n \in Nodes :
              \/ lane'[n] = lane[n]
              \/ lane[n] # "joined" /\ lane'[n] # "idle" /\ n \notin Completed]_vars
  <2> SUFFICES ASSUME IInv, Next, status = "running", status' = "running",
                      NEW n \in Nodes, lane'[n] # lane[n]
               PROVE  lane[n] # "joined" /\ lane'[n] # "idle" /\ n \notin Completed
    BY DEF vars, runVars, laneVars
  <2>1. \/ n \in ready /\ lane'[n] \in {"queued", "finished"}
        \/ lane[n] \in Spawned /\ lane'[n] # "idle"
    BY LanesInARun
  <2>2. n \notin outputs /\ (n \in ready => lane[n] = "idle")
    BY <2>1 DEF IInv, CountInv
  <2>3. QED
    BY <2>1, <2>2 DEF IInv, RowInv, Spawned, Holding
<1>2. QED
  BY <1>1, Invariance, PTL DEF Spec, NoRerun

(* After the first failure no further node starts.                         *)
THEOREM NothingStartsAfterAStop == Spec => StopIsFinal
<1>1. IInv /\ [Next]_vars =>
        [status = "running" /\ status' = "running" /\ stopping =>
           \A n \in Nodes : lane[n] = "idle" => lane'[n] = "idle"]_vars
  <2> SUFFICES ASSUME IInv, Next, status = "running", status' = "running", stopping,
                      NEW n \in Nodes, lane[n] = "idle"
               PROVE  lane'[n] = "idle"
    BY DEF vars
  <2>1. QED
    BY LanesInARun DEF Spawned, Holding
<1>2. QED
  BY <1>1, Invariance, PTL DEF Spec, StopIsFinal

(* A lane past a closed gate never lives: its node was spawned to fail.    *)
Live == {"queued", "glancing"} \cup Holding

GateInv == \A n \in External : lane[n] \in Live => allowed

LEMMA GateStep == ASSUME IInv, GateInv, [Next]_vars PROVE GateInv'
<1> USE DEF IInv, TypeOK, GateInv
<1> SUFFICES ASSUME NEW n \in External, lane'[n] \in Live PROVE allowed'
  OBVIOUS
<1>1. n \in Nodes
  BY KindAssumption DEF KindAssumption
<1>2. CASE StartRun \/ Crash
  BY <1>1, <1>2 DEF StartRun, Crash, Live, Holding
<1>3. CASE Dispatch
  <2>1. PICK unresolved \in SUBSET ((ready \cap Refs) \ Gated(ready)) :
          lane' = [m \in Nodes |->
                    CASE m \in Gated(ready) \cup unresolved -> "finished"
                      [] m \in ready \ (Gated(ready) \cup unresolved) -> "queued"
                      [] OTHER -> lane[m]]
    BY <1>3 DEF Dispatch, Spawn
  <2>2. n \in ready => n \in Gated(ready) \/ allowed
    BY DEF Gated
  <2>3. lane'[n] = "finished" \/ lane'[n] = lane[n] \/ allowed
    BY <1>1, <2>1, <2>2
  <2>4. QED
    BY <1>3, <2>3 DEF Dispatch, Spawn, Live, Holding
<1>4. CASE Discard \/ Finish \/ UNCHANGED vars
  BY <1>4 DEF Discard, Finish, Drain, laneVars, vars, runVars
<1>5. ASSUME NEW m \in Nodes, Join(m) PROVE allowed'
  BY <1>1, <1>5 DEF Join, Live, Holding
<1>6. ASSUME NEW m \in Nodes, Lane(m) PROVE allowed'
  <2>1. allowed' = allowed /\ lane[m] \in Live
    BY <1>6 DEF Lane, NoEffector, WaitEnds, Glance, Acquire, ReceiveOk, ReceiveError,
                NoAnswer, Resend, InFlight, runVars, Live, Holding
  <2>2. \E st \in LaneStates : lane' = [lane EXCEPT ![m] = st]
    BY <1>6 DEF Lane, NoEffector, WaitEnds, Glance, Acquire, ReceiveOk, ReceiveError,
                NoAnswer, Resend, RetryOrGiveUp, Return, LaneStates
  <2>3. QED
    BY <1>1, <2>1, <2>2
<1>7. ASSUME NEW m \in Nodes, App(m) PROVE allowed'
  <2>1. /\ allowed' = allowed
        /\ lane[m] \in Live \/ lane' = lane
    BY <1>7 DEF App, Serve, GlanceAnswered, Refuse, LateArrival, InFlight, runVars,
                laneVars, Live, Holding
  <2>2. lane' = lane \/ \E st \in LaneStates : lane' = [lane EXCEPT ![m] = st]
    BY <1>7 DEF App, Serve, GlanceAnswered, Refuse, LateArrival, Return, laneVars,
                LaneStates
  <2>3. QED
    BY <1>1, <2>1, <2>2
<1>8. QED
  BY <1>2, <1>3, <1>4, <1>5, <1>6, <1>7 DEF Next, Engine

(* A call leaves for the outside only in a run that allows it.             *)
THEOREM ClosedGatesHold == Spec => GatesHold
<1>1. Init => GateInv
  BY KindAssumption DEF Init, GateInv, Live, Holding, KindAssumption
<1>2. IInv /\ GateInv /\ [Next]_vars => GateInv'
  BY GateStep
<1>3. IInv /\ GateInv /\ GateInv' /\ [Next]_vars =>
        [\A n \in External : lane[n] # "sent" /\ lane'[n] = "sent" => allowed]_vars
  <2> SUFFICES ASSUME IInv, GateInv, GateInv', Next, NEW n \in External,
                      lane[n] # "sent", lane'[n] = "sent"
               PROVE  allowed
    BY DEF vars
  <2>1. allowed'
    BY DEF GateInv, Live, Holding
  <2>2. ~StartRun
    BY KindAssumption DEF StartRun, KindAssumption
  <2>3. allowed' = allowed
    BY <2>2 DEF Next, Engine, Lane, App, Dispatch, Spawn, Discard, Finish, Drain, Join,
       NoEffector, WaitEnds, Glance, Acquire, ReceiveOk, ReceiveError, NoAnswer, Resend,
       Serve, GlanceAnswered, Refuse, LateArrival, Crash, runVars
  <2>4. QED
    BY <2>1, <2>3
<1>4. QED
  BY <1>1, <1>2, <1>3, Invariance, PTL DEF Spec, GatesHold
-----------------------------------------------------------------------------

(* The nodes behind a closed gate.                                         *)
Closed == IF allowed THEN {} ELSE External

(* The lane has ended, and nobody has joined it yet.                       *)
EndedWith(n, rs) == lane[n] = "finished" /\ res[n] \in rs

(* The lane was joined and did not succeed; it had an ok answer or not.    *)
Asked(n) == lane[n] = "joined" /\ n \in recOk \ outputs
Failed(n) == lane[n] = "joined" /\ n \notin recOk \cup outputs

(* An ok row is that of a lane that ended with its answer, and a lane that *)
(* ended otherwise has none: it was gated, or it failed.                   *)
AnswerInv ==
  /\ \A n \in recOk :
        n \in Nodes \ Closed /\ (lane[n] = "joined" \/ EndedWith(n, {"ok", "fork"}))
  /\ \A n \in Nodes :
        /\ EndedWith(n, {"ok", "fork"}) => n \in recOk
        /\ EndedWith(n, {"fork"}) \/ Asked(n) => n \in Forkable
        /\ EndedWith(n, {"gate"}) => n \in Closed
        /\ lane[n] \in Live \/ EndedWith(n, {"fatal"}) => n \notin Closed
  /\ outputs \ Completed \subseteq recOk

(* The outcome is that of a lane that was joined.                          *)
VerdictInv ==
  /\ outcome = "fork"  => \E n \in Nodes : Asked(n)
  /\ outcome = "gate"  => \E n \in Closed : n \in Nodes /\ Failed(n)
  /\ outcome = "error" => \E n \in Nodes \ Closed : Failed(n)

StoryInv == status = "running" => AnswerInv /\ VerdictInv

(* What a lane adds to the story: nothing yet, or its end.                 *)
LaneTold(n) ==
  \/ lane'[n] \in Live /\ recOk' = recOk
  \/ lane'[n] = "finished" /\ res'[n] = "fatal" /\ recOk' = recOk
  \/ lane'[n] = "finished" /\ res'[n] = "ok" /\ recOk' = recOk \cup {n}
  \/ lane'[n] = "finished" /\ res'[n] = "fork" /\ n \in Forkable /\ recOk' = recOk \cup {n}

LEMMA LaneTells ==
  ASSUME TypeOK, NEW n \in Nodes, Lane(n) \/ App(n), ~LateArrival(n)
  PROVE  /\ status = "running" /\ lane[n] \in Live /\ LaneTold(n)
         /\ UNCHANGED <<runVars, ledOk>>
         /\ \A m \in Nodes \ {n} : lane'[m] = lane[m] /\ res'[m] = res[m]
<1> USE DEF TypeOK, InFlight, Live, Holding, LaneTold, runVars, recordVars, Return
<1>1. CASE NoEffector(n) \/ WaitEnds(n) \/ Glance(n) \/ Acquire(n) \/ Resend(n)
  BY <1>1 DEF NoEffector, WaitEnds, Glance, Acquire, Resend
<1>2. CASE ReceiveOk(n)
  BY <1>2 DEF ReceiveOk
<1>3. CASE ReceiveError(n) \/ NoAnswer(n)
  BY <1>3 DEF ReceiveError, NoAnswer, RetryOrGiveUp
<1>4. CASE Serve(n) \/ Refuse(n) \/ GlanceAnswered(n)
  BY <1>4 DEF Serve, Refuse, GlanceAnswered
<1>5. QED
  BY <1>1, <1>2, <1>3, <1>4 DEF Lane, App

(* A lane that goes on, or ends, leaves what the others had to say.        *)
LEMMA LaneKeepsStory ==
  ASSUME IInv, StoryInv, NEW n \in Nodes, Lane(n) \/ App(n), ~LateArrival(n)
  PROVE  StoryInv'
<1>1. /\ status = "running" /\ lane[n] \in Live /\ LaneTold(n)
      /\ UNCHANGED <<runVars, ledOk>>
      /\ \A m \in Nodes \ {n} : lane'[m] = lane[m] /\ res'[m] = res[m]
  BY LaneTells DEF IInv
<1>2. AnswerInv /\ VerdictInv
  BY <1>1 DEF StoryInv
<1>3. Completed' = Completed /\ Closed' = Closed /\ outputs' = outputs /\ outcome' = outcome
  BY <1>1 DEF Completed, Closed, runVars
<1>4. n \notin recOk \cup outputs /\ n \notin Closed
  <2>1. n \in recOk => lane[n] = "joined" \/ lane[n] = "finished"
    BY <1>2 DEF AnswerInv, EndedWith
  <2>2. n \notin outputs
    BY <1>1 DEF IInv, CountInv, Live, Spawned
  <2>3. QED
    BY <1>1, <1>2, <2>1, <2>2 DEF AnswerInv, Live, Holding
<1>5. AnswerInv'
  <2> USE <1>2, <1>3 DEF AnswerInv
  <2>1. recOk' \subseteq recOk \cup {n} /\ recOk \subseteq recOk'
    BY <1>1 DEF LaneTold
  <2>2. ASSUME NEW m \in recOk'
        PROVE  m \in Nodes \ Closed /\ (lane'[m] = "joined" \/ EndedWith(m, {"ok", "fork"})')
    <3>1. CASE m = n
      BY <1>1, <1>4, <3>1 DEF LaneTold, EndedWith
    <3>2. CASE m # n
      BY <1>1, <2>1, <3>2 DEF EndedWith
    <3>3. QED
      BY <3>1, <3>2
  <2>3. ASSUME NEW m \in Nodes
        PROVE  /\ EndedWith(m, {"ok", "fork"})' => m \in recOk'
               /\ EndedWith(m, {"fork"})' \/ Asked(m)' => m \in Forkable
               /\ EndedWith(m, {"gate"})' => m \in Closed
               /\ lane'[m] \in Live \/ EndedWith(m, {"fatal"})' => m \notin Closed
    <3>1. CASE m = n
      BY <1>1, <1>4, <3>1 DEF LaneTold, EndedWith, Asked, Live, Holding
    <3>2. CASE m # n
      BY <1>1, <2>1, <3>2 DEF EndedWith, Asked
    <3>3. QED
      BY <3>1, <3>2
  <2>4. QED
    BY <2>1, <2>2, <2>3
<1>6. VerdictInv'
  <2>1. \A m \in Nodes : lane[m] = "joined" => m # n
    BY <1>1 DEF Live, Holding
  <2>2. \A m \in Nodes : /\ Asked(m) => Asked(m)'
                         /\ Failed(m) => Failed(m)'
    BY <1>1, <1>3, <2>1 DEF Asked, Failed, LaneTold
  <2>3. QED
    BY <1>2, <1>3, <2>2 DEF VerdictInv
<1>7. QED
  BY <1>5, <1>6 DEF StoryInv

(* Whoever is joined has said how it went.                                 *)
LEMMA JoinKeepsStory ==
  ASSUME IInv, StoryInv, NEW n \in Nodes, Join(n)
  PROVE  StoryInv'
<1>1. /\ status = "running" /\ lane[n] = "finished" /\ res[n] \in Results
      /\ lane' = [lane EXCEPT ![n] = "joined"] /\ res' = [res EXCEPT ![n] = "none"]
      /\ recOk' = recOk /\ ledOk' = ledOk /\ allowed' = allowed
  BY DEF Join, recordVars, IInv, LaneInv
<1>2. AnswerInv /\ VerdictInv /\ n \notin outputs
  BY <1>1 DEF StoryInv, IInv, CountInv, Spawned
<1>3. Completed' = Completed /\ Closed' = Closed
  BY <1>1 DEF Completed, Closed
<1>4. /\ lane'[n] = "joined"
      /\ \A m \in Nodes \ {n} : lane'[m] = lane[m] /\ res'[m] = res[m]
  BY <1>1 DEF IInv, TypeOK
<1>5. CASE res[n] = "ok" /\ Complete(n)
  <2>1. outputs' = outputs \cup {n} /\ outcome' = outcome
    BY <1>5 DEF Complete
  <2>2. n \in recOk
    BY <1>1, <1>2, <1>5 DEF AnswerInv, EndedWith
  <2>3. \A m \in Nodes : /\ Asked(m)' <=> Asked(m)
                         /\ Failed(m)' <=> Failed(m)
    BY <1>1, <1>4, <2>1, <2>2 DEF Asked, Failed
  <2>4. AnswerInv'
    BY <1>1, <1>2, <1>3, <1>4, <2>1, <2>2, <2>3 DEF AnswerInv, EndedWith, Live, Holding
  <2>5. VerdictInv'
    BY <1>2, <1>3, <2>1, <2>3 DEF VerdictInv
  <2>6. QED
    BY <2>4, <2>5 DEF StoryInv
<1>6. CASE res[n] # "ok" /\ Stop(n)
  <2>1. outputs' = outputs
    BY <1>6 DEF Stop
  <2>2. \A m \in Nodes : /\ Asked(m)' <=> Asked(m) \/ (m = n /\ n \in recOk)
                         /\ Failed(m)' <=> Failed(m) \/ (m = n /\ n \notin recOk)
    BY <1>1, <1>2, <1>4, <2>1 DEF Asked, Failed
  <2>3. /\ n \in recOk <=> res[n] = "fork"
        /\ res[n] = "fork" => n \in Forkable
        /\ res[n] = "gate" => n \in Closed
        /\ res[n] = "fatal" => n \notin Closed
    BY <1>1, <1>2, <1>6 DEF AnswerInv, EndedWith, Results
  <2>4. AnswerInv'
    BY <1>1, <1>2, <1>3, <1>4, <2>1, <2>2, <2>3 DEF AnswerInv, EndedWith, Live, Holding
  <2>5. /\ outcome' = "fork" => outcome = "fork" \/ res[n] = "fork"
        /\ outcome' = "gate" => outcome = "gate" \/ res[n] = "gate"
        /\ outcome' = "error" => outcome = "error" \/ res[n] = "fatal"
    BY <1>1, <1>6 DEF Stop, OutcomeOf, Results
  <2>6. VerdictInv'
    BY <1>2, <1>3, <2>2, <2>3, <2>5 DEF VerdictInv
  <2>7. QED
    BY <2>4, <2>6 DEF StoryInv
<1>7. QED
  BY <1>5, <1>6 DEF Join, Success

LEMMA DispatchKeepsStory == ASSUME IInv, StoryInv, Dispatch PROVE StoryInv'
<1>1. PICK unresolved \in SUBSET ((ready \cap Refs) \ Gated(ready)) :
        /\ lane' = [n \in Nodes |->
                     CASE n \in Gated(ready) \cup unresolved -> "finished"
                       [] n \in ready \ (Gated(ready) \cup unresolved) -> "queued"
                       [] OTHER -> lane[n]]
        /\ res' = [n \in Nodes |->
                     CASE n \in Gated(ready) -> "gate"
                       [] n \in unresolved -> "fatal"
                       [] OTHER -> res[n]]
  BY DEF Dispatch, Spawn
<1>2. /\ status = "running" /\ AnswerInv /\ VerdictInv
      /\ \A n \in ready : n \in Nodes /\ lane[n] = "idle"
  BY DEF StoryInv, Dispatch, IInv, CountInv, TypeOK
<1>3. /\ outputs' = outputs /\ outcome' = outcome /\ recOk' = recOk
      /\ Completed' = Completed /\ Closed' = Closed
  BY DEF Dispatch, Spawn, recordVars, Completed, Closed
<1>4. Gated(ready) = ready \cap Closed
  BY DEF Gated, Closed
<1>5. \A n \in Nodes :
        \/ n \notin ready /\ lane'[n] = lane[n] /\ res'[n] = res[n]
        \/ n \in ready /\ n \in Closed /\ lane'[n] = "finished" /\ res'[n] = "gate"
        \/ n \in ready /\ n \notin Closed /\ lane'[n] = "finished" /\ res'[n] = "fatal"
        \/ n \in ready /\ n \notin Closed /\ lane'[n] = "queued"
  BY <1>1, <1>4
<1>6. \A n \in ready : n \notin recOk
  BY <1>2 DEF AnswerInv, EndedWith
<1>7. \A n \in Nodes : /\ Asked(n)' <=> Asked(n)
                       /\ Failed(n)' <=> Failed(n)
  BY <1>2, <1>3, <1>5 DEF Asked, Failed
<1>8. AnswerInv'
  BY <1>2, <1>3, <1>5, <1>6, <1>7 DEF AnswerInv, EndedWith, Live, Holding
<1>9. VerdictInv'
  BY <1>2, <1>3, <1>7 DEF VerdictInv
<1>10. QED
  BY <1>8, <1>9 DEF StoryInv

LEMMA StoryStep == ASSUME IInv, StoryInv, [Next]_vars PROVE StoryInv'
<1>1. CASE StartRun
  <2>1. /\ recOk' = {} /\ outputs' = Completed' /\ outcome' = "committed"
        /\ \A n \in Nodes : lane'[n] = "idle"
    BY <1>1 DEF StartRun, Completed
  <2>2. QED
    BY <2>1 DEF StoryInv, AnswerInv, VerdictInv, EndedWith, Asked, Live, Holding
<1>2. CASE Finish \/ Crash
  BY <1>2 DEF Finish, Drain, Crash, StoryInv
<1>3. CASE Discard \/ UNCHANGED vars \/ \E n \in Nodes : LateArrival(n)
  <2>1. UNCHANGED <<status, outputs, outcome, allowed, laneVars, recordVars>>
    BY <1>3 DEF Discard, LateArrival, vars, runVars
  <2>2. QED
    BY <2>1 DEF StoryInv, AnswerInv, VerdictInv, EndedWith, Asked, Failed, Closed, Completed,
       laneVars, recordVars
<1>4. CASE Dispatch
  BY <1>4, DispatchKeepsStory
<1>5. ASSUME NEW n \in Nodes, Join(n) PROVE StoryInv'
  BY <1>5, JoinKeepsStory
<1>6. ASSUME NEW n \in Nodes, Lane(n) \/ App(n), ~LateArrival(n) PROVE StoryInv'
  BY <1>6, LaneKeepsStory
<1>7. QED
  BY <1>1, <1>2, <1>3, <1>4, <1>5, <1>6 DEF Next, Engine

(* A run ends as PlanRun tells it, for every plan, whatever lanes were in  *)
(* flight when the first of them failed.                                   *)
THEOREM RunsEndAsTold == Spec => RunsAsTold
<1>1. Init => StoryInv
  BY DEF Init, StoryInv
<1>2. IInv /\ StoryInv /\ [Next]_vars => StoryInv'
  BY StoryStep
<1> DEFINE asked == recOk \ outputs
           run == [ok |-> outputs \ Completed, asked |-> asked,
                   failed |-> {n \in Nodes : lane[n] # "idle"} \ (outputs \cup asked),
                   outcome |-> StatusOf(outcome')]
           told == /\ \A n \in Nodes : lane[n] \in {"idle", "joined"}
                   /\ PossibleRun(Nodes, Edges, Forkable, IF allowed THEN {} ELSE External,
                                  Completed, run)
                   /\ ledOk' = ledOk \cup run.ok \cup run.asked
<1>3. ASSUME IInv, StoryInv, Next, status = "running", status' = "ended" PROVE told
  <2>1. Finish
    BY <1>3 DEF Next, Engine, Lane, App, StartRun, Dispatch, Spawn, Discard, Join,
       NoEffector, WaitEnds, Glance, Acquire, ReceiveOk, ReceiveError, NoAnswer, Resend,
       Serve, GlanceAnswered, Refuse, LateArrival, Crash, runVars
  <2>2. \A n \in Nodes : lane[n] \in {"idle", "joined"}
    BY <1>3, <2>1 DEF Finish, IInv, TypeOK, LaneStates, Spawned, Holding
  <2>3. AnswerInv /\ VerdictInv /\ Completed \subseteq outputs
    BY <1>3 DEF StoryInv, IInv, RowInv
  <2>4. outputs \subseteq Nodes /\ recOk \subseteq Nodes
    BY <1>3 DEF IInv, TypeOK
  <2>5. \A n \in recOk : lane[n] = "joined" /\ n \notin Closed
    BY <2>2, <2>3, <2>4 DEF AnswerInv, EndedWith
  <2>6. \A n \in Nodes : lane[n] = "joined" => Preds(n) \subseteq outputs
    BY <1>3 DEF IInv, CountInv
  <2>7. \A n \in Nodes : \A e \in Edges : e[2] = n => e[1] \in Preds(n)
    BY PlanAssumption DEF Preds, PlanAssumption
  <2>8. outputs \ Completed \subseteq recOk
    BY <2>3 DEF AnswerInv
  <2>9. Completed \cup run.ok = outputs
    BY <2>3
  <2>10. \A n \in Nodes : lane[n] = "joined" => \A e \in Edges : e[2] = n => e[1] \in outputs
    BY <2>6, <2>7
  <2>11. \A n \in Nodes : lane[n] = "joined" /\ n \notin outputs
                            => n \in Startable(Nodes, Edges, outputs)
    BY <2>10 DEF Startable
  <2>12. run.ok \subseteq Nodes \ (Completed \cup Closed)
    BY <2>4, <2>5, <2>8
  <2>13. \A e \in Edges : e[2] \in run.ok => e[1] \in outputs
    BY <2>4, <2>5, <2>8, <2>10
  <2>14. run.asked \subseteq (Startable(Nodes, Edges, outputs) \cap Forkable) \ Closed
    BY <2>3, <2>4, <2>5, <2>11 DEF AnswerInv, Asked
  <2>15. run.failed \subseteq Startable(Nodes, Edges, outputs) \ run.asked
    BY <2>2, <2>11
  <2>16. \A n \in Nodes : /\ Asked(n) => n \in run.asked
                          /\ Failed(n) => n \in run.failed
    BY DEF Asked, Failed
  <2>17. \/ run.outcome = "committed" /\ outputs = Nodes
         \/ run.outcome = "need_think" /\ run.asked \cup (run.failed \cap Closed) # {}
         \/ run.outcome = "error" /\ run.failed \ Closed # {}
    <3>1. IInv'
      BY <1>3, <2>1, FinishStep
    <3>2. outcome' # "incomplete" /\ outcome \in Outcomes
      BY <1>3, <3>1 DEF IInv, RestInv, TypeOK
    <3>3. outcome' = outcome /\ (outcome = "committed" => outputs = Nodes)
      BY <2>1, <3>2 DEF Finish, Drain
    <3>4. CASE outcome = "committed"
      BY <3>3, <3>4 DEF StatusOf
    <3>5. CASE outcome = "fork"
      <4>1. run.outcome = "need_think"
        BY <3>3, <3>5 DEF StatusOf
      <4>2. run.asked # {}
        BY <2>3, <2>16, <3>5 DEF VerdictInv
      <4>3. QED
        BY <4>1, <4>2
    <3>6. CASE outcome = "gate"
      <4>1. run.outcome = "need_think"
        BY <3>3, <3>6 DEF StatusOf
      <4>2. run.failed \cap Closed # {}
        BY <2>3, <2>16, <3>6 DEF VerdictInv
      <4>3. QED
        BY <4>1, <4>2
    <3>7. CASE outcome = "error"
      <4>1. run.outcome = "error"
        BY <3>3, <3>7 DEF StatusOf
      <4>2. run.failed \ Closed # {}
        BY <2>3, <2>16, <3>7 DEF VerdictInv
      <4>3. QED
        BY <4>1, <4>2
    <3>8. QED
      BY <3>2, <3>3, <3>4, <3>5, <3>6, <3>7 DEF Outcomes
  <2>18. ledOk' = ledOk \cup run.ok \cup run.asked
    <3>1. ledOk' = ledOk \cup recOk
      BY <2>1 DEF Finish, Drain
    <3>2. recOk \cap outputs \subseteq run.ok \cup ledOk
      BY DEF Completed
    <3>3. QED
      BY <2>8, <3>1, <3>2
  <2>19. PossibleRun(Nodes, Edges, Forkable, Closed, Completed, run)
    <3> HIDE DEF run
    <3> QED
      BY <2>9, <2>12, <2>13, <2>14, <2>15, <2>17 DEF PossibleRun
  <2>20. QED
    BY <2>2, <2>18, <2>19 DEF Closed
<1>4. IInv /\ StoryInv /\ [Next]_vars =>
        [status = "running" /\ status' = "ended" => told]_vars
  <2> HIDE DEF told
  <2> QED
    BY <1>3
<1>5. QED
  BY <1>1, <1>2, <1>4, Invariance, PTL DEF Spec, RunsAsTold
-----------------------------------------------------------------------------

(* What is known of the edges compile() leaves.                            *)
Graph == INSTANCE PlanGraphProofs

(* In a run, whatever comes before a node that is done is done, except     *)
(* that nobody asks what came before a node the ledger brought along.      *)
ClosedInv ==
  status = "running" => \A n \in outputs \ Completed : Preds(n) \subseteq outputs

LEMMA ClosedStep == ASSUME IInv, ClosedInv, [Next]_vars PROVE ClosedInv'
<1> USE DEF ClosedInv
<1>1. CASE StartRun
  BY <1>1 DEF StartRun, Completed
<1>2. CASE Finish \/ Crash
  BY <1>2 DEF Finish, Drain, Crash
<1>3. ASSUME NEW n \in Nodes, Join(n) PROVE ClosedInv'
  <2>1. Preds(n) \subseteq outputs
    BY <1>3 DEF IInv, CountInv, Join
  <2>2. status' = status /\ Completed' = Completed
    BY <1>3 DEF Join, recordVars, Completed
  <2>3. outputs \subseteq outputs' /\ outputs' \subseteq outputs \cup {n}
    BY <1>3 DEF Join, Complete, Stop
  <2>4. QED
    BY <1>3, <2>1, <2>2, <2>3 DEF Join
<1>4. ASSUME ~StartRun, ~Finish, ~Crash, ~\E n \in Nodes : Join(n) PROVE ClosedInv'
  <2>1. status' = status /\ outputs' = outputs /\ ledOk' = ledOk
    BY <1>4 DEF Next, Engine, Lane, App, Dispatch, Spawn, Discard,
       NoEffector, WaitEnds, Glance, Acquire, ReceiveOk, ReceiveError, NoAnswer, Resend,
       Serve, GlanceAnswered, Refuse, LateArrival, runVars, recordVars, vars
  <2>2. QED
    BY <2>1 DEF Completed
<1>5. QED
  BY <1>1, <1>2, <1>3, <1>4

(* Of two nodes of which one is reached from the other, at most one is at  *)
(* work, in a run that starts with nothing done.                           *)
OneAtATime ==
  status = "running" /\ Completed = {} =>
    \A m, n \in Nodes : Graph!Reachable(m, n, Edges) =>
      ~(lane[m] \in Spawned /\ lane[n] \in Spawned)

LEMMA ClosedMeansApart == ASSUME IInv, ClosedInv PROVE OneAtATime
<1> SUFFICES ASSUME status = "running", Completed = {}, NEW m \in Nodes, NEW n \in Nodes,
                    Graph!Reachable(m, n, Edges), lane[m] \in Spawned, lane[n] \in Spawned
             PROVE  FALSE
  BY DEF OneAtATime
<1> DEFINE Waiting == Nodes \ (outputs \cup {n})
<1>1. Preds(n) \subseteq outputs /\ m \notin outputs
  BY DEF IInv, CountInv, Spawned, Holding
<1>2. \A x \in outputs : Preds(x) \subseteq outputs
  BY DEF ClosedInv
<1>3. ASSUME NEW e \in Edges, e[1] \in Waiting \cup {m} PROVE e[2] \in Waiting
  <2>1. e[1] \in Nodes /\ e[2] \in Nodes /\ e[1] \in Preds(e[2])
    BY PlanAssumption DEF PlanAssumption, Preds
  <2>2. e[1] \notin outputs
    BY <1>1, <1>3
  <2>3. QED
    BY <1>1, <1>2, <2>1, <2>2
<1>4. Graph!Successors(Waiting \cup {m}, Edges) \subseteq Waiting
  BY <1>3 DEF Graph!Successors
<1> HIDE DEF Waiting
<1>5. n \in Waiting
  BY <1>4, Graph!ReachedIsLeast
<1>6. QED
  BY <1>5 DEF Waiting

(* A run that starts with nothing done never has two nodes at work of      *)
(* which one comes before the other, however far.                          *)
THEOREM OrderedNodesWorkApart == Spec => []OneAtATime
<1>1. Init => ClosedInv
  BY DEF Init, ClosedInv
<1>2. IInv /\ ClosedInv /\ [Next]_vars => ClosedInv'
  BY ClosedStep
<1>3. IInv /\ ClosedInv => OneAtATime
  BY ClosedMeansApart
<1>4. QED
  BY <1>1, <1>2, <1>3, Invariance, PTL DEF Spec

(* Compiler and engine together: run the plan compile() makes of nodes     *)
(* with their footprints, and whichever of two nodes writes what the other *)
(* touches, they are never at work at the same time.                       *)
THEOREM ConflictingNodesWorkApart ==
  ASSUME NEW nodes, NEW size \in Nat, DOMAIN nodes = 1..size, NEW deps,
         deps \subseteq (1..size) \X (1..size),
         ~Graph!Cyclic(Graph!Dedupe(deps \cup Graph!FootprintEdges(nodes))),
         Nodes = 1..size,
         Edges = Graph!Reduce(Graph!Dedupe(deps \cup Graph!FootprintEdges(nodes))),
         NEW i \in Nodes, NEW j \in Nodes, i # j,
         Graph!AnyConflict(nodes[i].writes, nodes[j].reads \cup nodes[j].writes)
  PROVE  Spec => [](status = "running" /\ Completed = {} =>
                      ~(lane[i] \in Spawned /\ lane[j] \in Spawned))
<1>1. Graph!Reachable(i, j, Edges) \/ Graph!Reachable(j, i, Edges)
  BY Graph!PlansOrderConflicts
<1>2. OneAtATime => (status = "running" /\ Completed = {} =>
                       ~(lane[i] \in Spawned /\ lane[j] \in Spawned))
  BY <1>1 DEF OneAtATime
<1>3. QED
  BY <1>2, OrderedNodesWorkApart, PTL
-----------------------------------------------------------------------------

(* Steps that neither change the app nor report a success, inside a run or *)
(* outside one, are invisible to the abstract specification.               *)
LEMMA HiddenStep ==
  ASSUME UNCHANGED <<effects, known>>,
         \/ status = "running" /\ status' = "running"
         \/ UNCHANGED <<status, outcome>>
  PROVE  UNCHANGED Promise!pvars
<1>1. [n \in Keyed |-> effects[n]]' = [n \in Keyed |-> effects[n]]
  OBVIOUS
<1>2. {n \in Writes : effects[n] > 0}' = {n \in Writes : effects[n] > 0}
  OBVIOUS
<1>3. QED
  BY <1>1, <1>2 DEF Promise!pvars

(* Starting, ending and losing a run conclude it, or take it up again.     *)
LEMMA ConcludeStep ==
  ASSUME IInv', UNCHANGED <<effects, known>>
  PROVE  Promise!Conclude
<1> DEFINE v == CASE status # "ended" -> "open"
                  [] status = "ended" /\ outcome = "committed" -> "committed"
                  [] OTHER -> "stopped"
<1>1. v' \in {"open", "stopped", "committed"}
  OBVIOUS
<1>2. v' = "committed" => known = Nodes
  BY DEF IInv, RestInv, KnownInv, TypeOK
<1>3. [n \in Keyed |-> effects[n]]' = [n \in Keyed |-> effects[n]]
  OBVIOUS
<1>4. {n \in Writes : effects[n] > 0}' = {n \in Writes : effects[n] > 0}
  OBVIOUS
<1>5. QED
  BY <1>1, <1>2, <1>3, <1>4 DEF Promise!Conclude

(* A request that lands applies its write, or changes nothing.             *)
LEMMA LandStep ==
  ASSUME IInv, NEW n \in Nodes, Land(n), lane[n] # "idle" \/ late[n] > 0,
         known' = known,
         UNCHANGED <<status, outcome>>
  PROVE  [Promise!Step]_(Promise!pvars)
<1> USE DEF IInv
<1>1. CASE n \in replay \/ n \notin Writes
  <2>1. UNCHANGED <<effects, known>>
    BY <1>1 DEF Land
  <2>2. QED
    BY <2>1, HiddenStep
<1>2. CASE n \notin replay /\ n \in Writes
  <2>1. effects' = [effects EXCEPT ![n] = @ + 1] /\ effects \in [Nodes -> Nat]
    BY <1>2 DEF Land, TypeOK
  <2>2. Promise!Before(n) \subseteq known
    BY DEF OrderInv, Preds, Promise!Before
  <2>3. {m \in Writes : effects[m] > 0}' = {m \in Writes : effects[m] > 0} \cup {n}
    BY <1>2, <2>1, KindAssumption DEF KindAssumption
  <2>4. CASE n \in Keyed
    <3>1. effects[n] = 0
      BY <1>2, <2>4 DEF DoorInv
    <3>2. [m \in Keyed |-> effects[m]]' = [[m \in Keyed |-> effects[m]] EXCEPT ![n] = 1]
      <4>1. \A m \in Keyed : effects'[m] = IF m = n THEN 1 ELSE effects[m]
        BY <2>1, <2>4, <3>1, KindAssumption DEF KindAssumption
      <4>2. QED
        BY <2>4, <4>1
    <3>3. Promise!ApplyOnce(n)
      BY <2>2, <2>3, <2>4, <3>1, <3>2 DEF Promise!ApplyOnce
    <3>4. QED
      BY <3>3 DEF Promise!Step
  <2>5. CASE n \notin Keyed
    <3>1. [m \in Keyed |-> effects[m]]' = [m \in Keyed |-> effects[m]]
      BY <2>1, <2>5, KindAssumption DEF KindAssumption
    <3>2. Promise!ApplyAgain(n)
      BY <1>2, <2>2, <2>3, <2>5, <3>1 DEF Promise!ApplyAgain
    <3>3. QED
      BY <3>2 DEF Promise!Step
  <2>6. QED
    BY <2>4, <2>5
<1>3. QED
  BY <1>1, <1>2

(* A lane that reports success reports a node whose predecessors are known *)
(* and, of a write, one that took effect.                                  *)
LEMMA ReportStep ==
  ASSUME IInv, NEW n \in Nodes, lane[n] # "idle",
         n \in Writes => effects[n] > 0,
         known' = known \cup {n}, effects' = effects, UNCHANGED <<status, outcome>>
  PROVE  Promise!Step
<1>1. Promise!Before(n) \subseteq known
  BY DEF IInv, OrderInv, Preds, Promise!Before
<1>2. [m \in Keyed |-> effects[m]]' = [m \in Keyed |-> effects[m]]
  OBVIOUS
<1>3. {m \in Writes : effects[m] > 0}' = {m \in Writes : effects[m] > 0}
  OBVIOUS
<1>4. Promise!Report(n)
  BY <1>1, <1>2, <1>3 DEF Promise!Report
<1>5. QED
  BY <1>4 DEF Promise!Step

LEMMA LaneSimulates ==
  ASSUME IInv, NEW n \in Nodes, Lane(n)
  PROVE  [Promise!Step]_(Promise!pvars)
<1> USE DEF InFlight, runVars
<1>1. CASE NoEffector(n)
  BY <1>1, HiddenStep DEF NoEffector, Return, appVars
<1>2. CASE WaitEnds(n)
  <2>1. n \notin Writes /\ lane[n] # "idle"
    BY <1>2, KindAssumption DEF WaitEnds, KindAssumption
  <2>2. CASE Return(n, "ok")
    <3>1. Promise!Step
      BY <1>2, <2>1, <2>2, ReportStep DEF WaitEnds, Return, appVars
    <3>2. QED
      BY <3>1
  <2>3. CASE Return(n, "fatal")
    BY <1>2, <2>3, HiddenStep DEF WaitEnds, Return, appVars
  <2>4. QED
    BY <1>2, <2>2, <2>3 DEF WaitEnds
<1>3. CASE Acquire(n)
  BY <1>3, HiddenStep DEF Acquire, appVars
<1>4. CASE ReceiveOk(n)
  <2>1. (n \in Writes => effects[n] > 0) /\ lane[n] # "idle"
    BY <1>4 DEF ReceiveOk, IInv, HonestInv
  <2>2. CASE Return(n, "ok")
    <3>1. Promise!Step
      BY <1>4, <2>1, <2>2, ReportStep DEF ReceiveOk, Return, appVars
    <3>2. QED
      BY <3>1
  <2>3. CASE Return(n, "fork")
    BY <1>4, <2>3, HiddenStep DEF ReceiveOk, Return, appVars
  <2>4. QED
    BY <1>4, <2>2, <2>3 DEF ReceiveOk
<1>5. CASE ReceiveError(n)
  <2>1. known' = known
    BY <1>5 DEF ReceiveError, RetryOrGiveUp, Return
  <2>2. QED
    BY <1>5, <2>1, HiddenStep DEF ReceiveError, appVars
<1>6. CASE NoAnswer(n)
  <2>1. known' = known
    BY <1>6 DEF NoAnswer, RetryOrGiveUp, Return
  <2>2. QED
    BY <1>6, <2>1, HiddenStep DEF NoAnswer
<1>7. CASE Resend(n)
  BY <1>7, HiddenStep DEF Resend, appVars
<1>8. CASE Glance(n)
  BY <1>8, HiddenStep DEF Glance, appVars
<1>9. QED
  BY <1>1, <1>2, <1>3, <1>4, <1>5, <1>6, <1>7, <1>8 DEF Lane

LEMMA AppSimulates ==
  ASSUME IInv, NEW n \in Nodes, App(n)
  PROVE  [Promise!Step]_(Promise!pvars)
<1> USE DEF InFlight, runVars
<1>1. CASE Serve(n)
  BY <1>1, LandStep DEF Serve
<1>2. CASE Refuse(n)
  BY <1>2, HiddenStep DEF Refuse, appVars
<1>3. CASE LateArrival(n)
  BY <1>3, LandStep DEF LateArrival
<1>4. CASE GlanceAnswered(n)
  <2>1. n \notin Writes /\ lane[n] # "idle"
    BY <1>4, KindAssumption DEF GlanceAnswered, IInv, LaneInv, KindAssumption
  <2>2. CASE Return(n, "ok")
    <3>1. Promise!Step
      BY <1>4, <2>1, <2>2, ReportStep DEF GlanceAnswered, Return, appVars
    <3>2. QED
      BY <3>1
  <2>3. CASE known' = known
    BY <1>4, <2>3, HiddenStep DEF GlanceAnswered, appVars
  <2>4. QED
    BY <1>4, <2>2, <2>3 DEF GlanceAnswered
<1>5. QED
  BY <1>1, <1>2, <1>3, <1>4 DEF App

(* The engine implements the abstract promise: every state of it maps to a *)
(* state of PlanExecution, and every step to a step there or to none.      *)
THEOREM EngineKeepsPromise == Spec => KeepsPromise
<1>1. Init => Promise!Start
  BY KindAssumption DEF Init, Promise!Start, KindAssumption
<1>2. IInv /\ IInv' /\ [Next]_vars => [Promise!Step]_(Promise!pvars)
  <2> SUFFICES ASSUME IInv, IInv', [Next]_vars
               PROVE  [Promise!Step]_(Promise!pvars)
    OBVIOUS
  <2>1. CASE StartRun \/ Finish \/ Crash
    <3>1. UNCHANGED <<effects, known>>
      BY <2>1 DEF StartRun, Finish, Drain, Crash, appVars
    <3>2. QED
      BY <3>1, ConcludeStep DEF Promise!Step
  <2>2. CASE Dispatch \/ Discard \/ \E n \in Nodes : Join(n)
    <3>1. UNCHANGED <<effects, known>> /\ status = "running" /\ status' = "running"
      BY <2>2 DEF Dispatch, Spawn, Discard, Join, appVars
    <3>2. QED
      BY <3>1, HiddenStep
  <2>3. CASE \E n \in Nodes : Lane(n) \/ App(n)
    BY <2>3, LaneSimulates, AppSimulates
  <2>4. CASE UNCHANGED vars
    BY <2>4, HiddenStep DEF vars, runVars, appVars
  <2>5. QED
    BY <2>1, <2>2, <2>3, <2>4 DEF Next, Engine
<1>3. QED
  BY <1>1, <1>2, Invariance, PTL DEF Spec, KeepsPromise, Promise!Spec
=============================================================================
