----------------------------- MODULE Scheduler -----------------------------
(***************************************************************************)
(* The engine of rwmcp (src/crates/rwmcp/src/scheduler.rs) running one     *)
(* compiled plan against the app's door (src/crates/app/src/domain.rs).    *)
(*                                                                         *)
(* One loop owns the RunState (what is done, what is ready, what waits on  *)
(* what); every ready node gets a lane, a task that acquires a permit of   *)
(* its surface's pool and then sends, retries and backs off on its own.    *)
(* The lanes, the app and the network interleave freely.  Between runs     *)
(* only the ledger survives; a crash loses the rows of the run it hits.    *)
(***************************************************************************)
EXTENDS Integers, FiniteSets, PlanRun

CONSTANTS
  Nodes,        \* the plan's nodes
  Edges,        \* the plan's edges, pairs <<before, after>>
  Writes,       \* nodes whose operation changes the app
  Keyed,        \* writes carrying an idempotency key
  Waits,        \* event nodes: they wait for a fact and write nothing
  Checked,      \* waits that glance at the world now and then
  Forkable,     \* nodes with a fork guard on their result
  External,     \* nodes behind an external gate
  Refs,         \* nodes with an argument taken from another node's output
  Surfaces,     \* where calls go: api, mcp, webmcp, a11y
  SurfaceOf,    \* the surface of each node
  Pool,         \* permits per surface
  Doors,        \* the surfaces that have an effector
  MaxAttempts,  \* Policy.max_attempts
  MaxRuns,      \* bound: runs of the same plan, the first one included
  MaxCrashes    \* bound: runs cut short by the end of the process

Preds(n) == {m \in Nodes : <<m, n>> \in Edges}
Succs(n) == {m \in Nodes : <<n, m>> \in Edges}

(* compile() returns a plan only when find_cycle finds no cycle among its  *)
(* edges, all of them between its own nodes.                               *)
ASSUME PlanAssumption ==
  /\ IsFiniteSet(Nodes)
  /\ Edges \subseteq Nodes \X Nodes
  /\ \E rank \in [Nodes -> 1..Cardinality(Nodes)] :
        \A e \in Edges : rank[e[1]] < rank[e[2]]

(* Only writes get a key; a wait is not a write.  A fork guard belongs to  *)
(* a lookup, which is a read.                                              *)
ASSUME KindAssumption ==
  /\ Keyed \subseteq Writes
  /\ Writes \subseteq Nodes
  /\ Waits \subseteq Nodes \ Writes
  /\ Checked \subseteq Waits
  /\ Forkable \subseteq Nodes \ (Writes \cup Waits)
  /\ External \subseteq Nodes
  /\ Refs \subseteq Nodes

ASSUME SurfaceAssumption ==
  /\ SurfaceOf \in [Nodes -> Surfaces]
  /\ Pool \in [Surfaces -> Nat \ {0}]
  /\ Doors \subseteq Surfaces

ASSUME BoundAssumption ==
  /\ MaxAttempts \in Nat \ {0}
  /\ MaxRuns \in Nat
  /\ MaxCrashes \in Nat

-----------------------------------------------------------------------------

VARIABLES
  \* one run of the engine
  status,   \* "down" (no run), "running", "ended"
  allowed,  \* external_ok of this run's plan: its gates are open
  outputs,  \* RunState.outputs: nodes done in this run or proven done before
  indeg,    \* RunState.indeg: predecessors still missing
  ready,    \* RunState.ready
  stopping, \* a lane failed: start nothing more
  outcome,  \* Outcome: status and yield reason of the first failure
  \* the lanes
  lane,     \* where each node's task is
  try,      \* attempt number of the lane's current call
  res,      \* the answer on its way, or the result the lane ended with
  \* what is recorded
  recOk,    \* nodes with an ok row in the run's Recorder
  ledOk,    \* nodes with an ok row in the Ledger
  runs,     \* runs started
  crashes,  \* runs lost
  \* the app and the network
  effects,  \* how often each node's write changed the app
  replay,   \* nodes whose key the app remembers with its answer
  late,     \* requests given up by their lane that may still arrive
  \* history
  known     \* nodes whose success a lane has ever reported

runVars    == <<status, allowed, outputs, indeg, ready, stopping, outcome>>
laneVars   == <<lane, try, res>>
recordVars == <<recOk, ledOk, runs, crashes>>
appVars    == <<effects, replay, late>>
vars       == <<runVars, laneVars, recordVars, appVars, known>>

LaneStates == {"idle", "queued", "glancing", "sent", "replied", "backoff", "finished",
               "joined"}
Answers    == {"ok", "retryable", "throttled", "fatal"}
Results    == {"ok", "fork", "gate", "fatal"}
Outcomes   == {"committed", "fork", "gate", "error", "incomplete"}

(* A permit is held from the first attempt until the lane ends, through    *)
(* every retry and every sleep in between.                                 *)
Holding == {"sent", "replied", "backoff"}

(* Tasks of the JoinSet: spawned and not yet joined.                       *)
Spawned == {"queued", "glancing", "finished"} \cup Holding

TypeOK ==
  /\ status \in {"down", "running", "ended"}
  /\ allowed \in BOOLEAN
  /\ outputs \subseteq Nodes
  /\ indeg \in [Nodes -> Nat]
  /\ ready \subseteq Nodes
  /\ stopping \in BOOLEAN
  /\ outcome \in Outcomes
  /\ lane \in [Nodes -> LaneStates]
  /\ try \in [Nodes -> 0..(2 * MaxAttempts)]
  /\ res \in [Nodes -> Answers \cup Results \cup {"none"}]
  /\ recOk \subseteq Nodes
  /\ ledOk \subseteq Nodes
  /\ runs \in 0..MaxRuns
  /\ crashes \in 0..MaxCrashes
  /\ effects \in [Nodes -> Nat]
  /\ replay \subseteq Keyed
  /\ late \in [Nodes -> Nat]
  /\ known \subseteq Nodes

Init ==
  /\ status = "down"
  /\ allowed = FALSE
  /\ outputs = {}
  /\ indeg = [n \in Nodes |-> 0]
  /\ ready = {}
  /\ stopping = FALSE
  /\ outcome = "committed"
  /\ lane = [n \in Nodes |-> "idle"]
  /\ try = [n \in Nodes |-> 0]
  /\ res = [n \in Nodes |-> "none"]
  /\ recOk = {}
  /\ ledOk = {}
  /\ runs = 0
  /\ crashes = 0
  /\ effects = [n \in Nodes |-> 0]
  /\ replay = {}
  /\ late = [n \in Nodes |-> 0]
  /\ known = {}
-----------------------------------------------------------------------------
(* The run loop: Scheduler::resume and RunState.                           *)

(* Ledger::completed: a keyed node whose key has an ok row.                *)
Completed == ledOk \cap Keyed

(* RunState::new counts the edges into each node and takes off those from  *)
(* nodes already done.  Mutant: it forgets to take them off.               *)
MissingCountsDone(done) == [n \in Nodes |-> Cardinality(Preds(n))]
Missing(done) == [n \in Nodes |-> Cardinality(Preds(n) \ done)]

(* Scheduler::resume up to its loop: the nodes that miss no predecessor    *)
(* are ready.  The caller chooses whether external calls are allowed, and  *)
(* may run the plan again whatever the last run ended with.                *)
StartRun ==
  /\ status # "running"
  /\ runs < MaxRuns
  /\ status' = "running"
  /\ runs' = runs + 1
  /\ allowed' \in BOOLEAN
  /\ outputs' = Completed
  /\ indeg' = Missing(Completed)
  /\ ready' = {n \in Nodes \ Completed : indeg'[n] = 0}
  /\ stopping' = FALSE
  /\ outcome' = "committed"
  /\ lane' = [n \in Nodes |-> "idle"]
  /\ try' = [n \in Nodes |-> 0]
  /\ res' = [n \in Nodes |-> "none"]
  /\ recOk' = {}
  /\ UNCHANGED <<ledOk, crashes, appVars, known>>

(* Nodes of a batch that are spawned only to fail: a closed gate first,    *)
(* and then an argument that the outputs at hand do not resolve.  Mutant:  *)
(* the gate is only asked while nothing has been committed.                *)
GatedAtFirst(batch) == IF allowed \/ Completed # {} THEN {} ELSE batch \cap External
Gated(batch) == IF allowed THEN {} ELSE batch \cap External

(* Top of the loop: the whole ready batch is taken and each node gets a    *)
(* lane.  Mutant: also after a lane has failed.                            *)
Spawn ==
  /\ \E unresolved \in SUBSET ((ready \cap Refs) \ Gated(ready)) :
       /\ lane' = [n \in Nodes |->
                     CASE n \in Gated(ready) \cup unresolved -> "finished"
                       [] n \in ready \ (Gated(ready) \cup unresolved) -> "queued"
                       [] OTHER -> lane[n]]
       /\ res' = [n \in Nodes |->
                     CASE n \in Gated(ready) -> "gate"
                       [] n \in unresolved -> "fatal"
                       [] OTHER -> res[n]]
  /\ ready' = {}
  /\ UNCHANGED <<status, allowed, outputs, indeg, stopping, outcome, try,
                 recordVars, appVars, known>>

DispatchAlways == status = "running" /\ ready # {} /\ Spawn
Dispatch == status = "running" /\ ready # {} /\ ~stopping /\ Spawn

(* Top of the loop once a lane has failed: nothing more starts.            *)
Discard ==
  /\ status = "running" /\ ready # {} /\ stopping
  /\ ready' = {}
  /\ UNCHANGED <<status, allowed, outputs, indeg, stopping, outcome, laneVars,
                 recordVars, appVars, known>>

(* RunState::complete: successors not yet done lose one predecessor, and   *)
(* the ones left with none become ready.  Mutants: done successors are not *)
(* skipped; a successor is ready once any predecessor is done.             *)
BlockedOrDone(n) == Succs(n)
Blocked(n) == Succs(n) \ (outputs \cup {n})

CompleteAny(n) ==
  /\ outputs' = outputs \cup {n}
  /\ indeg' = [m \in Nodes |-> IF m \in Blocked(n) THEN 0 ELSE indeg[m]]
  /\ ready' = ready \cup {m \in Blocked(n) : lane[m] = "idle"}
  /\ UNCHANGED <<stopping, outcome>>

Complete(n) ==
  /\ outputs' = outputs \cup {n}
  /\ indeg' = [m \in Nodes |-> IF m \in Blocked(n) /\ indeg[m] > 0
                               THEN indeg[m] - 1 ELSE indeg[m]]
  /\ ready' = ready \cup {m \in Blocked(n) : indeg'[m] = 0}
  /\ UNCHANGED <<stopping, outcome>>

(* A lane that failed stops the run; the first failure is the outcome.     *)
OutcomeOf == [fork |-> "fork", gate |-> "gate", fatal |-> "error"]

Stop(n) ==
  /\ stopping' = TRUE
  /\ outcome' = IF outcome = "committed" THEN OutcomeOf[res[n]] ELSE outcome
  /\ UNCHANGED <<outputs, indeg, ready>>

(* join_next hands over the result of some finished lane.  Mutant: a fork  *)
(* that fired counts as success.                                           *)
SuccessOrFork(r) == r \in {"ok", "fork"}
Success(r) == r = "ok"

Join(n) ==
  /\ status = "running" /\ ready = {}
  /\ lane[n] = "finished"
  /\ lane' = [lane EXCEPT ![n] = "joined"]
  /\ res' = [res EXCEPT ![n] = "none"]
  /\ \/ Success(res[n]) /\ Complete(n)
     \/ ~Success(res[n]) /\ Stop(n)
  /\ UNCHANGED <<status, allowed, try, recordVars, appVars, known>>

(* join_next has nothing left to wait for: the recorder is drained into    *)
(* the ledger, and a commit that missed nodes is turned into an error.     *)
(* Mutant: the loop is left at the first failure, whatever is in flight.   *)
Drain ==
  /\ status' = "ended"
  /\ ledOk' = ledOk \cup recOk
  /\ recOk' = {}
  /\ outcome' = IF outcome = "committed" /\ outputs # Nodes
                THEN "incomplete" ELSE outcome
  /\ UNCHANGED <<allowed, outputs, indeg, ready, stopping, laneVars, runs,
                 crashes, appVars, known>>

FinishAtFailure ==
  /\ status = "running" /\ ready = {}
  /\ stopping \/ \A n \in Nodes : lane[n] \notin Spawned
  /\ Drain

Finish ==
  /\ status = "running" /\ ready = {}
  /\ \A n \in Nodes : lane[n] \notin Spawned
  /\ Drain
-----------------------------------------------------------------------------
(* The lanes: execute and, for a wait, wait_with_check.                    *)

Holders(s) == {m \in Nodes : SurfaceOf[m] = s /\ lane[m] \in Holding}

InFlight(n, st) == status = "running" /\ lane[n] \in st

(* The lane's task returns r.                                              *)
Return(n, r) ==
  /\ lane' = [lane EXCEPT ![n] = "finished"]
  /\ res' = [res EXCEPT ![n] = r]
  /\ try' = [try EXCEPT ![n] = 0]
  /\ known' = IF r = "ok" THEN known \cup {n} ELSE known

(* No effector for the node's surface.                                     *)
NoEffector(n) ==
  /\ InFlight(n, {"queued"}) /\ n \notin Waits /\ SurfaceOf[n] \notin Doors
  /\ Return(n, "fatal")
  /\ UNCHANGED <<runVars, recordVars, appVars>>

(* A wait takes no permit.  At the top of its loop it ends with the event, *)
(* or with its deadline (no bus, timed out).                               *)
WaitEnds(n) ==
  /\ InFlight(n, {"queued"}) /\ n \in Waits
  /\ \/ Return(n, "ok") /\ recOk' = recOk \cup {n}
     \/ Return(n, "fatal") /\ UNCHANGED recOk
  /\ UNCHANGED <<runVars, ledOk, runs, crashes, appVars>>

(* A slice of the wait went by without the event: the lane reads the world *)
(* once.  Nothing bounds this read, neither node_timeout nor the deadline. *)
Glance(n) ==
  /\ InFlight(n, {"queued"}) /\ n \in Checked
  /\ lane' = [lane EXCEPT ![n] = "glancing"]
  /\ UNCHANGED <<runVars, try, res, recordVars, appVars, known>>

(* A permit, then the first attempt.                                       *)
Acquire(n) ==
  /\ InFlight(n, {"queued"}) /\ n \notin Waits /\ SurfaceOf[n] \in Doors
  /\ Cardinality(Holders(SurfaceOf[n])) < Pool[SurfaceOf[n]]
  /\ lane' = [lane EXCEPT ![n] = "sent"]
  /\ try' = [try EXCEPT ![n] = 1]
  /\ UNCHANGED <<runVars, res, recordVars, appVars, known>>

(* The failed attempt a is retried after a sleep unless the budget it is   *)
(* measured against is used up: Retryable against max_attempts, Throttled  *)
(* against twice as many, with one attempt counter for both.  Mutant: one  *)
(* attempt too many.                                                       *)
BudgetOneMore(r) == IF r = "throttled" THEN 2 * MaxAttempts + 1 ELSE MaxAttempts
Budget(r) == IF r = "throttled" THEN 2 * MaxAttempts ELSE MaxAttempts

RetryOrGiveUp(n, r) ==
  \/ /\ try[n] < Budget(r)
     /\ lane' = [lane EXCEPT ![n] = "backoff"]
     /\ res' = [res EXCEPT ![n] = "none"]
     /\ UNCHANGED <<try, known>>
  \/ /\ try[n] >= Budget(r)
     /\ Return(n, "fatal")

(* The answer reaches the lane, is recorded, and decides what comes next.  *)
(* An ok answer of a guarded lookup may fire its fork instead; the row is  *)
(* ok all the same.                                                        *)
ReceiveOk(n) ==
  /\ InFlight(n, {"replied"}) /\ res[n] = "ok"
  /\ recOk' = recOk \cup {n}
  /\ \/ Return(n, "ok")
     \/ n \in Forkable /\ Return(n, "fork")
  /\ UNCHANGED <<runVars, ledOk, runs, crashes, appVars>>

ReceiveError(n) ==
  /\ InFlight(n, {"replied"}) /\ res[n] # "ok"
  /\ \/ res[n] = "fatal" /\ Return(n, "fatal")
     \/ res[n] # "fatal" /\ RetryOrGiveUp(n, res[n])
  /\ UNCHANGED <<runVars, recordVars, appVars>>

(* node_timeout or a transport error: no answer will be read.  A request   *)
(* the app has not handled yet may still reach it.  Mutant: the row of a   *)
(* call that timed out is written as ok.                                   *)
NoAnswerTakenForOk(n) ==
  /\ InFlight(n, {"sent", "replied"})
  /\ RetryOrGiveUp(n, "retryable")
  /\ late' = IF lane[n] = "sent" THEN [late EXCEPT ![n] = @ + 1] ELSE late
  /\ recOk' = recOk \cup {n}
  /\ UNCHANGED <<runVars, ledOk, runs, crashes, effects, replay>>

NoAnswer(n) ==
  /\ InFlight(n, {"sent", "replied"})
  /\ RetryOrGiveUp(n, "retryable")
  /\ late' = IF lane[n] = "sent" THEN [late EXCEPT ![n] = @ + 1] ELSE late
  /\ UNCHANGED <<runVars, recordVars, effects, replay>>

(* The backoff is over: the next attempt, with the same key.  Mutant: the  *)
(* attempt is not counted.                                                 *)
ResendUncounted(n) ==
  /\ InFlight(n, {"backoff"})
  /\ lane' = [lane EXCEPT ![n] = "sent"]
  /\ UNCHANGED <<runVars, try, res, recordVars, appVars, known>>

Resend(n) ==
  /\ InFlight(n, {"backoff"})
  /\ lane' = [lane EXCEPT ![n] = "sent"]
  /\ try' = [try EXCEPT ![n] = @ + 1]
  /\ UNCHANGED <<runVars, res, recordVars, appVars, known>>
-----------------------------------------------------------------------------
(* The app's door, one request at a time under the app's mutex.            *)

(* A remembered key is answered with the remembered result and changes     *)
(* nothing; any other write takes effect and, if keyed, is remembered.     *)
(* Mutant: the answer is not remembered.                                   *)
LandForgetful(n) ==
  IF n \in replay \/ n \notin Writes
  THEN UNCHANGED <<effects, replay>>
  ELSE /\ effects' = [effects EXCEPT ![n] = @ + 1]
       /\ UNCHANGED replay

Land(n) ==
  IF n \in replay \/ n \notin Writes
  THEN UNCHANGED <<effects, replay>>
  ELSE /\ effects' = [effects EXCEPT ![n] = @ + 1]
       /\ replay' = replay \cup ({n} \cap Keyed)

(* The request is handled and its answer is on the way.                    *)
Serve(n) ==
  /\ InFlight(n, {"sent"})
  /\ Land(n)
  /\ lane' = [lane EXCEPT ![n] = "replied"]
  /\ res' = [res EXCEPT ![n] = "ok"]
  /\ UNCHANGED <<runVars, try, recordVars, late, known>>

(* The glance is answered: the fact holds and the wait is over, or the     *)
(* loop goes round.                                                        *)
GlanceAnswered(n) ==
  /\ InFlight(n, {"glancing"})
  /\ \/ Return(n, "ok") /\ recOk' = recOk \cup {n}
     \/ /\ lane' = [lane EXCEPT ![n] = "queued"]
        /\ UNCHANGED <<try, res, recOk, known>>
  /\ UNCHANGED <<runVars, ledOk, runs, crashes, appVars>>

(* The request is refused without an effect (rate window, a 5xx, a domain  *)
(* error).  A remembered key is never refused: the replay comes first.     *)
Refuse(n) ==
  /\ InFlight(n, {"sent"}) /\ n \notin replay
  /\ lane' = [lane EXCEPT ![n] = "replied"]
  /\ \E r \in Answers \ {"ok"} : res' = [res EXCEPT ![n] = r]
  /\ UNCHANGED <<runVars, try, recordVars, appVars, known>>

(* A request its lane has given up arrives after all; nobody reads the     *)
(* answer.  (One that is lost instead never takes this step.)              *)
LateArrival(n) ==
  /\ late[n] > 0
  /\ late' = [late EXCEPT ![n] = @ - 1]
  /\ Land(n)
  /\ UNCHANGED <<runVars, laneVars, recordVars, known>>

(* The process ends mid-run: the recorder's rows are gone, the ledger is   *)
(* what the previous run left, and requests in flight are on their own.    *)
Crash ==
  /\ status = "running" /\ crashes < MaxCrashes
  /\ crashes' = crashes + 1
  /\ status' = "down"
  /\ recOk' = {}
  /\ late' = [n \in Nodes |-> IF lane[n] = "sent" THEN late[n] + 1 ELSE late[n]]
  /\ outputs' = {} /\ ready' = {}
  /\ indeg' = [n \in Nodes |-> 0]
  /\ stopping' = FALSE /\ outcome' = "committed"
  /\ lane' = [n \in Nodes |-> "idle"]
  /\ try' = [n \in Nodes |-> 0]
  /\ res' = [n \in Nodes |-> "none"]
  /\ UNCHANGED <<allowed, ledOk, runs, effects, replay, known>>
-----------------------------------------------------------------------------

Engine == Dispatch \/ Discard \/ Finish \/ \E n \in Nodes : Join(n)

Lane(n) ==
  \/ NoEffector(n) \/ WaitEnds(n) \/ Glance(n) \/ Acquire(n)
  \/ ReceiveOk(n) \/ ReceiveError(n) \/ NoAnswer(n) \/ Resend(n)

App(n) == Serve(n) \/ GlanceAnswered(n) \/ Refuse(n) \/ LateArrival(n)

Next ==
  \/ StartRun
  \/ Engine
  \/ \E n \in Nodes : Lane(n) \/ App(n)
  \/ Crash

Spec == Init /\ [][Next]_vars

(* The runtime polls the loop and every lane; timers fire.  A deadline     *)
(* stays passed: a wait that keeps coming back to the top of its loop ends *)
(* there.  Nothing is assumed of the app, the network or whoever starts    *)
(* the runs.                                                               *)
Fairness ==
  /\ WF_vars(Engine)
  /\ \A n \in Nodes : WF_vars(Lane(n)) /\ SF_vars(WaitEnds(n))

FairSpec == Spec /\ Fairness
-----------------------------------------------------------------------------
(* Properties.                                                             *)

(* A keyed write changes the app at most once, over all attempts, late     *)
(* requests, crashes and resumed runs of the plan: the key the scheduler   *)
(* keeps across retries and the app's replay table together.               *)
ExactlyOnce == \A n \in Keyed : effects[n] <= 1

(* Along every edge, the later node has neither changed the app nor been   *)
(* reported done before the earlier one was reported done and, if it is a  *)
(* write, took effect: RunState's counting of missing predecessors, also   *)
(* when it starts from the nodes a former run completed.                   *)
OrderedEffects ==
  \A e \in Edges :
     effects[e[2]] > 0 \/ e[2] \in known =>
        /\ e[1] \in known
        /\ e[1] \in Writes => effects[e[1]] > 0

(* An ok row, in the recorder or in the ledger, is never about a write     *)
(* that did not happen: "the receipt is a view of this, never a claim".    *)
LedgerHonest == \A n \in (recOk \cup ledOk) \cap Writes : effects[n] > 0

(* A run that ends committed has seen every node of the plan succeed and   *)
(* every write of it happen.                                               *)
CommittedIsComplete ==
  status = "ended" /\ outcome = "committed" =>
     /\ Nodes \subseteq known
     /\ \A n \in Writes : effects[n] > 0

(* The loop never runs dry with nodes left over: the error "x of n nodes   *)
(* completed" is unreachable on a plan without cycles, on a first run and  *)
(* on a resumed one.                                                       *)
NeverIncomplete == outcome # "incomplete"

(* A run ends the way PlanRun tells it: every lane it started has had its  *)
(* say, the lanes that did not succeed are behind nodes that did, the      *)
(* outcome is that of one of them, and every answer is in the ledger.      *)
StatusOf(o) == CASE o \in {"fork", "gate"} -> "need_think"
                 [] o = "committed" -> "committed"
                 [] OTHER -> "error"

RunsAsTold ==
  [][status = "running" /\ status' = "ended" =>
        LET asked == recOk \ outputs
            run == [ok |-> outputs \ Completed, asked |-> asked,
                    failed |-> {n \in Nodes : lane[n] # "idle"} \ (outputs \cup asked),
                    outcome |-> StatusOf(outcome')]
        IN /\ \A n \in Nodes : lane[n] \in {"idle", "joined"}
           /\ PossibleRun(Nodes, Edges, Forkable, IF allowed THEN {} ELSE External,
                          Completed, run)
           /\ ledOk' = ledOk \cup run.ok \cup run.asked]_vars

(* Within a run no node starts twice, and a node the ledger proves done    *)
(* does not start at all ("nothing in done is re-sent").                   *)
NoRerun ==
  [][status = "running" /\ status' = "running" =>
        \A n \in Nodes :
           \/ lane'[n] = lane[n]
           \/ lane[n] # "joined" /\ lane'[n] # "idle" /\ n \notin Completed]_vars

(* Once a lane has failed, or asks a question, no further node starts.     *)
StopIsFinal ==
  [][status = "running" /\ status' = "running" /\ stopping =>
        \A n \in Nodes : lane[n] = "idle" => lane'[n] = "idle"]_vars

(* No call to the outside leaves a run whose external gate is closed.      *)
GatesHold ==
  [][\A n \in External : lane[n] # "sent" /\ lane'[n] = "sent" => allowed]_vars

(* What the key stamp's comment says, "stamp a key on every write", and    *)
(* what Ledger::completed concludes from it: only reads and waits carry no *)
(* key, so a node that runs again on a resume changes nothing twice.       *)
WritesHappenOnce == \A n \in Writes : effects[n] <= 1

(* Every run ends, however the app and the network behave: attempts are    *)
(* counted, calls time out, waits have a deadline, permits are given back. *)
(* It fails for plans with a checked wait: see Glance.                     *)
RunEnds == status = "running" ~> status # "running"

(* The engine implements the promise.                                      *)
Promise == INSTANCE PlanExecution WITH
  effect  <- [n \in Keyed |-> effects[n]],
  applied <- {n \in Writes : effects[n] > 0},
  known   <- known,
  verdict <- CASE status # "ended" -> "open"
               [] status = "ended" /\ outcome = "committed" -> "committed"
               [] OTHER -> "stopped"

KeepsPromise == Promise!Spec
=============================================================================
