-------------------------------- MODULE Host --------------------------------
(***************************************************************************)
(* The rwmcp command (crates/cli/src/main.rs) over the session             *)
(* (crates/rwmcp/src/session.rs): one command after another against apps   *)
(* that keep what was written, a planner, a ledger that a run may leave in *)
(* a file for another process to resume, and recipes.                      *)
(*                                                                         *)
(* A step ends with the process alive or gone; one that is killed, or      *)
(* cannot read or write a file or reach the app, is gone and writes        *)
(* nothing more.  How a plan is run is what PlanRun says, and is taken in  *)
(* one step: who is killed in a run has had one that ended there.  Wants   *)
(* and plans are names and tables, so that nothing depends on how they     *)
(* come about.                                                             *)
(***************************************************************************)
EXTENDS Planner, Ledger, FiniteSets, PlanRun

CONSTANTS
  Apps,       \* where an app is, running or as a file
  Files,      \* those that are a file
  DefaultApp, \* the one when nobody says
  Unsaid,
  WorldOf,    \* the world model an app publishes
  Offered,    \* the surfaces a world model mentions
  Plans,      \* Plans[w, s, i]: what compile makes of i, [err, nodes, edges]
  Placeheld,  \* the intents with placeholders in them
  Filled,     \* Filled[i, v]: its placeholders filled with v
  Answered,   \* Answered[i]: i with --answer's rewriting, for those it changes
  Sturdy,     \* the <<world, surfaces, intent>> --order-check finds nothing about
  Commands,   \* the command lines
  Pids,       \* the process ids
  MaxCommands,
  Library,    \* what somebody who embeds the planner asks it
  MaxCached   \* how many of the answers the cache may have when they ask

(* Of a plan: no two nodes that write are one call, and share a key; and   *)
(* the surfaces decide where its calls go, or that one has nowhere to go,  *)
(* but not which calls there are.                                          *)
ASSUME HostAssumption ==
  /\ MaxCommands \in Nat
  /\ DefaultApp \in Apps /\ WorldOf \in [Apps -> Worlds] /\ Library \subseteq Jobs
  /\ \A c \in Commands :
       /\ c.app \in Apps \cup {Unsaid} /\ c.goal \in Goals /\ c.surfaces \in SurfaceSets
       /\ c.intent \in Intents /\ \A i \in Intents : Filled[i, c.set] \in Intents
  /\ \A i \in DOMAIN Answered : Answered[i] \in Intents
  /\ \A w \in Worlds, s \in SurfaceSets, i \in Intents :
       LET nodes == Plans[w, s, i].nodes IN
       \A m, n \in DOMAIN nodes :
         nodes[m].keyed /\ nodes[n].keyed /\ nodes[m].canon = nodes[n].canon => m = n
  /\ \A w \in Worlds, s, t \in SurfaceSets, i \in Intents :
       Plans[w, s, i].err = "none" /\ Plans[w, t, i].err = "none"
         => Plans[w, s, i].nodes = Plans[w, t, i].nodes

VARIABLES
  at,       \* "idle", or where act() is
  me,       \* what the process knows
  file,     \* the RunState on disk
  recipe,   \* the recipe on disk
  exit,     \* the exit code of the latest command
  commands, \* how many there were
  applied   \* the keyed writes each app has carried out

host == <<at, me, file, recipe, exit, commands, applied>>

None == <<>>

(* A process: its command line, the app, opts.plan_id, the intent, the     *)
(* rows of its ledger, how its latest run ended and whether it has had its *)
(* answer.  For the properties: the number of the command it continues,    *)
(* whether its ledger comes from another app, and whether a fork was       *)
(* answered since that command.                                            *)
Process(c, a, p, t) ==
  [cmd |-> c, app |-> a, planId |-> p, wants |-> Empty, rows |-> {}, outcome |-> "none",
   again |-> FALSE, task |-> t, strayed |-> FALSE, renamed |-> FALSE]

Nobody == Process(None, DefaultApp, None, 0)

HostInit ==
  /\ PlannerInit
  /\ at = "idle" /\ me = Nobody /\ file = None /\ recipe = None /\ exit = "none"
  /\ commands = 0 /\ applied = [a \in Apps |-> {}]

World == WorldOf[me.app]
PlanFor(i) == Plans[World, me.cmd.surfaces, i]
Plan == PlanFor(me.wants)

Exit(code) == at' = "idle" /\ exit' = code /\ me' = Nobody

Go(where, process) == at' = where /\ me' = process /\ UNCHANGED exit

(***************************************************************************)
(* A command starts.  Its plan id comes from its process id; the app from  *)
(* the command line, or from the recipe, or it is the default.             *)
(***************************************************************************)
FreshId(p) == <<"cli", p>>

AppOf(c) ==
  IF c.app # Unsaid THEN c.app
  ELSE IF c.source = "recipe" /\ recipe # None THEN recipe.app
  ELSE DefaultApp

Begin(c, p) ==
  /\ at = "idle" /\ phase = "idle" /\ cache = <<>> /\ commands < MaxCommands
  /\ commands' = commands + 1
  /\ IF c.source = "recipe" /\ c.app = Unsaid /\ recipe = None THEN Exit("unreachable")
     ELSE IF ~(c.surfaces \subseteq Offered[WorldOf[AppOf(c)]]) THEN Exit("wants_rejected")
     ELSE /\ at' = "sourcing" /\ exit' = "none"
          /\ me' = Process(c, AppOf(c), FreshId(p), commands + 1)
  /\ UNCHANGED <<file, recipe, applied, planner>>

(* Killed, or in want of a file or of the app.                             *)
Gone ==
  /\ at # "idle"
  /\ Exit("gone")
  /\ IF at = "planning"
     THEN /\ phase' = "idle" /\ job' = NoJob /\ facts' = NoFacts /\ intent' = Empty
          /\ requests' = 0 /\ samples' = 0 /\ UNCHANGED <<data, cache>>
     ELSE UNCHANGED planner
  /\ UNCHANGED <<file, recipe, commands, applied>>

(***************************************************************************)
(* act(): where the wants come from.                                       *)
(***************************************************************************)
(* Mutant: a resumed run keys its writes to its own process.               *)
OwnId(st, p) == p

OptsUnder(st, p) == st.planId

(* A saved run brings wants, plan id and ledger; what it compiles to goes  *)
(* straight to execute().                                                  *)
Resume ==
  /\ at = "sourcing" /\ me.cmd.source = "resume"
  /\ IF file = None THEN Exit("unreachable")
     ELSE IF PlanFor(file.wants).err # "none" THEN Exit("wants_rejected")
     ELSE Go("planned",
             [me EXCEPT !.wants = file.wants, !.rows = file.rows, !.task = file.task,
                        !.planId = OptsUnder(file, @), !.renamed = file.renamed,
                        !.strayed = file.strayed \/ file.app # me.app])
  /\ UNCHANGED <<file, recipe, commands, applied, planner>>

JobOf(isFork) ==
  [goal |-> me.cmd.goal, world |-> World, surfaces |-> me.cmd.surfaces,
   live |-> me.app \notin Files, cached |-> FALSE, fork |-> isFork]

AskTheModel(isFork) ==
  /\ \E f \in FactsFor(JobOf(isFork)) : Ask(JobOf(isFork), f)
  /\ Go("planning", me)
  /\ UNCHANGED <<file, recipe, commands, applied>>

AskForWants == at = "sourcing" /\ me.cmd.source = "goal" /\ AskTheModel(FALSE)

(* A recipe written against another world model needs --force.             *)
ReadWants ==
  /\ at = "sourcing"
  /\ \/ /\ me.cmd.source = "wants"
        /\ Go("sourced", [me EXCEPT !.wants = me.cmd.intent])
     \/ /\ me.cmd.source = "recipe"
        /\ IF recipe = None THEN Exit("unreachable")
           ELSE IF recipe.print # PrintOf[World] /\ ~me.cmd.force THEN Exit("wants_rejected")
           ELSE Go("sourced", [me EXCEPT !.wants = recipe.wants])
  /\ UNCHANGED <<file, recipe, commands, applied, planner>>

(***************************************************************************)
(* From wants to a plan: saved as a recipe before anything is said about   *)
(* them, filled, expanded, checked and compiled; without --run that is all.*)
(***************************************************************************)
(* Selectors stay as they are when the app cannot be read.                 *)
Selected(i) == {i} \cup (IF me.app \in Files THEN {} ELSE {Expanded[i, data]})

Prepare ==
  /\ at = "sourced"
  /\ recipe' = IF me.cmd.save THEN [app |-> me.app, wants |-> me.wants, print |-> PrintOf[World]]
               ELSE recipe
  /\ LET filled == Filled[me.wants, me.cmd.set] IN
     IF filled \in Placeheld THEN Exit("wants_rejected")
     ELSE \E i \in Selected(filled) :
       LET way == <<World, me.cmd.surfaces, i>> IN
       IF me.cmd.order THEN Exit(IF way \in Sturdy THEN "done" ELSE "wants_rejected")
       ELSE IF way \notin Accepted \/ PlanFor(i).err # "none" THEN Exit("wants_rejected")
       ELSE IF ~me.cmd.run THEN Exit("done")
       ELSE Go("planned", [me EXCEPT !.wants = i])
  /\ UNCHANGED <<file, commands, applied, planner>>

(***************************************************************************)
(* execute(): what leaves the system needs --yes.                          *)
(***************************************************************************)
External(plan) == {n \in DOMAIN plan.nodes : plan.nodes[n].external}

(* Mutant: --run is taken for a yes.                                       *)
RunIsYes(plan) == External(plan) = {} \/ me.cmd.yes \/ me.cmd.run

Confirmed(plan) == External(plan) = {} \/ me.cmd.yes

Confirm ==
  /\ at = "planned"
  /\ IF me.app \in Files THEN Exit("unreachable")
     ELSE IF ~Confirmed(Plan) THEN Exit("refused")
     ELSE Go("running", me)
  /\ UNCHANGED <<file, recipe, commands, applied, planner>>

(***************************************************************************)
(* A run, which comes to what PlanRun says: of the nodes that fail, some   *)
(* were called and have a row, and the writes in landed among those are    *)
(* carried out all the same.  The app answers a key it knows from memory.  *)
(***************************************************************************)
Write(node) ==
  [key |-> KeyOf(me.planId, node), external |-> node.external, task |-> me.task,
   yes |-> me.cmd.yes, answered |-> me.again]

Keyed(plan, S) == {n \in S : plan.nodes[n].keyed}

Carried(plan, S) ==
  LET Writes == {Write(plan.nodes[n]) : n \in Keyed(plan, S)} IN
  applied' = [applied EXCEPT ![me.app] =
                @ \cup {x \in Writes : \A y \in @ : y.key # x.key}]

Rows(plan, S, ok) ==
  {[run |-> 1 + Cardinality({r.run : r \in me.rows}), node |-> n,
    key |-> KeyOf(me.planId, plan.nodes[n]), ok |-> ok] : n \in S}

Ends(how, rows) == Go("ran", [me EXCEPT !.outcome = how, !.rows = @ \cup rows])

RunOf(plan) ==
  LET nodes == DOMAIN plan.nodes
      forks == {n \in nodes : plan.nodes[n].fork}
      done == Completed(me.rows, me.planId, plan.nodes)
      fair(ok) == Startable(nodes, plan.edges, done \cup ok)
  IN \E ok \in SUBSET (nodes \ done) :
     \E asked \in SUBSET fair(ok) : \E failed \in SUBSET fair(ok) :
     \E how \in {"committed", "need_think", "error"} :
       /\ PossibleRun(nodes, plan.edges, forks, {}, done,
                      [ok |-> ok, asked |-> asked, failed |-> failed, outcome |-> how])
       /\ \E called \in SUBSET failed : \E landed \in SUBSET Keyed(plan, called) :
            /\ Ends(how, Rows(plan, ok \cup asked, TRUE) \cup Rows(plan, called, FALSE))
            /\ Carried(plan, ok \cup asked \cup landed)

RunPlan == at = "running" /\ RunOf(Plan) /\ UNCHANGED <<file, recipe, commands, planner>>

(***************************************************************************)
(* A fork: answered once, by the command line or by the model.  The wants  *)
(* are compiled again and run, with nothing asked about them.              *)
(***************************************************************************)
Stopped == at = "ran" /\ me.outcome = "need_think" /\ ~me.again /\ me.cmd.answer # "none"

RunAgain(i) ==
  IF PlanFor(i).err # "none" THEN Exit("wants_rejected")
  ELSE Go("running", [me EXCEPT !.wants = i, !.again = TRUE, !.renamed = TRUE])

AnswerGiven ==
  /\ Stopped /\ me.cmd.answer = "given"
  /\ IF me.wants \in DOMAIN Answered THEN RunAgain(Answered[me.wants])
     ELSE Exit("wants_rejected")
  /\ UNCHANGED <<file, recipe, commands, applied, planner>>

AskForAnAnswer == Stopped /\ me.cmd.answer = "model" /\ AskTheModel(TRUE)

(* The planner is done, with the wants of a goal or with an answer.        *)
Planned ==
  /\ at = "planning" /\ Return
  /\ IF phase = "failed" THEN Exit("planner_failed")
     ELSE IF job.fork THEN RunAgain(intent)
     ELSE Go("sourced", [me EXCEPT !.wants = intent])
  /\ UNCHANGED <<file, recipe, commands, applied>>

(***************************************************************************)
(* The end: a receipt, the state for another process, an exit code.        *)
(***************************************************************************)
Report ==
  /\ at = "ran" /\ ~Stopped
  /\ file' = IF ~me.cmd.out THEN file
             ELSE [app |-> me.app, wants |-> me.wants, planId |-> me.planId, rows |-> me.rows,
                   task |-> me.task, strayed |-> me.strayed, renamed |-> me.renamed]
  /\ Exit(CASE me.outcome = "committed"  -> "done"
            [] me.outcome = "need_think" -> "needs_answer"
            [] me.outcome = "error"      -> "run_failed")
  /\ UNCHANGED <<recipe, commands, applied, planner>>

(***************************************************************************)
(* Somebody who embeds the planner asks it through a cache.  A behaviour   *)
(* has commands or it has these: they share nothing.                       *)
(***************************************************************************)
LibraryAsks ==
  /\ commands = 0 /\ Cardinality(DOMAIN cache) <= MaxCached
  /\ \E j \in Library : \E f \in FactsFor(j) : Ask(j, f)

Elsewhere == LibraryAsks \/ (commands = 0 /\ Return) \/ Sampling \/ DataChange

HostNext ==
  \/ \E c \in Commands, p \in Pids : Begin(c, p)
  \/ Gone \/ Resume \/ AskForWants \/ ReadWants \/ Prepare \/ Confirm \/ RunPlan
  \/ AnswerGiven \/ AskForAnAnswer \/ Planned \/ Report
  \/ Elsewhere /\ UNCHANGED host

HostSpec == HostInit /\ [][HostNext]_<<planner, host>>

(***************************************************************************)
(* Properties.                                                             *)
(***************************************************************************)
TypeOK ==
  /\ PlannerTypeOK
  /\ at \in {"idle", "sourcing", "planning", "sourced", "planned", "running", "ran"}
  /\ exit \in {"none", "done", "wants_rejected", "needs_answer", "refused", "unreachable",
               "planner_failed", "run_failed", "gone"}
  /\ me.app \in Apps /\ me.wants \in Intents /\ commands \in 0..MaxCommands
  /\ me.outcome \in {"none", "committed", "need_think", "error"}
  /\ at \in {"planned", "running", "ran"} => Plan.err = "none"
  /\ at = "planning" => phase # "idle" /\ ~job.cached
  /\ file # None => file.wants \in Intents /\ file.task \in 1..commands
  /\ recipe # None => recipe.wants \in Intents /\ recipe.app \in Apps

(* A command, its answers and every process that resumes it carry out a    *)
(* write of the plan at one app once, whatever was lost on the way.        *)
NothingTwice ==
  \A a \in Apps : \A x, y \in applied[a] :
    x.task = y.task /\ x.key[2] = y.key[2] => x = y

(* What leaves the system without --yes does so only by a plan that was    *)
(* compiled after a fork was answered; any other is turned down.           *)
UnaskedOnlyAfterAnswer ==
  \A a \in Apps : \A x \in applied[a] : x.external => x.yes \/ x.answered

(* A run that says it committed has carried out every write of its plan,   *)
(* in this process or in one it continues, unless its ledger was kept      *)
(* with another app.                                                       *)
CommittedMeansDone ==
  at = "ran" /\ me.outcome = "committed" /\ ~me.strayed =>
    LET nodes == Plan.nodes IN
    \A n \in Keyed(Plan, DOMAIN nodes) : \E x \in applied[me.app] :
      x.key = KeyOf(me.planId, nodes[n])

(* Until a fork is answered, and with the app its ledger was kept with,    *)
(* the receipt lists as done the writes its rows prove, and no other, and  *)
(* all of them are in the app.                                             *)
ReceiptTells ==
  at = "ran" /\ ~me.renamed /\ ~me.strayed =>
    LET Sure == {e.key : e \in {x \in Effects(me.rows, me.planId, Plan.nodes) : x.ok}} \ {NoKey}
    IN /\ Sure = {r.key : r \in {x \in me.rows : x.ok}} \ {NoKey}
       /\ Sure \subseteq {x.key : x \in applied[me.app]}

(* The figures of a receipt are right whatever the rows are that one gets  *)
(* to report: a fact about the sweeps, looked at before the first command. *)
FiguresAreRight ==
  commands = 0 /\ at = "idle" /\ phase = "idle" /\ cache = <<>> => FiguresHold
=============================================================================
