------------------------------ MODULE HostProofs ------------------------------
(***************************************************************************)
(* What the rwmcp command keeps for any commands, plans, apps, models and  *)
(* process ids, however often its processes end; and what the planner in   *)
(* it hands over, for any model, any lint, any cache that builds up and    *)
(* any app that changes meanwhile.                                         *)
(***************************************************************************)
EXTENDS Host, LedgerProofs, FiniteSetTheorems, WellFoundedInduction, TLAPS

(***************************************************************************)
(* The planner by itself.                                                  *)
(***************************************************************************)
(* The key stands for the world model and the surfaces it was made for.    *)
CacheFits == \A k \in DOMAIN cache : AcceptedUnder(k.world, k.surfaces, cache[k])

(* While the model is asked there is a sample left to pay for.             *)
SamplesLeft ==
  /\ samples \in Nat
  /\ phase = "asking" => samples < MaxSamples(job)
  /\ phase = "replied" => samples <= MaxSamples(job)

PlannerInv == PlannerTypeOK /\ CacheFits /\ SamplesLeft /\ HandedOverFits

(* Expansion leads from an intent to an intent.                            *)
LEMMA MeantIsIntent == ASSUME PlannerTypeOK PROVE Meant \in Intents
  BY PlannerAssumption DEF PlannerTypeOK, Meant

(* What fits its job is accepted for a world with that fingerprint.        *)
LEMMA FitsIsAccepted ==
  ASSUME NEW j \in Jobs, NEW i, Fits(j, i)
  PROVE  AcceptedUnder(PrintOf[j.world], j.surfaces, i)
  BY DEF Fits, AcceptedUnder, Jobs

(* Samples never run out while they are being paid for.                    *)
LEMMA AtLeastTwo == ASSUME NEW j PROVE MaxSamples(j) \in {2, 3}
  BY DEF MaxSamples

(* The invariant holds initially.                                          *)
LEMMA PlannerInvInit == PlannerInit => PlannerInv
  BY PlannerAssumption
  DEF PlannerInit, PlannerInv, PlannerTypeOK, CacheFits, SamplesLeft, HandedOverFits

(* A question: a hit in the cache was accepted under the very key.         *)
LEMMA AskKeeps ==
  ASSUME PlannerInv, NEW j \in Jobs, NEW f \in FactsFor(j), Ask(j, f)
  PROVE  PlannerInv'
  <1>1. job' = j /\ facts' = f /\ requests' = 0 /\ samples' = 0 /\ data' = data /\ cache' = cache
    BY DEF Ask
  <1>2. f \in {Shown[d] : d \in Datas} \cup {NoFacts}
    BY DEF FactsFor, PlannerInv, PlannerTypeOK
  <1>3. CASE j.cached /\ Key(j, f) \in DOMAIN cache
    <2>1. phase' = "handed" /\ intent' = cache[Key(j, f)]
      BY <1>3 DEF Ask
    <2>2. AcceptedUnder(PrintOf[j.world], j.surfaces, cache[Key(j, f)])
      BY <1>3 DEF PlannerInv, CacheFits, Key
    <2>3. HandedOverFits'
      BY <1>1, <2>1, <2>2, AtLeastTwo DEF HandedOverFits, AcceptedUnder
    <2>4. PlannerTypeOK'
      BY <1>1, <1>2, <1>3, <2>1, PlannerAssumption DEF PlannerInv, PlannerTypeOK
    <2> QED
      BY <1>1, <2>1, <2>3, <2>4 DEF PlannerInv, CacheFits, SamplesLeft, AcceptedUnder
  <1>4. CASE ~(j.cached /\ Key(j, f) \in DOMAIN cache)
    <2>1. phase' = "asking" /\ intent' = intent
      BY <1>4 DEF Ask
    <2>2. PlannerTypeOK'
      BY <1>1, <1>2, <2>1, PlannerAssumption DEF PlannerInv, PlannerTypeOK
    <2>3. SamplesLeft'
      BY <1>1, <2>1, AtLeastTwo DEF SamplesLeft
    <2> QED
      BY <1>1, <2>1, <2>2, <2>3 DEF PlannerInv, CacheFits, HandedOverFits, AcceptedUnder
  <1> QED
    BY <1>3, <1>4

(* A sample under way touches neither the cache nor what was handed over.  *)
LEMMA AskingKeeps ==
  ASSUME PlannerInv, Busy \/ RequestFails \/ Reply \/ Nonsense
  PROVE  PlannerInv'
  <1> USE DEF PlannerInv, PlannerTypeOK
  <1>1. job \in Jobs /\ MaxSamples(job) \in {2, 3}
    BY AtLeastTwo DEF Busy, RequestFails, Reply, Nonsense
  <1>2. CacheFits'
    BY DEF Busy, RequestFails, Reply, Nonsense, CacheFits, AcceptedUnder
  <1>3. PlannerTypeOK'
    BY PlannerAssumption DEF Busy, RequestFails, Reply, Nonsense
  <1>4. SamplesLeft'
    BY <1>1 DEF Busy, RequestFails, Reply, Nonsense, SamplesLeft, MaxSamples
  <1>5. HandedOverFits'
    BY DEF Busy, RequestFails, Reply, Nonsense, HandedOverFits
  <1> QED
    BY <1>2, <1>3, <1>4, <1>5

(* What lint accepts is handed over, and stored under the key of its job.  *)
LEMMA AcceptKeeps == ASSUME PlannerInv, Accept PROVE PlannerInv'
  <1>1. job \in Jobs /\ facts \in {Shown[d] : d \in Datas} \cup {NoFacts}
    BY DEF PlannerInv, PlannerTypeOK, Accept
  <1>2. AcceptedUnder(PrintOf[job.world], job.surfaces, Meant)
    BY <1>1, FitsIsAccepted DEF Accept
  <1>3. Meant \in Intents
    BY MeantIsIntent DEF PlannerInv
  <1>4. /\ phase' = "handed" /\ intent' = Meant /\ job' = job /\ facts' = facts /\ data' = data
        /\ requests' = requests /\ samples' = samples
    BY DEF Accept
  <1>5. HandedOverFits'
    BY <1>2, <1>4 DEF HandedOverFits, AcceptedUnder, PlannerInv, SamplesLeft, Accept
  <1>6. SamplesLeft'
    BY <1>4 DEF SamplesLeft, PlannerInv
  <1>7. CASE ~job.cached
    <2>1. cache' = cache
      BY <1>7 DEF Accept
    <2> QED
      BY <1>1, <1>3, <1>4, <1>5, <1>6, <2>1
      DEF PlannerInv, PlannerTypeOK, CacheFits, AcceptedUnder
  <1>8. CASE job.cached
    <2> DEFINE key == Key(job, facts)
    <2>1. cache' = [k \in DOMAIN cache \cup {key} |-> IF k = key THEN Meant ELSE cache[k]]
      BY <1>8 DEF Accept
    <2>2. key \in Keys /\ key.world = PrintOf[job.world] /\ key.surfaces = job.surfaces
      BY <1>1 DEF Key, Keys, Jobs
    <2>3. DOMAIN cache' \subseteq Keys /\ \A k \in DOMAIN cache' : cache'[k] \in Intents
      <3> HIDE DEF key
      <3> QED BY <1>3, <2>1, <2>2 DEF PlannerInv, PlannerTypeOK
    <2>4. CacheFits'
      <3> HIDE DEF key
      <3>1. \A k \in DOMAIN cache' : AcceptedUnder(k.world, k.surfaces, cache'[k])
        BY <1>2, <2>1, <2>2 DEF PlannerInv, CacheFits
      <3> QED BY <3>1 DEF CacheFits, AcceptedUnder
    <2> QED
      BY <1>1, <1>3, <1>4, <1>5, <1>6, <2>3, <2>4 DEF PlannerInv, PlannerTypeOK
  <1> QED
    BY <1>7, <1>8

(* What is not handed over leaves the cache as it is.                      *)
LEMMA RestKeeps ==
  ASSUME PlannerInv, Reject \/ ReadFails \/ StoreFails \/ Return \/ DataChange
  PROVE  PlannerInv'
  <1>1. Meant \in Intents /\ (job \in Jobs => MaxSamples(job) \in {2, 3})
    BY MeantIsIntent, AtLeastTwo DEF PlannerInv
  <1>2. CacheFits'
    BY DEF Reject, ReadFails, StoreFails, Return, DataChange, CacheFits, AcceptedUnder,
           PlannerInv
  <1>3. PlannerTypeOK'
    BY <1>1, PlannerAssumption
    DEF Reject, ReadFails, StoreFails, Return, DataChange, PlannerInv, PlannerTypeOK
  <1>4. SamplesLeft'
    BY <1>1 DEF Reject, ReadFails, StoreFails, Return, DataChange, PlannerInv, SamplesLeft
  <1>5. HandedOverFits'
    BY DEF Reject, ReadFails, StoreFails, Return, DataChange, PlannerInv, HandedOverFits,
           AcceptedUnder
  <1> QED
    BY <1>2, <1>3, <1>4, <1>5 DEF PlannerInv

(* The invariant is inductive.                                             *)
THEOREM PlannerInvHolds == PlannerSpec => []PlannerInv
  <1>1. PlannerInv /\ [PlannerNext]_planner => PlannerInv'
    <2> SUFFICES ASSUME PlannerInv, [PlannerNext]_planner PROVE PlannerInv'
      OBVIOUS
    <2>1. CASE \E j \in Jobs : \E f \in FactsFor(j) : Ask(j, f)
      BY <2>1, AskKeeps
    <2>2. CASE Sampling
      BY <2>2, AskingKeeps, AcceptKeeps, RestKeeps DEF Sampling
    <2>3. CASE Return \/ DataChange
      BY <2>3, RestKeeps
    <2>4. CASE UNCHANGED planner
      BY <2>4 DEF planner, PlannerInv, PlannerTypeOK, CacheFits, SamplesLeft, HandedOverFits,
                  AcceptedUnder
    <2> QED
      BY <2>1, <2>2, <2>3, <2>4 DEF PlannerNext
  <1> QED
    BY <1>1, PlannerInvInit, PTL DEF PlannerSpec

(* Whatever the planner hands over, cached or not, lint has accepted under *)
(* the fingerprint and the surfaces of the one who asks, for at most three *)
(* samples: for every model, every lint and every cache.                   *)
THEOREM PlannerHandsOverWhatFits == PlannerSpec => []HandedOverFits
  BY PlannerInvHolds, PTL DEF PlannerInv
(***************************************************************************)
(* The command.                                                            *)
(***************************************************************************)
Fields ==
  {"cmd", "app", "planId", "wants", "rows", "outcome", "again", "task", "strayed", "renamed"}

(* The process, the file and the recipe are what the code takes them for.  *)
MeInv ==
  /\ DOMAIN me = Fields /\ me.app \in Apps /\ me.wants \in Intents /\ commands \in Nat
  /\ at # "idle" => me.cmd \in Commands /\ me.task \in 1..commands
  /\ applied = [a \in Apps |-> applied[a]]

FileInv ==
  /\ file # None => file.app \in Apps /\ file.wants \in Intents /\ file.task \in 1..commands
  /\ recipe # None => recipe.app \in Apps /\ recipe.wants \in Intents

(* All writes of one task are keyed under one plan id, which the process   *)
(* that goes on with the task has, and the file that keeps it; and a key   *)
(* stands for one write.                                                   *)
OneId ==
  /\ \A a \in Apps : \A x \in applied[a] :
       /\ x.task \in 1..commands /\ x.key = <<x.key[1], x.key[2]>>
       /\ at # "idle" /\ x.task = me.task => x.key[1] = me.planId
       /\ file # None /\ x.task = file.task => x.key[1] = file.planId
  /\ at # "idle" /\ file # None /\ file.task = me.task => file.planId = me.planId

OneWrite ==
  \A a \in Apps : \A x, y \in applied[a] :
    /\ x.task = y.task => x.key[1] = y.key[1]
    /\ x.key = y.key => x = y

(* An ok row of a write is proved by the app the ledger was kept with.     *)
Proved(rows, a) ==
  \A r \in rows : r.ok /\ r.key # NoKey => \E x \in applied[a] : x.key = r.key

RowInv ==
  /\ at # "idle" /\ ~me.strayed => Proved(me.rows, me.app)
  /\ file # None /\ ~file.strayed => Proved(file.rows, file.app)

(* Nobody runs a plan that leaves the system unasked, save after an answer.*)
AskedInv ==
  /\ UnaskedOnlyAfterAnswer
  /\ at = "running" => External(Plan) = {} \/ me.cmd.yes \/ me.again

HostInv ==
  /\ PlannerInv /\ MeInv /\ FileInv /\ OneId /\ OneWrite /\ RowInv /\ AskedInv
  /\ CommittedMeansDone

(***************************************************************************)
(* The planner's part of a step.                                           *)
(***************************************************************************)
(* What a process asks the planner is a job.                               *)
LEMMA TheJob ==
  ASSUME MeInv, at # "idle", NEW b \in BOOLEAN PROVE JobOf(b) \in Jobs
  BY HostAssumption DEF MeInv, JobOf, Jobs, World

(* A process that is gone leaves no question behind.                       *)
LEMMA QuestionGone ==
  ASSUME PlannerInv, phase' = "idle", job' = NoJob, facts' = NoFacts, intent' = Empty,
         requests' = 0, samples' = 0, UNCHANGED <<data, cache>>
  PROVE  PlannerInv'
  BY PlannerAssumption
  DEF PlannerInv, PlannerTypeOK, CacheFits, SamplesLeft, HandedOverFits, AcceptedUnder

(* What leaves the planner alone leaves its invariant.                     *)
LEMMA PlannerUnchanged == ASSUME PlannerInv, UNCHANGED planner PROVE PlannerInv'
  BY DEF planner, PlannerInv, PlannerTypeOK, CacheFits, SamplesLeft, HandedOverFits,
         AcceptedUnder

(* Every step of the host is a step of the planner, or the end of one who  *)
(* asked it.                                                               *)
LEMMA PlannerStep ==
  ASSUME PlannerInv, MeInv, HostNext PROVE PlannerInv'
  <1>1. ASSUME NEW b \in BOOLEAN, at # "idle", AskTheModel(b) PROVE PlannerInv'
    BY <1>1, TheJob, AskKeeps DEF AskTheModel
  <1>2. CASE \E c \in Commands, p \in Pids : Begin(c, p)
    BY <1>2, PlannerUnchanged DEF Begin
  <1>3. CASE Gone
    BY <1>3, QuestionGone, PlannerUnchanged DEF Gone
  <1>4. CASE Resume \/ ReadWants \/ Prepare \/ Confirm \/ RunPlan \/ AnswerGiven \/ Report
    BY <1>4, PlannerUnchanged
    DEF Resume, ReadWants, Prepare, Confirm, RunPlan, AnswerGiven, Report
  <1>5. CASE AskForWants \/ AskForAnAnswer
    BY <1>1, <1>5 DEF AskForWants, AskForAnAnswer, Stopped
  <1>6. CASE Planned
    BY <1>6, RestKeeps DEF Planned
  <1>7. CASE Elsewhere
    BY <1>7, AskKeeps, AskingKeeps, AcceptKeeps, RestKeeps, HostAssumption
    DEF Elsewhere, LibraryAsks, Sampling
  <1> QED
    BY <1>2, <1>3, <1>4, <1>5, <1>6, <1>7 DEF HostNext

(***************************************************************************)
(* Steps after which nothing is different but what is wanted.              *)
(***************************************************************************)
(* The process goes on, with other wants or with an answer.                *)
Onward ==
  /\ at # "idle" /\ at' \notin {"idle", "ran"}
  /\ DOMAIN me' = Fields /\ me'.wants \in Intents
  /\ me'.cmd = me.cmd /\ me'.app = me.app /\ me'.planId = me.planId /\ me'.task = me.task
  /\ me'.rows = me.rows /\ me'.strayed = me.strayed
  /\ at' = "running" => External(Plan)' = {} \/ me.cmd.yes \/ me'.again
  /\ UNCHANGED <<file, commands, applied>>
  /\ recipe' = recipe \/ recipe' = [app |-> me.app, wants |-> me.wants, print |-> PrintOf[World]]

(* The process is over, and nothing was written down.                      *)
Over ==
  /\ at' = "idle" /\ me' = Nobody
  /\ UNCHANGED <<file, applied>> /\ (commands' = commands \/ commands' = commands + 1)
  /\ \/ recipe' = recipe
     \/ at # "idle" /\ recipe' = [app |-> me.app, wants |-> me.wants, print |-> PrintOf[World]]

(* Going on disturbs nothing but the wants.                                *)
LEMMA OnwardKeeps == ASSUME HostInv, Onward, PlannerInv' PROVE HostInv'
  <1> USE DEF HostInv, Onward
  <1>1. MeInv'
    BY DEF MeInv
  <1>2. FileInv'
    BY DEF FileInv, MeInv
  <1>3. OneId' /\ OneWrite'
    BY DEF OneId, OneWrite
  <1>4. RowInv'
    BY DEF RowInv, Proved
  <1>5. AskedInv'
    BY DEF AskedInv, UnaskedOnlyAfterAnswer
  <1>6. CommittedMeansDone'
    BY DEF CommittedMeansDone
  <1> QED
    BY <1>1, <1>2, <1>3, <1>4, <1>5, <1>6

(* No process is a process of the right shape.                             *)
LEMMA NobodyFits ==
  DOMAIN Nobody = Fields /\ Nobody.app \in Apps /\ Nobody.wants \in Intents
  <1>1. DefaultApp \in Apps /\ Empty \in Intents
    BY HostAssumption, PlannerAssumption
  <1> QED
    BY <1>1 DEF Nobody, Process, Fields

(* A process that ends without a word leaves what was written as it was.   *)
LEMMA OverKeeps == ASSUME HostInv, Over, PlannerInv' PROVE HostInv'
  <1> USE DEF HostInv, Over
  <1>1. MeInv'
    BY NobodyFits DEF MeInv
  <1>2. commands \in Nat
    BY DEF MeInv
  <1>3. FileInv'
    BY <1>2 DEF FileInv, MeInv
  <1>4. OneId' /\ OneWrite'
    BY <1>2 DEF OneId, OneWrite
  <1>5. RowInv'
    BY DEF RowInv, Proved
  <1>6. AskedInv' /\ CommittedMeansDone'
    BY DEF AskedInv, UnaskedOnlyAfterAnswer, CommittedMeansDone
  <1> QED
    BY <1>1, <1>3, <1>4, <1>5, <1>6

(***************************************************************************)
(* Which steps these are.                                                  *)
(***************************************************************************)
(* A new process has a task of its own, whatever its id is.                *)
LEMMA BeginKeeps ==
  ASSUME HostInv, PlannerInv', NEW c \in Commands, NEW p \in Pids, Begin(c, p)
  PROVE  HostInv'
  <1>1. /\ at = "idle" /\ commands' = commands + 1
        /\ UNCHANGED <<file, recipe, applied>> /\ commands \in Nat
    BY DEF Begin, HostInv, MeInv
  <1>2. CASE Over
    BY <1>2, OverKeeps
  <1>3. CASE at' = "sourcing" /\ me' = Process(c, AppOf(c), FreshId(p), commands + 1)
    <2>1. AppOf(c) \in Apps
      BY HostAssumption DEF AppOf, HostInv, FileInv
    <2>2. /\ me'.cmd = c /\ me'.app = AppOf(c) /\ me'.wants = Empty /\ me'.rows = {}
          /\ me'.task = commands + 1 /\ DOMAIN me' = Fields
      BY <1>3 DEF Process, Fields
    <2>3. MeInv'
      BY <1>1, <1>3, <2>1, <2>2, PlannerAssumption DEF HostInv, MeInv
    <2>4. FileInv'
      BY <1>1 DEF HostInv, FileInv
    <2>5. \A a \in Apps : \A x \in applied[a] : x.task # commands + 1
      BY <1>1 DEF HostInv, OneId
    <2>6. file # None => file.task # commands + 1
      BY <1>1 DEF HostInv, FileInv
    <2>7. OneId' /\ OneWrite'
      BY <1>1, <1>3, <2>2, <2>5, <2>6 DEF HostInv, OneId, OneWrite
    <2>8. RowInv'
      BY <1>1, <2>2 DEF HostInv, RowInv, Proved
    <2>9. AskedInv' /\ CommittedMeansDone'
      BY <1>1, <1>3 DEF HostInv, AskedInv, UnaskedOnlyAfterAnswer, CommittedMeansDone
    <2> QED
      BY <2>3, <2>4, <2>7, <2>8, <2>9 DEF HostInv
  <1> QED
    BY <1>1, <1>2, <1>3 DEF Begin, Exit, Over

(* A saved run brings the id its writes are keyed under, and its rows with *)
(* the app that proves them.                                               *)
LEMMA ResumeKeeps == ASSUME HostInv, PlannerInv', Resume PROVE HostInv'
  <1>1. at = "sourcing" /\ UNCHANGED <<file, recipe, commands, applied>>
    BY DEF Resume
  <1>2. CASE Exit("unreachable") \/ Exit("wants_rejected")
    BY <1>1, <1>2, OverKeeps DEF Exit, Over
  <1>3. CASE /\ file # None
             /\ Go("planned",
                   [me EXCEPT !.wants = file.wants, !.rows = file.rows, !.task = file.task,
                              !.planId = OptsUnder(file, @), !.renamed = file.renamed,
                              !.strayed = file.strayed \/ file.app # me.app])
    <2> DEFINE lost == file.strayed \/ file.app # me.app
    <2> HIDE DEF lost
    <2>1. /\ at' = "planned" /\ file # None
          /\ me' = [me EXCEPT !.wants = file.wants, !.rows = file.rows, !.task = file.task,
                              !.planId = file.planId, !.renamed = file.renamed,
                              !.strayed = lost]
      BY <1>3 DEF Go, OptsUnder, lost
    <2>2. /\ DOMAIN me' = Fields /\ me'.cmd = me.cmd /\ me'.app = me.app
          /\ me'.wants = file.wants /\ me'.rows = file.rows /\ me'.task = file.task
          /\ me'.planId = file.planId /\ me'.strayed = lost
      BY <2>1 DEF HostInv, MeInv, Fields
    <2>3. MeInv' /\ FileInv'
      BY <1>1, <2>1, <2>2 DEF HostInv, MeInv, FileInv
    <2>4. OneId' /\ OneWrite'
      BY <1>1, <2>1, <2>2 DEF HostInv, OneId, OneWrite
    <2>5. ~me'.strayed => ~file.strayed /\ file.app = me.app
      BY <2>2 DEF lost
    <2>6. RowInv'
      BY <1>1, <2>1, <2>2, <2>5 DEF HostInv, RowInv, Proved
    <2>7. AskedInv' /\ CommittedMeansDone'
      BY <1>1, <2>1 DEF HostInv, AskedInv, UnaskedOnlyAfterAnswer, CommittedMeansDone
    <2> QED
      BY <2>3, <2>4, <2>6, <2>7 DEF HostInv
  <1> QED
    BY <1>2, <1>3 DEF Resume

(* A state file has everything of the process that leaves it.              *)
LEMMA ReportKeeps == ASSUME HostInv, PlannerInv', Report PROVE HostInv'
  <1>1. at = "ran" /\ at' = "idle" /\ me' = Nobody /\ UNCHANGED <<recipe, commands, applied>>
    BY DEF Report, Exit
  <1>2. CASE file' = file
    BY <1>1, <1>2, OverKeeps DEF Over
  <1>3. CASE file' = [app |-> me.app, wants |-> me.wants, planId |-> me.planId,
                      rows |-> me.rows, task |-> me.task, strayed |-> me.strayed,
                      renamed |-> me.renamed]
    <2>1. /\ file'.app = me.app /\ file'.wants = me.wants /\ file'.planId = me.planId
          /\ file'.rows = me.rows /\ file'.task = me.task /\ file'.strayed = me.strayed
      BY <1>3
    <2>2. MeInv'
      BY <1>1, NobodyFits DEF HostInv, MeInv
    <2>3. FileInv'
      BY <1>1, <2>1 DEF HostInv, FileInv, MeInv
    <2>4. OneId' /\ OneWrite'
      BY <1>1, <2>1 DEF HostInv, OneId, OneWrite
    <2>5. RowInv'
      BY <1>1, <2>1 DEF HostInv, RowInv, Proved
    <2>6. AskedInv' /\ CommittedMeansDone'
      BY <1>1 DEF HostInv, AskedInv, UnaskedOnlyAfterAnswer, CommittedMeansDone
    <2> QED
      BY <2>2, <2>3, <2>4, <2>5, <2>6 DEF HostInv
  <1> QED
    BY <1>2, <1>3 DEF Report

(* What is read off the steps that only go on.                             *)
LEMMA GoingOnKeeps ==
  ASSUME HostInv, PlannerInv',
         AskForWants \/ ReadWants \/ Prepare \/ Confirm \/ AnswerGiven \/ AskForAnAnswer \/ Planned
  PROVE  HostInv'
  <1> SUFFICES Onward \/ Over
    BY OnwardKeeps, OverKeeps
  <1> USE DEF HostInv, MeInv, FileInv
  <1>1. ASSUME NEW i \in Intents, at \in {"planning", "ran"}, RunAgain(i),
               UNCHANGED <<file, recipe, commands, applied>>
        PROVE  Onward \/ Over
    BY <1>1 DEF RunAgain, Go, Exit, Onward, Over, Fields
  <1>2. CASE AskForWants \/ AskForAnAnswer
    BY <1>2 DEF AskForWants, AskForAnAnswer, Stopped, AskTheModel, Go, Onward, Fields
  <1>3. CASE ReadWants
    <2>1. me.cmd.intent \in Intents
      BY <1>3, HostAssumption DEF ReadWants
    <2> QED
      BY <1>3, <2>1 DEF ReadWants, Go, Exit, Onward, Over, Fields
  <1>4. CASE Prepare
    <2> DEFINE filled == Filled[me.wants, me.cmd.set]
    <2>1. at = "sourced" /\ UNCHANGED <<file, commands, applied>>
      BY <1>4 DEF Prepare
    <2>2. recipe' = recipe
            \/ recipe' = [app |-> me.app, wants |-> me.wants, print |-> PrintOf[World]]
      BY <1>4 DEF Prepare
    <2>3. filled \in Intents
      BY <2>1, HostAssumption
    <2>4. \A i \in Selected(filled) : i \in Intents
      BY <2>3, PlannerAssumption DEF Selected, PlannerInv, PlannerTypeOK
    <2>5. \/ Exit("wants_rejected") \/ Exit("done")
          \/ \E i \in Selected(filled) : Go("planned", [me EXCEPT !.wants = i])
      BY <1>4 DEF Prepare
    <2>6. CASE Exit("wants_rejected") \/ Exit("done")
      BY <2>1, <2>2, <2>6 DEF Exit, Over
    <2>7. CASE \E i \in Selected(filled) : Go("planned", [me EXCEPT !.wants = i])
      <3> HIDE DEF filled
      <3>1. PICK i \in Intents : Go("planned", [me EXCEPT !.wants = i])
        BY <2>4, <2>7
      <3> QED
        BY <2>1, <2>2, <3>1 DEF Go, Onward, Fields
    <2> QED
      BY <2>5, <2>6, <2>7
  <1>5. CASE Confirm
    BY <1>5 DEF Confirm, Confirmed, Go, Exit, Onward, Over, Fields, Plan, PlanFor, World,
                External
  <1>6. CASE AnswerGiven
    <2>1. me.wants \in DOMAIN Answered => Answered[me.wants] \in Intents
      BY HostAssumption
    <2> QED
      BY <1>1, <1>6, <2>1 DEF AnswerGiven, Stopped, Exit, Over
  <1>7. CASE Planned
    <2>1. intent \in Intents
      BY DEF PlannerInv, PlannerTypeOK
    <2> QED
      BY <1>1, <1>7, <2>1 DEF Planned, Go, Exit, Onward, Over, Fields
  <1> QED
    BY <1>2, <1>3, <1>4, <1>5, <1>6, <1>7

(* Nothing depends on where a process ends.                                *)
LEMMA GoneKeeps == ASSUME HostInv, PlannerInv', Gone PROVE HostInv'
  BY OverKeeps DEF Gone, Exit, Over

(***************************************************************************)
(* A run: what it succeeds with is written once, under the plan's id.      *)
(***************************************************************************)
(* A row of a run is about a node of it.                                   *)
LEMMA RowFacts ==
  ASSUME NEW S, NEW ok \in BOOLEAN, NEW r \in Rows(Plan, S, ok)
  PROVE  r.ok = ok /\ \E n \in S : r.key = KeyOf(me.planId, Plan.nodes[n])
  <1>1. PICK n \in S :
          r = [run |-> 1 + Cardinality({x.run : x \in me.rows}), node |-> n,
               key |-> KeyOf(me.planId, Plan.nodes[n]), ok |-> ok]
    BY DEF Rows
  <1> QED
    BY <1>1

(* What PlanRun lets a run come to: nodes that were not done before, and a *)
(* commit only with all of them.                                           *)
CameTo(ok, asked, failed, how) ==
  LET left == DOMAIN Plan.nodes \ Completed(me.rows, me.planId, Plan.nodes) IN
  /\ how \in {"committed", "need_think", "error"}
  /\ ok \cup asked \subseteq left /\ failed \subseteq left
  /\ failed \cap (ok \cup asked) = {}
  /\ how = "committed" => left \subseteq ok
  /\ \E called \in SUBSET failed : \E landed \in SUBSET Keyed(Plan, called) :
       /\ Ends(how, Rows(Plan, ok \cup asked, TRUE) \cup Rows(Plan, called, FALSE))
       /\ Carried(Plan, ok \cup asked \cup landed)

LEMMA RunComesTo == ASSUME RunPlan PROVE \E ok, asked, failed, how : CameTo(ok, asked, failed, how)
  <1> DEFINE nodes == DOMAIN Plan.nodes
             done == Completed(me.rows, me.planId, Plan.nodes)
             fair(ok) == Startable(nodes, Plan.edges, done \cup ok)
             run(ok, asked, failed, how) ==
               [ok |-> ok, asked |-> asked, failed |-> failed, outcome |-> how]
             possible(r) ==
               PossibleRun(nodes, Plan.edges, {n \in nodes : Plan.nodes[n].fork}, {}, done, r)
             came(ok, asked, failed, how) ==
               \E called \in SUBSET failed : \E landed \in SUBSET Keyed(Plan, called) :
                 /\ Ends(how, Rows(Plan, ok \cup asked, TRUE) \cup Rows(Plan, called, FALSE))
                 /\ Carried(Plan, ok \cup asked \cup landed)
  <1>1. \E ok \in SUBSET (nodes \ done) :
          \E asked \in SUBSET fair(ok) : \E failed \in SUBSET fair(ok) :
          \E how \in {"committed", "need_think", "error"} :
            possible(run(ok, asked, failed, how)) /\ came(ok, asked, failed, how)
    BY DEF RunPlan, RunOf
  <1>2. \A ok : fair(ok) \subseteq nodes \ (done \cup ok)
    BY DEF Startable
  <1>3. \A ok, asked, failed, how :
          possible(run(ok, asked, failed, how)) =>
            failed \cap asked = {} /\ (how = "committed" => nodes \ done \subseteq ok)
    BY DEF PossibleRun
  <1>4. PICK ok \in SUBSET (nodes \ done) :
          \E asked \in SUBSET fair(ok) : \E failed \in SUBSET fair(ok) :
          \E how \in {"committed", "need_think", "error"} :
            possible(run(ok, asked, failed, how)) /\ came(ok, asked, failed, how)
    BY <1>1
  <1> HIDE DEF possible, came, fair, run
  <1>5. PICK asked \in SUBSET fair(ok), failed \in SUBSET fair(ok),
             how \in {"committed", "need_think", "error"} :
          possible(run(ok, asked, failed, how)) /\ came(ok, asked, failed, how)
    BY <1>4
  <1>6. /\ ok \cup asked \subseteq nodes \ done /\ failed \subseteq nodes \ done
        /\ failed \cap (ok \cup asked) = {}
        /\ how = "committed" => nodes \ done \subseteq ok
    BY <1>2, <1>3, <1>5
  <1>7. CameTo(ok, asked, failed, how)
    BY <1>5, <1>6 DEF CameTo, came
  <1> QED
    BY <1>7

(* However a run ends, it writes the nodes of one set of the plan's, and   *)
(* its ok rows of writes are of nodes in that set.                         *)
EndsAs(S, how, rows) ==
  /\ Ends(how, rows) /\ Carried(Plan, S)
  /\ \A r \in rows : r.ok => \E n \in S : r.key = KeyOf(me.planId, Plan.nodes[n])
  /\ how = "committed" =>
       DOMAIN Plan.nodes \subseteq S \cup Completed(me.rows, me.planId, Plan.nodes)

(* Every end of a run is such an end.                                      *)
LEMMA RunShape ==
  ASSUME HostInv, RunPlan
  PROVE  \E S \in SUBSET DOMAIN Plan.nodes : \E how, rows : EndsAs(S, how, rows)
  <1> DEFINE nodes == DOMAIN Plan.nodes
             done == Completed(me.rows, me.planId, Plan.nodes)
             new(S, F) == Rows(Plan, S, TRUE) \cup Rows(Plan, F, FALSE)
  <1>1. \A S : \A r \in Rows(Plan, S, TRUE) :
          \E n \in S : r.key = KeyOf(me.planId, Plan.nodes[n])
    BY RowFacts
  <1>2. \A S : \A r \in Rows(Plan, S, FALSE) : ~r.ok
    BY RowFacts
  <1>3. PICK ok, asked, failed, how : CameTo(ok, asked, failed, how)
    BY RunComesTo
  <1>4. PICK called, landed :
          /\ called \subseteq failed /\ landed \subseteq Keyed(Plan, called)
          /\ Ends(how, new(ok \cup asked, called))
          /\ Carried(Plan, ok \cup asked \cup landed)
    BY <1>3 DEF CameTo
  <1> DEFINE S == ok \cup asked \cup landed
  <1>5. S \in SUBSET nodes
    BY <1>3, <1>4 DEF Keyed, CameTo
  <1>6. \A r \in new(ok \cup asked, called) :
          r.ok => \E n \in S : r.key = KeyOf(me.planId, Plan.nodes[n])
    BY <1>1, <1>2
  <1>7. EndsAs(S, how, new(ok \cup asked, called))
    BY <1>3, <1>4, <1>6 DEF EndsAs, CameTo
  <1> QED
    BY <1>5, <1>7

(* What is carried out is there afterwards, under the plan's id; what was  *)
(* there stays, and a key still stands for one write.                      *)
LEMMA CarriedFacts ==
  ASSUME HostInv, at = "running", NEW S \in SUBSET DOMAIN Plan.nodes, Carried(Plan, S)
  PROVE  /\ applied' = [a \in Apps |-> applied'[a]]
         /\ \A a \in Apps : applied[a] \subseteq applied'[a]
         /\ \A a \in Apps : \A x \in applied'[a] \ applied[a] :
              \E n \in Keyed(Plan, S) : x = Write(Plan.nodes[n])
         /\ \A n \in Keyed(Plan, S) : \E x \in applied'[me.app] :
              x.key = KeyOf(me.planId, Plan.nodes[n])
         /\ \A a \in Apps : \A x, y \in applied'[a] : x.key = y.key => x = y
  <1> DEFINE Writes == {Write(Plan.nodes[n]) : n \in Keyed(Plan, S)}
             fresh == {x \in Writes : \A y \in applied[me.app] : y.key # x.key}
  <1>1. applied' = [applied EXCEPT ![me.app] = @ \cup fresh] /\ me.app \in Apps
    BY DEF Carried, HostInv, MeInv
  <1>2. applied = [a \in Apps |-> applied[a]]
    BY DEF HostInv, MeInv
  <1>3. /\ applied'[me.app] = applied[me.app] \cup fresh
        /\ \A a \in Apps : a # me.app => applied'[a] = applied[a]
    <2> HIDE DEF fresh
    <2> QED BY <1>1, <1>2
  <1>4. applied' = [a \in Apps |-> applied'[a]]
    <2> HIDE DEF fresh
    <2> QED BY <1>1, <1>2
  <1>5. \A x \in Writes : \E n \in Keyed(Plan, S) : x = Write(Plan.nodes[n])
    OBVIOUS
  <1>6. \A n \in Keyed(Plan, S) : Write(Plan.nodes[n]).key = KeyOf(me.planId, Plan.nodes[n])
    BY DEF Write
  <1>7. \A n \in Keyed(Plan, S) : \E x \in applied'[me.app] :
          x.key = KeyOf(me.planId, Plan.nodes[n])
    <2> SUFFICES ASSUME NEW n \in Keyed(Plan, S)
                 PROVE  \E x \in applied'[me.app] : x.key = KeyOf(me.planId, Plan.nodes[n])
      OBVIOUS
    <2>1. CASE \E y \in applied[me.app] : y.key = Write(Plan.nodes[n]).key
      <3> HIDE DEF fresh
      <3> QED BY <1>3, <1>6, <2>1
    <2>2. CASE \A y \in applied[me.app] : y.key # Write(Plan.nodes[n]).key
      <3>1. Write(Plan.nodes[n]) \in fresh
        BY <2>2
      <3> HIDE DEF fresh
      <3> QED BY <1>3, <1>6, <3>1
    <2> QED
      BY <2>1, <2>2
  <1>8. \A m, n \in Keyed(Plan, S) :
          KeyOf(me.planId, Plan.nodes[m]) = KeyOf(me.planId, Plan.nodes[n]) => m = n
    <2>1. \A n \in Keyed(Plan, S) :
            /\ n \in DOMAIN Plan.nodes /\ Plan.nodes[n].keyed
            /\ KeyOf(me.planId, Plan.nodes[n]) = <<me.planId, Plan.nodes[n].canon>>
      BY DEF Keyed, KeyOf
    <2>2. World \in Worlds /\ me.cmd.surfaces \in SurfaceSets /\ me.wants \in Intents
      BY HostAssumption DEF HostInv, MeInv, World
    <2>3. \A m, n \in DOMAIN Plan.nodes :
            Plan.nodes[m].keyed /\ Plan.nodes[n].keyed
              /\ Plan.nodes[m].canon = Plan.nodes[n].canon => m = n
      BY <2>2, HostAssumption DEF Plan, PlanFor
    <2> QED
      BY <2>1, <2>3
  <1>9. \A x, y \in fresh : x.key = y.key => x = y
    BY <1>5, <1>6, <1>8
  <1>10. \A x \in fresh, y \in applied[me.app] : y.key # x.key
    OBVIOUS
  <1>11. \A a \in Apps : \A x, y \in applied'[a] : x.key = y.key => x = y
    <2> HIDE DEF fresh
    <2> QED BY <1>3, <1>9, <1>10 DEF HostInv, OneWrite
  <1>12. \A a \in Apps : \A x \in applied'[a] \ applied[a] : x \in Writes
    BY <1>3
  <1>13. \A a \in Apps : applied[a] \subseteq applied'[a]
    <2> HIDE DEF fresh
    <2> QED BY <1>3
  <1> QED
    BY <1>4, <1>5, <1>7, <1>11, <1>12, <1>13

(* A run keeps all of it: its writes have the process's task and id.       *)
LEMMA RunKeeps == ASSUME HostInv, PlannerInv', RunPlan PROVE HostInv'
  <1>1. at = "running" /\ UNCHANGED <<file, recipe, commands>>
    BY DEF RunPlan
  <1>2. PICK S \in SUBSET DOMAIN Plan.nodes : \E how, rows : EndsAs(S, how, rows)
    BY RunShape
  <1>3. PICK how, rows : EndsAs(S, how, rows)
    BY <1>2
  <1>4. /\ at' = "ran" /\ me' = [me EXCEPT !.outcome = how, !.rows = @ \cup rows]
        /\ Carried(Plan, S)
    BY <1>3 DEF EndsAs, Ends, Go
  <1>5. /\ DOMAIN me' = Fields /\ me'.cmd = me.cmd /\ me'.app = me.app /\ me'.task = me.task
        /\ me'.planId = me.planId /\ me'.wants = me.wants /\ me'.strayed = me.strayed
        /\ me'.rows = me.rows \cup rows /\ me'.outcome = how /\ me'.again = me.again
    BY <1>4 DEF HostInv, MeInv, Fields
  <1>6. Plan' = Plan
    BY <1>5 DEF Plan, PlanFor, World
  <1> DEFINE New == Keyed(Plan, S)
  <1>7. /\ applied' = [a \in Apps |-> applied'[a]]
        /\ \A a \in Apps : applied[a] \subseteq applied'[a]
        /\ \A a \in Apps : \A x \in applied'[a] \ applied[a] :
             \E n \in New : x = Write(Plan.nodes[n])
        /\ \A n \in New : \E x \in applied'[me.app] : x.key = KeyOf(me.planId, Plan.nodes[n])
        /\ \A a \in Apps : \A x, y \in applied'[a] : x.key = y.key => x = y
    BY <1>1, <1>4, CarriedFacts
  <1>8. \A n \in New :
          /\ n \in DOMAIN Plan.nodes /\ Plan.nodes[n].keyed
          /\ KeyOf(me.planId, Plan.nodes[n]) = <<me.planId, Plan.nodes[n].canon>>
    BY DEF Keyed, KeyOf
  <1>9. \A a \in Apps : \A x \in applied'[a] \ applied[a] :
          /\ x.key = <<x.key[1], x.key[2]>> /\ x.key[1] = me.planId /\ x.task = me.task
          /\ x.external => x.yes \/ x.answered
    <2> SUFFICES ASSUME NEW a \in Apps, NEW x \in applied'[a] \ applied[a]
                 PROVE  /\ x.key = <<x.key[1], x.key[2]>> /\ x.key[1] = me.planId
                        /\ x.task = me.task /\ (x.external => x.yes \/ x.answered)
      OBVIOUS
    <2>1. PICK n \in New : x = Write(Plan.nodes[n])
      BY <1>7
    <2>2. /\ x.key = KeyOf(me.planId, Plan.nodes[n]) /\ x.task = me.task
          /\ x.external = Plan.nodes[n].external /\ x.yes = me.cmd.yes /\ x.answered = me.again
      BY <2>1 DEF Write
    <2>3. Plan.nodes[n].external => me.cmd.yes \/ me.again
      BY <1>1, <1>8, <2>1 DEF HostInv, AskedInv, External
    <2> QED
      BY <1>8, <2>1, <2>2, <2>3
  <1>10. me.app \in Apps /\ me.task \in 1..commands
    BY <1>1 DEF HostInv, MeInv
  <1>11. MeInv' /\ FileInv'
    BY <1>1, <1>4, <1>5, <1>7 DEF HostInv, MeInv, FileInv
  <1>12. OneId'
    <2>1. \A a \in Apps : \A x \in applied'[a] :
            /\ x.task \in 1..commands /\ x.key = <<x.key[1], x.key[2]>>
            /\ x.task = me.task => x.key[1] = me.planId
            /\ file # None /\ x.task = file.task => x.key[1] = file.planId
      BY <1>1, <1>9, <1>10 DEF HostInv, OneId
    <2> QED
      BY <1>1, <1>4, <1>5, <2>1 DEF HostInv, OneId
  <1>13. OneWrite'
    <2>1. \A a \in Apps : \A x, y \in applied'[a] : x.task = y.task => x.key[1] = y.key[1]
      BY <1>1, <1>9 DEF HostInv, OneId, OneWrite
    <2> QED
      BY <1>7, <2>1 DEF OneWrite
  <1>14. ~me.strayed => Proved(me.rows, me.app)
    BY <1>1 DEF HostInv, RowInv
  <1>15. \A r \in rows : r.ok /\ r.key # NoKey => \E x \in applied'[me.app] : x.key = r.key
    <2> SUFFICES ASSUME NEW r \in rows, r.ok, r.key # NoKey
                 PROVE  \E x \in applied'[me.app] : x.key = r.key
      OBVIOUS
    <2>1. PICK n \in S : r.key = KeyOf(me.planId, Plan.nodes[n])
      BY <1>3 DEF EndsAs
    <2>2. n \in New
      BY <2>1 DEF KeyOf, Keyed
    <2> QED
      BY <1>7, <2>1, <2>2
  <1>16. RowInv'
    <2>1. ~me.strayed => \A r \in me.rows \cup rows :
            r.ok /\ r.key # NoKey => \E x \in applied'[me.app] : x.key = r.key
      BY <1>7, <1>10, <1>14, <1>15 DEF Proved
    <2>2. ~me'.strayed => Proved(me.rows, me.app)'
      BY <1>5, <2>1 DEF Proved
    <2>3. file' # None /\ ~file'.strayed => Proved(file.rows, file.app)'
      <3> SUFFICES ASSUME file # None, ~file.strayed PROVE Proved(file.rows, file.app)'
        BY <1>1
      <3>1. Proved(file.rows, file.app) /\ file.app \in Apps
        BY DEF HostInv, RowInv, FileInv
      <3> QED
        BY <1>1, <1>7, <3>1 DEF Proved
    <2> QED
      BY <2>2, <2>3 DEF RowInv
  <1>17. AskedInv'
    BY <1>1, <1>4, <1>9 DEF HostInv, AskedInv, UnaskedOnlyAfterAnswer
  <1>18. CommittedMeansDone'
    <2> SUFFICES ASSUME how = "committed", ~me.strayed, NEW n \in Keyed(Plan, DOMAIN Plan.nodes)
                 PROVE  \E x \in applied'[me.app] : x.key = KeyOf(me.planId, Plan.nodes[n])
      BY <1>4, <1>5, <1>6 DEF CommittedMeansDone, Keyed
    <2>1. n \in S \/ n \in Completed(me.rows, me.planId, Plan.nodes)
      BY <1>3 DEF EndsAs, Keyed
    <2>2. CASE n \in S
      BY <1>7, <2>2 DEF Keyed
    <2>3. CASE n \in Completed(me.rows, me.planId, Plan.nodes)
      <3>1. PICK r \in me.rows : r.ok /\ r.key = KeyOf(me.planId, Plan.nodes[n])
        BY <2>3 DEF Completed
      <3>2. r.key # NoKey
        BY <3>1 DEF Keyed, KeyOf, NoKey
      <3> QED
        BY <1>7, <1>10, <1>14, <3>1, <3>2 DEF Proved
    <2> QED
      BY <2>1, <2>2, <2>3
  <1> QED
    BY <1>11, <1>12, <1>13, <1>16, <1>17, <1>18 DEF HostInv

(***************************************************************************)
(* The theorems.                                                           *)
(***************************************************************************)
(* Nothing is there at first.                                              *)
LEMMA HostInvInit == HostInit => HostInv
  <1> SUFFICES ASSUME HostInit PROVE HostInv
    OBVIOUS
  <1>1. PlannerInv
    BY PlannerInvInit DEF HostInit
  <1>2. /\ at = "idle" /\ me = Nobody /\ file = None /\ recipe = None /\ commands = 0
        /\ applied = [a \in Apps |-> {}]
    BY DEF HostInit
  <1>3. MeInv
    BY <1>2, NobodyFits DEF MeInv
  <1> QED
    BY <1>1, <1>2, <1>3
    DEF HostInv, FileInv, OneId, OneWrite, RowInv, AskedInv, UnaskedOnlyAfterAnswer,
        CommittedMeansDone

(* What the planner or the app does on its own leaves the host alone.      *)
LEMMA IdleKeeps == ASSUME HostInv, UNCHANGED host, PlannerInv' PROVE HostInv'
  <1> USE DEF HostInv, host
  <1>1. MeInv' /\ FileInv' /\ OneId' /\ OneWrite'
    BY DEF MeInv, FileInv, OneId, OneWrite
  <1>2. RowInv'
    BY DEF RowInv, Proved
  <1>3. Plan' = Plan
    BY DEF Plan, PlanFor, World
  <1>4. AskedInv' /\ CommittedMeansDone'
    BY <1>3 DEF AskedInv, UnaskedOnlyAfterAnswer, External, CommittedMeansDone
  <1> QED
    BY <1>1, <1>2, <1>4

(* Every step keeps the invariant.                                         *)
LEMMA HostStepKeeps == ASSUME HostInv, [HostNext]_<<planner, host>> PROVE HostInv'
  <1>1. CASE UNCHANGED <<planner, host>>
    BY <1>1, PlannerUnchanged, IdleKeeps DEF HostInv
  <1>2. CASE HostNext
    <2>1. PlannerInv'
      BY <1>2, PlannerStep DEF HostInv
    <2>2. CASE Elsewhere /\ UNCHANGED host
      BY <2>1, <2>2, IdleKeeps
    <2> QED
      BY <1>2, <2>1, <2>2, BeginKeeps, GoneKeeps, ResumeKeeps, GoingOnKeeps, RunKeeps, ReportKeeps
      DEF HostNext
  <1> QED
    BY <1>1, <1>2

(* The invariant is inductive.                                             *)
THEOREM HostInvariance == HostSpec => []HostInv
  BY HostInvInit, HostStepKeeps, PTL DEF HostSpec

(* A command, its answers and the processes that resume it carry out each  *)
(* write once at an app, wherever any of them ends: they share a plan id.  *)
THEOREM NothingIsDoneTwice == HostSpec => []NothingTwice
  <1>1. HostInv => NothingTwice
    <2> SUFFICES ASSUME HostInv, NEW a \in Apps, NEW x \in applied[a], NEW y \in applied[a],
                        x.task = y.task, x.key[2] = y.key[2]
                 PROVE  x = y
      BY DEF NothingTwice
    <2>1. x.key[1] = y.key[1]
      BY DEF HostInv, OneWrite
    <2>2. x.key = <<x.key[1], x.key[2]>> /\ y.key = <<y.key[1], y.key[2]>>
      BY DEF HostInv, OneId
    <2>3. x.key = y.key
      BY <2>1, <2>2
    <2> QED
      BY <2>3 DEF HostInv, OneWrite
  <1> QED
    BY <1>1, HostInvariance, PTL

(* No write leaves the system unasked, but by a plan that was compiled     *)
(* after a fork was answered (execute(), main.rs:1054-1092).               *)
THEOREM NothingIsDoneUnasked == HostSpec => []UnaskedOnlyAfterAnswer
  <1>1. HostInv => UnaskedOnlyAfterAnswer
    BY DEF HostInv, AskedInv
  <1> QED
    BY <1>1, HostInvariance, PTL

(* What is reported committed is in the app, also when part of it was done *)
(* by processes long gone.                                                 *)
THEOREM CommittedIsDone == HostSpec => []CommittedMeansDone
  <1>1. HostInv => CommittedMeansDone
    BY DEF HostInv
  <1> QED
    BY <1>1, HostInvariance, PTL

(* The command hands over only wants that lint accepted, like the planner  *)
(* it has in it.                                                           *)
THEOREM HostHandsOverWhatFits == HostSpec => []HandedOverFits
  <1>1. HostInv => HandedOverFits
    BY DEF HostInv, PlannerInv
  <1> QED
    BY <1>1, HostInvariance, PTL

(***************************************************************************)
(* The rows of a ledger: what a receipt can tell from them.                *)
(***************************************************************************)
(* Runs are numbered as they come.                                         *)
Numbered(rows) ==
  LET N == {r.run : r \in rows} IN IsFiniteSet(N) /\ N = 1..Cardinality(N)

(* Rows of these nodes, under their keys, one for a node and a run; and    *)
(* after a write was ok its node is not tried again.                       *)
FitsNodes(rows, id, nodes) ==
  /\ \A r \in rows : r.node \in DOMAIN nodes /\ r.key = KeyOf(id, nodes[r.node])
  /\ \A r, x \in rows : r.node = x.node /\ r.run = x.run => r = x
  /\ \A r, x \in rows : r.ok /\ r.key # NoKey /\ x.node = r.node => x.run <= r.run

(* Until there is a plan there are no rows, unless a fork is being         *)
(* answered; and the planner is asked by nobody else meanwhile.            *)
StageInv ==
  /\ at \in {"idle", "sourcing", "planning", "sourced", "planned", "running", "ran"}
  /\ at \in {"idle", "sourcing", "sourced"} => me.rows = {}
  /\ at = "planning" => phase # "idle" /\ ~job.cached /\ (job.fork \/ me.rows = {})
  /\ at \in {"planned", "running", "ran"} => Plan.err = "none"

(* The process's rows fit its plan, and those in the file any plan its     *)
(* wants come to, until a fork is answered or another app is used.         *)
LedgerInv ==
  /\ Numbered(me.rows)
  /\ at \in {"planned", "running", "ran"} /\ ~me.renamed /\ ~me.strayed =>
       FitsNodes(me.rows, me.planId, Plan.nodes)
  /\ file # None => Numbered(file.rows)
  /\ file # None /\ ~file.renamed /\ ~file.strayed =>
       \A s \in SurfaceSets : Plans[WorldOf[file.app], s, file.wants].err = "none" =>
         FitsNodes(file.rows, file.planId, Plans[WorldOf[file.app], s, file.wants].nodes)

TellInv == StageInv /\ LedgerInv

(* No rows fit any plan.                                                   *)
LEMMA NoRowsFit == Numbered({}) /\ \A id, nodes : FitsNodes({}, id, nodes)
  <1>1. {r.run : r \in {}} = {}
    OBVIOUS
  <1>2. IsFiniteSet({}) /\ Cardinality({}) = 0
    BY FS_EmptySet
  <1> QED
    BY <1>1, <1>2 DEF Numbered, FitsNodes

(* The number of the next run is beyond every number there is.             *)
LEMMA NextNumber ==
  ASSUME NEW rows, Numbered(rows)
  PROVE  LET k == Cardinality({r.run : r \in rows}) IN
           /\ k \in Nat /\ {r.run : r \in rows} = 1..k
           /\ \A r \in rows : r.run \in 1..k
  <1> DEFINE N == {r.run : r \in rows}
  <1>1. IsFiniteSet(N) /\ N = 1..Cardinality(N)
    BY DEF Numbered
  <1>2. Cardinality(N) \in Nat
    BY <1>1, FS_CardinalityType
  <1>3. \A r \in rows : r.run \in N
    OBVIOUS
  <1> HIDE DEF N
  <1>4. \A r \in rows : r.run \in 1..Cardinality(N)
    BY <1>1, <1>3
  <1> QED
    BY <1>1, <1>2, <1>4 DEF N

(* A run adds rows with the next number, or none.                          *)
LEMMA NumberedGrows ==
  ASSUME NEW rows, Numbered(rows), NEW new,
         \A r \in new : r.run = 1 + Cardinality({x.run : x \in rows})
  PROVE  Numbered(rows \cup new)
  <1> DEFINE N == {r.run : r \in rows}
             M == {r.run : r \in rows \cup new}
             k == Cardinality(N)
  <1>1. k \in Nat /\ N = 1..k /\ IsFiniteSet(N)
    BY NextNumber DEF Numbered
  <1>2. CASE new = {}
    BY <1>2
  <1>3. CASE new # {}
    <2>1. M = N \cup {1 + k}
      BY <1>3
    <2> HIDE DEF M, N
    <2>2. M = 1..(k + 1)
      BY <1>1, <2>1
    <2>3. IsFiniteSet(M) /\ Cardinality(M) = k + 1
      BY <1>1, <2>2, FS_Interval
    <2>4. M = 1..Cardinality(M)
      BY <2>2, <2>3
    <2> QED
      BY <2>3, <2>4 DEF Numbered, M
  <1> QED
    BY <1>2, <1>3

(* What a run adds fits its plan: the rows have the next number, and are   *)
(* of nodes that were not done.                                            *)
LEMMA FitGrows ==
  ASSUME Numbered(me.rows), FitsNodes(me.rows, me.planId, Plan.nodes),
         NEW S, NEW F, S \cap F = {},
         S \cup F \subseteq DOMAIN Plan.nodes \ Completed(me.rows, me.planId, Plan.nodes)
  PROVE  FitsNodes(me.rows \cup Rows(Plan, S, TRUE) \cup Rows(Plan, F, FALSE),
                   me.planId, Plan.nodes)
  <1> DEFINE next == 1 + Cardinality({r.run : r \in me.rows})
             nodes == Plan.nodes
             id == me.planId
             new == Rows(Plan, S, TRUE) \cup Rows(Plan, F, FALSE)
             done == Completed(me.rows, id, nodes)
  <1> DEFINE Row(n, ok) == [run |-> next, node |-> n, key |-> KeyOf(id, nodes[n]), ok |-> ok]
  <1>1. next \in Nat /\ \A r \in me.rows : r.run \in Nat /\ r.run < next
    <2> DEFINE k == Cardinality({r.run : r \in me.rows})
    <2>1. k \in Nat /\ \A r \in me.rows : r.run \in 1..k
      BY NextNumber
    <2> HIDE DEF k
    <2>2. 1 + k \in Nat /\ \A r \in me.rows : r.run \in Nat /\ r.run < 1 + k
      BY <2>1
    <2> QED
      BY <2>2 DEF k
  <1>2. \A r \in new : \/ r.node \in S /\ r = Row(r.node, TRUE)
                       \/ r.node \in F /\ r = Row(r.node, FALSE)
    <2>1. Rows(Plan, S, TRUE) = {Row(n, TRUE) : n \in S}
      BY Zenon DEF Rows
    <2>2. Rows(Plan, F, FALSE) = {Row(n, FALSE) : n \in F}
      BY Zenon DEF Rows
    <2>3. \A n, ok : Row(n, ok).node = n
      OBVIOUS
    <2> HIDE DEF Row
    <2> QED
      BY <2>1, <2>2, <2>3
  <1>3. /\ \A r \in new : r.run = next /\ r.node \in S \cup F /\ r.key = KeyOf(id, nodes[r.node])
        /\ \A r, x \in new : r.node = x.node => r = x
    <2>1. \A n, ok : Row(n, ok).run = next /\ Row(n, ok).key = KeyOf(id, nodes[n])
      OBVIOUS
    <2> HIDE DEF Row, next, new
    <2>2. ASSUME NEW r \in new
          PROVE  r.run = next /\ r.node \in S \cup F /\ r.key = KeyOf(id, nodes[r.node])
      <3>1. CASE r.node \in S /\ r = Row(r.node, TRUE)
        BY <2>1, <3>1
      <3>2. CASE r.node \in F /\ r = Row(r.node, FALSE)
        BY <2>1, <3>2
      <3> QED
        BY <1>2, <3>1, <3>2
    <2>3. ASSUME NEW r \in new, NEW x \in new, r.node = x.node PROVE r = x
      BY <1>2, <2>3, Zenon
    <2> QED
      BY <2>2, <2>3
  <1> HIDE DEF next, new, Row
  <1>4. \A r \in me.rows : r.ok /\ r.key # NoKey => r.node \in done
    BY DEF FitsNodes, Completed, KeyOf
  <1>5. \A r \in me.rows, x \in new : r.run # x.run /\ r.run <= x.run /\ x.run = next
    BY <1>1, <1>3
  <1>6. \A r \in me.rows, x \in new : ~(r.ok /\ r.key # NoKey /\ x.node = r.node)
    BY <1>3, <1>4
  <1> DEFINE all == me.rows \cup new
  <1>7. \A r \in all : r.node \in DOMAIN nodes /\ r.key = KeyOf(id, nodes[r.node])
    BY <1>3 DEF FitsNodes
  <1>8. \A r, x \in all : r.node = x.node /\ r.run = x.run => r = x
    BY <1>3, <1>5 DEF FitsNodes
  <1>9. ASSUME NEW r \in all, NEW x \in all, r.ok, r.key # NoKey, x.node = r.node
        PROVE  x.run <= r.run
    <2>1. CASE r \in me.rows /\ x \in me.rows
      BY <1>9, <2>1 DEF FitsNodes
    <2>2. CASE r \in me.rows /\ x \in new
      BY <1>6, <1>9, <2>2
    <2>3. CASE r \in new /\ x \in me.rows
      BY <1>5, <2>3
    <2>4. CASE r \in new /\ x \in new
      BY <1>1, <1>3, <2>4
    <2> QED
      BY <2>1, <2>2, <2>3, <2>4
  <1>10. FitsNodes(all, id, nodes)
    BY <1>7, <1>8, <1>9 DEF FitsNodes
  <1> QED
    BY <1>10 DEF new

(* The rows a run adds: of the nodes it succeeds with, and of those it     *)
(* tried in vain.                                                          *)
LEMMA RunAdds ==
  ASSUME MeInv, RunPlan
  PROVE  \E S, F :
           /\ S \cap F = {}
           /\ S \cup F \subseteq DOMAIN Plan.nodes \ Completed(me.rows, me.planId, Plan.nodes)
           /\ \E how : /\ how \in {"committed", "need_think", "error"}
                       /\ Ends(how, Rows(Plan, S, TRUE) \cup Rows(Plan, F, FALSE))
  <1>1. PICK ok, asked, failed, how : CameTo(ok, asked, failed, how)
    BY RunComesTo
  <1>2. PICK called \in SUBSET failed :
          Ends(how, Rows(Plan, ok \cup asked, TRUE) \cup Rows(Plan, called, FALSE))
    BY <1>1 DEF CameTo
  <1> DEFINE S == ok \cup asked
  <1>3. /\ S \cap called = {}
        /\ S \cup called \subseteq DOMAIN Plan.nodes \ Completed(me.rows, me.planId, Plan.nodes)
    BY <1>1, <1>2 DEF CameTo
  <1>4. Ends(how, Rows(Plan, S, TRUE) \cup Rows(Plan, called, FALSE))
    BY <1>2
  <1>5. how \in {"committed", "need_think", "error"}
    BY <1>1 DEF CameTo
  <1> HIDE DEF S
  <1> QED
    BY <1>3, <1>4, <1>5

(* A process that ends leaves the file as it was.                          *)
LEMMA ExitTells ==
  ASSUME TellInv, at' = "idle", me' = Nobody, file' = file
  PROVE  TellInv'
  <1>1. Nobody.rows = {}
    BY DEF Nobody, Process
  <1>2. StageInv'
    BY <1>1 DEF StageInv
  <1>3. LedgerInv'
    BY <1>1, NoRowsFit DEF TellInv, LedgerInv
  <1> QED
    BY <1>2, <1>3 DEF TellInv

(* One that has no rows yet goes on.                                       *)
LEMMA EmptyTells ==
  ASSUME TellInv, me'.rows = {}, file' = file,
         at' \in {"sourcing", "planning", "sourced", "planned"},
         at' = "planning" => phase' # "idle" /\ ~job'.cached,
         at' = "planned" => Plan'.err = "none"
  PROVE  TellInv'
  <1>1. StageInv'
    BY DEF StageInv
  <1>2. LedgerInv'
    BY NoRowsFit DEF TellInv, LedgerInv
  <1> QED
    BY <1>1, <1>2 DEF TellInv

(* What a process that asks the planner leaves behind.                     *)
LEMMA AskTells ==
  ASSUME MeInv, at # "idle", NEW b \in BOOLEAN, AskTheModel(b)
  PROVE  /\ at' = "planning" /\ me' = me /\ file' = file
         /\ phase' = "asking" /\ job'.fork = b /\ ~job'.cached
  <1>1. at' = "planning" /\ me' = me /\ file' = file
    BY DEF AskTheModel, Go
  <1>2. JobOf(b).fork = b /\ ~JobOf(b).cached
    BY DEF JobOf
  <1> QED
    BY <1>1, <1>2 DEF AskTheModel, Ask

(* After an answer the rows are those of the run it came from.             *)
LEMMA AgainTells ==
  ASSUME TellInv, MeInv, NEW i, RunAgain(i), file' = file
  PROVE  TellInv'
  <1>1. CASE Exit("wants_rejected")
    BY <1>1, ExitTells DEF Exit
  <1>2. CASE /\ PlanFor(i).err = "none"
             /\ Go("running", [me EXCEPT !.wants = i, !.again = TRUE, !.renamed = TRUE])
    <2>1. /\ at' = "running" /\ me'.wants = i /\ me'.renamed /\ me'.rows = me.rows
          /\ me'.app = me.app /\ me'.cmd = me.cmd
      BY <1>2 DEF Go, MeInv, Fields
    <2>2. Plan'.err = "none"
      BY <1>2, <2>1 DEF Plan, PlanFor, World
    <2>3. LedgerInv'
      BY <2>1 DEF TellInv, LedgerInv
    <2> QED
      BY <2>1, <2>2, <2>3 DEF TellInv, StageInv
  <1> QED
    BY <1>1, <1>2 DEF RunAgain

(* A resumed ledger fits the plan its wants come to, whichever surfaces    *)
(* the new command allows.                                                 *)
LEMMA ResumeTells == ASSUME HostInv, TellInv, Resume PROVE TellInv'
  <1>1. at = "sourcing" /\ file' = file
    BY DEF Resume
  <1>2. CASE Exit("unreachable") \/ Exit("wants_rejected")
    BY <1>1, <1>2, ExitTells DEF Exit
  <1>3. CASE /\ file # None /\ PlanFor(file.wants).err = "none"
             /\ Go("planned",
                   [me EXCEPT !.wants = file.wants, !.rows = file.rows, !.task = file.task,
                              !.planId = OptsUnder(file, @), !.renamed = file.renamed,
                              !.strayed = file.strayed \/ file.app # me.app])
    <2> DEFINE lost == file.strayed \/ file.app # me.app
    <2> HIDE DEF lost
    <2>1. /\ at' = "planned"
          /\ me' = [me EXCEPT !.wants = file.wants, !.rows = file.rows, !.task = file.task,
                              !.planId = file.planId, !.renamed = file.renamed,
                              !.strayed = lost]
      BY <1>3 DEF Go, OptsUnder, lost
    <2>2. /\ me'.cmd = me.cmd /\ me'.app = me.app /\ me'.wants = file.wants
          /\ me'.rows = file.rows /\ me'.planId = file.planId /\ me'.strayed = lost
          /\ me'.renamed = file.renamed
      BY <2>1 DEF HostInv, MeInv, Fields
    <2>3. /\ Plan' = Plans[WorldOf[me.app], me.cmd.surfaces, file.wants]
          /\ Plan'.err = "none"
      BY <1>3, <2>2 DEF Plan, PlanFor, World
    <2>4. me.cmd.surfaces \in SurfaceSets
      BY <1>1, HostAssumption DEF HostInv, MeInv
    <2>5. ~lost => ~file.strayed /\ file.app = me.app
      BY DEF lost
    <2>6. ~file.renamed /\ ~lost => FitsNodes(file.rows, file.planId, Plan'.nodes)
      BY <1>3, <2>3, <2>4, <2>5 DEF TellInv, LedgerInv
    <2>7. LedgerInv'
      BY <1>1, <1>3, <2>1, <2>2, <2>6 DEF TellInv, LedgerInv
    <2> QED
      BY <2>1, <2>3, <2>7 DEF TellInv, StageInv
  <1> QED
    BY <1>2, <1>3 DEF Resume

(* A run: its rows fit what it runs.                                       *)
LEMMA RunTells == ASSUME HostInv, TellInv, RunPlan PROVE TellInv'
  <1>1. PICK S, F :
          /\ S \cap F = {}
          /\ S \cup F \subseteq DOMAIN Plan.nodes \ Completed(me.rows, me.planId, Plan.nodes)
          /\ \E how : /\ how \in {"committed", "need_think", "error"}
                      /\ Ends(how, Rows(Plan, S, TRUE) \cup Rows(Plan, F, FALSE))
    BY RunAdds DEF HostInv
  <1> DEFINE new == Rows(Plan, S, TRUE) \cup Rows(Plan, F, FALSE)
  <1>2. PICK how : Ends(how, new)
    BY <1>1
  <1>3. /\ at = "running" /\ at' = "ran" /\ file' = file
        /\ me' = [me EXCEPT !.outcome = how, !.rows = @ \cup new]
    BY <1>2 DEF Ends, Go, RunPlan
  <1>4. /\ me'.cmd = me.cmd /\ me'.app = me.app /\ me'.wants = me.wants
        /\ me'.planId = me.planId /\ me'.renamed = me.renamed /\ me'.strayed = me.strayed
        /\ me'.rows = me.rows \cup new
    <2> HIDE DEF new
    <2> QED BY <1>3 DEF HostInv, MeInv, Fields
  <1>5. Plan' = Plan
    BY <1>4 DEF Plan, PlanFor, World
  <1>6. Numbered(me.rows)
    BY DEF TellInv, LedgerInv
  <1>7. \A r \in new : r.run = 1 + Cardinality({x.run : x \in me.rows})
    BY DEF Rows
  <1>8. Numbered(me.rows \cup new)
    <2> HIDE DEF new
    <2> QED BY <1>6, <1>7, NumberedGrows
  <1>9. ~me.renamed /\ ~me.strayed => FitsNodes(me.rows \cup new, me.planId, Plan.nodes)
    <2> SUFFICES ASSUME ~me.renamed, ~me.strayed
                 PROVE  FitsNodes(me.rows \cup new, me.planId, Plan.nodes)
      OBVIOUS
    <2>1. FitsNodes(me.rows, me.planId, Plan.nodes)
      BY <1>3 DEF TellInv, LedgerInv
    <2>2. FitsNodes(me.rows \cup Rows(Plan, S, TRUE) \cup Rows(Plan, F, FALSE),
                    me.planId, Plan.nodes)
      BY <1>1, <1>6, <2>1, FitGrows
    <2>3. me.rows \cup new = me.rows \cup Rows(Plan, S, TRUE) \cup Rows(Plan, F, FALSE)
      OBVIOUS
    <2> QED
      BY <2>2, <2>3
  <1> HIDE DEF new
  <1>10. LedgerInv'
    BY <1>3, <1>4, <1>5, <1>8, <1>9 DEF TellInv, LedgerInv
  <1> QED
    BY <1>3, <1>5, <1>10 DEF TellInv, StageInv

(* The state file keeps the rows with the wants and the app they fit: what *)
(* compiles under other surfaces has the same nodes.                       *)
LEMMA ReportTells == ASSUME HostInv, TellInv, Report PROVE TellInv'
  <1>1. at = "ran" /\ at' = "idle" /\ me' = Nobody
    BY DEF Report, Exit
  <1>2. CASE file' = file
    BY <1>1, <1>2, ExitTells
  <1>3. CASE file' = [app |-> me.app, wants |-> me.wants, planId |-> me.planId,
                      rows |-> me.rows, task |-> me.task, strayed |-> me.strayed,
                      renamed |-> me.renamed]
    <2>1. /\ file'.app = me.app /\ file'.wants = me.wants /\ file'.planId = me.planId
          /\ file'.rows = me.rows /\ file'.strayed = me.strayed /\ file'.renamed = me.renamed
      BY <1>3
    <2>2. /\ WorldOf[me.app] \in Worlds /\ me.cmd.surfaces \in SurfaceSets
          /\ me.wants \in Intents
      BY <1>1, HostAssumption DEF HostInv, MeInv
    <2>3. Plan = Plans[WorldOf[me.app], me.cmd.surfaces, me.wants] /\ Plan.err = "none"
      BY <1>1 DEF Plan, PlanFor, World, TellInv, StageInv
    <2>4. \A s \in SurfaceSets : Plans[WorldOf[me.app], s, me.wants].err = "none" =>
            Plans[WorldOf[me.app], s, me.wants].nodes = Plan.nodes
      BY <2>2, <2>3, HostAssumption
    <2>5. Numbered(me.rows) /\ (~me.renamed /\ ~me.strayed =>
            FitsNodes(me.rows, me.planId, Plan.nodes))
      BY <1>1 DEF TellInv, LedgerInv
    <2>6. Nobody.rows = {}
      BY DEF Nobody, Process
    <2>7. LedgerInv'
      BY <1>1, <2>1, <2>4, <2>5, <2>6, NoRowsFit DEF LedgerInv
    <2> QED
      BY <1>1, <2>6, <2>7 DEF TellInv, StageInv
  <1> QED
    BY <1>2, <1>3 DEF Report

(* What comes before a run has no rows but those it resumes.               *)
LEMMA BeforeTells ==
  ASSUME HostInv, TellInv,
         (\E c \in Commands, p \in Pids : Begin(c, p)) \/ AskForWants \/ ReadWants \/ Prepare
  PROVE  TellInv'
  <1>1. CASE \E c \in Commands, p \in Pids : Begin(c, p)
    <2>1. PICK c \in Commands, p \in Pids : Begin(c, p)
      BY <1>1
    <2>2. file' = file
      BY <2>1 DEF Begin
    <2>3. CASE Exit("unreachable") \/ Exit("wants_rejected")
      BY <2>2, <2>3, ExitTells DEF Exit
    <2>4. CASE at' = "sourcing" /\ me' = Process(c, AppOf(c), FreshId(p), commands + 1)
      <3>1. me'.rows = {}
        BY <2>4 DEF Process
      <3> QED
        BY <2>2, <2>4, <3>1, EmptyTells
    <2> QED
      BY <2>1, <2>3, <2>4 DEF Begin
  <1>2. CASE AskForWants
    <2>1. at = "sourcing" /\ AskTheModel(FALSE) /\ me.rows = {}
      BY <1>2 DEF AskForWants, TellInv, StageInv
    <2>2. at' = "planning" /\ me' = me /\ file' = file /\ phase' = "asking" /\ ~job'.cached
      BY <2>1, AskTells DEF HostInv
    <2> QED
      BY <2>1, <2>2, EmptyTells
  <1>3. CASE ReadWants
    <2>1. at = "sourcing" /\ file' = file /\ me.rows = {}
      BY <1>3 DEF ReadWants, TellInv, StageInv
    <2>2. CASE \E code : Exit(code)
      BY <2>1, <2>2, ExitTells DEF Exit
    <2>3. CASE \E i : Go("sourced", [me EXCEPT !.wants = i])
      <3>1. at' = "sourced" /\ me'.rows = {}
        BY <2>1, <2>3 DEF Go, HostInv, MeInv, Fields
      <3> QED
        BY <2>1, <3>1, EmptyTells
    <2> QED
      BY <1>3, <2>2, <2>3 DEF ReadWants
  <1>4. CASE Prepare
    <2>1. at = "sourced" /\ file' = file /\ me.rows = {}
      BY <1>4 DEF Prepare, TellInv, StageInv
    <2>2. CASE \E code : Exit(code)
      BY <2>1, <2>2, ExitTells DEF Exit
    <2>3. CASE \E i : PlanFor(i).err = "none" /\ Go("planned", [me EXCEPT !.wants = i])
      <3>1. PICK i : PlanFor(i).err = "none" /\ Go("planned", [me EXCEPT !.wants = i])
        BY <2>3
      <3>2. /\ at' = "planned" /\ me'.rows = {} /\ me'.wants = i /\ me'.app = me.app
            /\ me'.cmd = me.cmd
        BY <2>1, <3>1 DEF Go, HostInv, MeInv, Fields
      <3>3. Plan'.err = "none"
        BY <3>1, <3>2 DEF Plan, PlanFor, World
      <3> QED
        BY <2>1, <3>2, <3>3, EmptyTells
    <2>4. \/ \E code : Exit(code)
          \/ \E i : PlanFor(i).err = "none" /\ Go("planned", [me EXCEPT !.wants = i])
      BY <1>4 DEF Prepare
    <2> QED
      BY <2>2, <2>3, <2>4
  <1> QED
    BY <1>1, <1>2, <1>3, <1>4

(* A plan that may run, a fork that is answered, a planner that returns.   *)
LEMMA AroundTells ==
  ASSUME HostInv, TellInv, Confirm \/ AskForAnAnswer \/ AnswerGiven \/ Planned
  PROVE  TellInv'
  <1>1. CASE Confirm
    <2>1. at = "planned" /\ file' = file
      BY <1>1 DEF Confirm
    <2>2. CASE \E code : Exit(code)
      BY <2>1, <2>2, ExitTells DEF Exit
    <2>3. CASE Go("running", me)
      <3>1. at' = "running" /\ me' = me /\ Plan' = Plan
        BY <2>3 DEF Go, Plan, PlanFor, World
      <3> QED
        BY <2>1, <3>1 DEF TellInv, StageInv, LedgerInv
    <2> QED
      BY <1>1, <2>2, <2>3 DEF Confirm
  <1>2. CASE AskForAnAnswer
    <2>1. at = "ran" /\ AskTheModel(TRUE)
      BY <1>2 DEF AskForAnAnswer, Stopped
    <2>2. /\ at' = "planning" /\ me' = me /\ file' = file /\ phase' = "asking"
          /\ job'.fork = TRUE /\ ~job'.cached
      BY <2>1, AskTells DEF HostInv
    <2> QED
      BY <2>2 DEF TellInv, StageInv, LedgerInv
  <1>3. CASE AnswerGiven
    <2>1. file' = file
      BY <1>3 DEF AnswerGiven
    <2>2. CASE Exit("wants_rejected")
      BY <2>1, <2>2, ExitTells DEF Exit
    <2> QED
      BY <1>3, <2>1, <2>2, AgainTells DEF AnswerGiven, HostInv
  <1>4. CASE Planned
    <2>1. at = "planning" /\ file' = file /\ (job.fork \/ me.rows = {})
      BY <1>4 DEF Planned, TellInv, StageInv
    <2>2. CASE Exit("planner_failed")
      BY <2>1, <2>2, ExitTells DEF Exit
    <2>3. CASE RunAgain(intent)
      BY <2>1, <2>3, AgainTells DEF HostInv
    <2>4. CASE ~job.fork /\ Go("sourced", [me EXCEPT !.wants = intent])
      <3>1. at' = "sourced" /\ me'.rows = {}
        BY <2>1, <2>4 DEF Go, HostInv, MeInv, Fields
      <3> QED
        BY <2>1, <3>1, EmptyTells
    <2> QED
      BY <1>4, <2>2, <2>3, <2>4 DEF Planned
  <1> QED
    BY <1>1, <1>2, <1>3, <1>4

(* While a process waits for the planner nobody else makes it return.      *)
LEMMA IdleTells ==
  ASSUME HostInv, TellInv, UNCHANGED host, Elsewhere \/ UNCHANGED planner
  PROVE  TellInv'
  <1>1. UNCHANGED <<at, me, file, commands>> /\ Plan' = Plan
    BY DEF host, Plan, PlanFor, World
  <1>2. LedgerInv'
    BY <1>1 DEF TellInv, LedgerInv
  <1>3. at = "planning" => phase' # "idle" /\ job' = job
    <2> SUFFICES ASSUME at = "planning" PROVE phase' # "idle" /\ job' = job
      OBVIOUS
    <2>1. commands # 0 /\ phase # "idle"
      BY DEF HostInv, MeInv, TellInv, StageInv
    <2>2. CASE UNCHANGED planner
      BY <2>1, <2>2 DEF planner
    <2>3. CASE Sampling
      BY <2>3 DEF Sampling, Busy, RequestFails, Reply, Nonsense, Accept, Reject, ReadFails,
                  StoreFails
    <2>4. CASE DataChange
      BY <2>1, <2>4 DEF DataChange
    <2> QED
      BY <2>1, <2>2, <2>3, <2>4 DEF Elsewhere, LibraryAsks
  <1> QED
    BY <1>1, <1>2, <1>3 DEF TellInv, StageInv

(* Nothing is told at first, and every step keeps it.                      *)
LEMMA TellInvHolds == HostSpec => []TellInv
  <1>1. HostInit => TellInv
    <2> SUFFICES ASSUME HostInit PROVE TellInv
      OBVIOUS
    <2>1. at = "idle" /\ me.rows = {} /\ file = None
      BY DEF HostInit, Nobody, Process
    <2> QED
      BY <2>1, NoRowsFit DEF TellInv, StageInv, LedgerInv
  <1>2. HostInv /\ TellInv /\ [HostNext]_<<planner, host>> => TellInv'
    <2> SUFFICES ASSUME HostInv, TellInv, [HostNext]_<<planner, host>> PROVE TellInv'
      OBVIOUS
    <2>1. CASE UNCHANGED <<planner, host>>
      BY <2>1, IdleTells
    <2>2. CASE Gone
      BY <2>2, ExitTells DEF Gone, Exit
    <2>3. CASE Elsewhere /\ UNCHANGED host
      BY <2>3, IdleTells
    <2> QED
      BY <2>1, <2>2, <2>3, BeforeTells, AroundTells, ResumeTells, RunTells, ReportTells
      DEF HostNext
  <1> QED
    BY <1>1, <1>2, HostInvariance, PTL DEF HostSpec

(* A node that has rows has a last one.                                    *)
LEMMA HasALast ==
  ASSUME NEW rows, Numbered(rows), NEW n, \E r \in rows : r.node = n
  PROVE  \E r \in rows : r.node = n /\ \A x \in rows : x.node = n => x.run <= r.run
  <1> DEFINE k == Cardinality({r.run : r \in rows})
             Left == {k - r.run : r \in {x \in rows : x.node = n}}
             Less == {p \in Nat \X Nat : p[1] < p[2]}
  <1>1. k \in Nat /\ \A r \in rows : r.run \in 1..k
    BY NextNumber
  <1> HIDE DEF k
  <1>2. Left \in SUBSET Nat /\ Left # {}
    BY <1>1
  <1>3. Less = OpToRel(<, Nat)
    BY DEF OpToRel
  <1>4. IsWellFoundedOn(Less, Nat)
    BY <1>3, NatLessThanWellFounded
  <1>5. \A x, y \in Nat : y < x => <<y, x>> \in Less
    OBVIOUS
  <1> HIDE DEF Less, Left
  <1>6. PICK l \in Left : \A y \in Left : ~(<<y, l>> \in Less)
    BY <1>2, <1>4, WFMin
  <1>7. PICK r \in rows : r.node = n /\ l = k - r.run
    BY <1>6 DEF Left
  <1>8. ASSUME NEW x \in rows, x.node = n PROVE x.run <= r.run
    <2>1. k - x.run \in Left
      BY <1>8 DEF Left
    <2>2. ~(k - x.run < l)
      BY <1>2, <1>5, <1>6, <2>1
    <2> QED
      BY <1>1, <1>7, <2>2
  <1> QED
    BY <1>7, <1>8

(* Of rows that fit, the last one of a node is one row; and an ok row of a *)
(* write is the last one of its node.                                      *)
LEMMA LastIs ==
  ASSUME NEW rows, Numbered(rows), NEW id, NEW nodes, FitsNodes(rows, id, nodes)
  PROVE  /\ \A n : (\E r \in rows : r.node = n) => LastRow(rows, n) \in rows
                                                   /\ LastRow(rows, n).node = n
         /\ \A r \in rows : r.ok /\ r.key # NoKey => LastRow(rows, r.node) = r
  <1> DEFINE IsLast(r, n) == r.node = n /\ \A x \in rows : x.node = n => x.run <= r.run
  <1>1. \A n : LastRow(rows, n) = CHOOSE r \in rows : IsLast(r, n)
    BY DEF LastRow
  <1>2. \A n : (\E r \in rows : r.node = n) => \E r \in rows : IsLast(r, n)
    BY HasALast
  <1>3. \A n : (\E r \in rows : r.node = n) =>
          LastRow(rows, n) \in rows /\ IsLast(LastRow(rows, n), n)
    <2> HIDE DEF IsLast
    <2> QED BY <1>1, <1>2
  <1>4. ASSUME NEW r \in rows, r.ok, r.key # NoKey PROVE LastRow(rows, r.node) = r
    <2> DEFINE last == LastRow(rows, r.node)
    <2>1. last \in rows /\ IsLast(last, r.node)
      BY <1>3
    <2> HIDE DEF last
    <2>2. last \in rows /\ last.node = r.node /\ r.run <= last.run
      BY <2>1
    <2>3. last.run <= r.run
      BY <1>4, <2>2 DEF FitsNodes
    <2> DEFINE k == Cardinality({x.run : x \in rows})
    <2>4. \A x \in rows : x.run \in 1..k
      BY NextNumber
    <2> HIDE DEF k
    <2>5. r.run \in Int /\ last.run \in Int
      BY <2>2, <2>4
    <2>6. last = r
      BY <2>2, <2>3, <2>5 DEF FitsNodes
    <2> QED
      BY <2>6 DEF last
  <1> QED
    BY <1>3, <1>4

(* What a receipt lists as done is what its rows prove.                    *)
LEMMA SureIsProved ==
  ASSUME NEW rows, Numbered(rows), NEW id, NEW nodes, FitsNodes(rows, id, nodes)
  PROVE  {e.key : e \in {x \in Effects(rows, id, nodes) : x.ok}} \ {NoKey}
           = {r.key : r \in {x \in rows : x.ok}} \ {NoKey}
  <1> DEFINE tried == {i \in DOMAIN nodes : \E r \in rows : r.node = i}
             Effect(n) == [key |-> KeyOf(id, nodes[n]), ok |-> LastRow(rows, n).ok]
             told == {x \in Effects(rows, id, nodes) : x.ok}
             sure == {x \in rows : x.ok}
  <1>1. Effects(rows, id, nodes) = {Effect(n) : n \in tried}
    BY DEF Effects
  <1>2. \A n : Effect(n).key = KeyOf(id, nodes[n]) /\ Effect(n).ok = LastRow(rows, n).ok
    OBVIOUS
  <1> HIDE DEF Effect
  <1>3. ASSUME NEW e \in told, e.key # NoKey PROVE \E r \in sure : r.key = e.key
    <2>1. PICK n \in tried : e = Effect(n)
      BY <1>1
    <2>2. LastRow(rows, n) \in rows /\ LastRow(rows, n).node = n
      BY <2>1, LastIs
    <2>3. LastRow(rows, n).key = KeyOf(id, nodes[n])
      BY <2>2 DEF FitsNodes
    <2>4. LastRow(rows, n).ok
      BY <1>2, <2>1, Zenon
    <2> QED
      BY <1>2, <2>1, <2>2, <2>3, <2>4
  <1>4. ASSUME NEW r \in sure, r.key # NoKey PROVE \E e \in told : e.key = r.key
    <2>1. LastRow(rows, r.node) = r
      BY <1>4, LastIs
    <2>2. r.node \in tried /\ r.key = KeyOf(id, nodes[r.node])
      BY DEF FitsNodes
    <2>3. Effect(r.node) \in told
      <3>1. Effect(r.node).ok
        BY <1>2, <2>1, Zenon
      <3> QED
        BY <1>1, <2>2, <3>1
    <2> QED
      BY <1>2, <2>2, <2>3
  <1> HIDE DEF told, sure
  <1>5. {e.key : e \in told} \ {NoKey} = {r.key : r \in sure} \ {NoKey}
    BY <1>3, <1>4
  <1> QED
    BY <1>5 DEF told, sure

(* Until a fork is answered, and with the app its ledger was kept with,    *)
(* the receipt lists as done the writes its rows prove, and all of these   *)
(* are in the app, however many processes they come from (ledger.rs:       *)
(* effects; main.rs: receipt).                                             *)
THEOREM ReceiptsTell == HostSpec => []ReceiptTells
  <1>1. HostInv /\ TellInv => ReceiptTells
    <2> SUFFICES ASSUME HostInv, TellInv, at = "ran", ~me.renamed, ~me.strayed
                 PROVE  LET Sure == {e.key : e \in {x \in Effects(me.rows, me.planId, Plan.nodes) :
                                                      x.ok}} \ {NoKey}
                        IN /\ Sure = {r.key : r \in {x \in me.rows : x.ok}} \ {NoKey}
                           /\ Sure \subseteq {x.key : x \in applied[me.app]}
      BY DEF ReceiptTells
    <2>1. Numbered(me.rows) /\ FitsNodes(me.rows, me.planId, Plan.nodes)
      BY DEF TellInv, LedgerInv
    <2>2. Proved(me.rows, me.app)
      BY DEF HostInv, RowInv
    <2>3. {r.key : r \in {x \in me.rows : x.ok}} \ {NoKey}
            \subseteq {x.key : x \in applied[me.app]}
      BY <2>2 DEF Proved
    <2> QED
      BY <2>1, <2>3, SureIsProved
  <1> QED
    BY <1>1, HostInvariance, TellInvHolds, PTL

(***************************************************************************)
(* The type invariant.                                                     *)
(***************************************************************************)
Outcomes == {"committed", "need_think", "error"}

ExitCodes ==
  {"none", "done", "wants_rejected", "needs_answer", "refused", "unreachable",
   "planner_failed", "run_failed", "gone"}

(* How processes end: a run that is over has an outcome to report.         *)
EndInv ==
  /\ exit \in ExitCodes /\ commands \in 0..MaxCommands
  /\ me.outcome \in Outcomes \cup {"none"} /\ (at = "ran" => me.outcome \in Outcomes)

(* A process that ends.                                                    *)
LEMMA ExitEnds ==
  ASSUME EndInv, NEW code \in ExitCodes, Exit(code), commands' \in 0..MaxCommands
  PROVE  EndInv'
  BY DEF EndInv, Exit, Nobody, Process

(* One that goes on before its run is over.                                *)
LEMMA GoEnds ==
  ASSUME EndInv, NEW where, NEW process, Go(where, process), where # "ran",
         process.outcome = me.outcome, commands' = commands
  PROVE  EndInv'
  BY DEF EndInv, Go

(* Every step.                                                             *)
LEMMA EndStep ==
  ASSUME HostInv, EndInv, [HostNext]_<<planner, host>> PROVE EndInv'
  <1> USE DEF ExitCodes, Outcomes
  <1>1. commands \in Nat /\ commands \in 0..MaxCommands /\ MaxCommands \in Nat
    <2>1. MaxCommands \in Nat
      BY HostAssumption
    <2> QED
      BY <2>1 DEF EndInv
  <1>2. \A i : me.outcome = [me EXCEPT !.wants = i].outcome
    BY DEF HostInv, MeInv, Fields
  <1>3. CASE \E c \in Commands, p \in Pids : Begin(c, p)
    <2>1. PICK c \in Commands, p \in Pids : Begin(c, p)
      BY <1>3
    <2>2. commands' = commands + 1 /\ commands < MaxCommands
      BY <2>1 DEF Begin
    <2>3. commands' \in 0..MaxCommands
      BY <1>1, <2>2
    <2>4. CASE at' = "sourcing" /\ exit' = "none"
               /\ me' = Process(c, AppOf(c), FreshId(p), commands + 1)
      BY <2>3, <2>4 DEF EndInv, Process
    <2> QED
      BY <2>1, <2>3, <2>4, ExitEnds DEF Begin
  <1>4. CASE Gone
    BY <1>1, <1>4, ExitEnds DEF Gone
  <1>5. CASE Resume
    <2>1. commands' = commands
      BY <1>5 DEF Resume
    <2> DEFINE next ==
          [me EXCEPT !.wants = file.wants, !.rows = file.rows, !.task = file.task,
                     !.planId = OptsUnder(file, @), !.renamed = file.renamed,
                     !.strayed = file.strayed \/ file.app # me.app]
    <2>2. next.outcome = me.outcome
      BY DEF HostInv, MeInv, Fields
    <2>3. \/ Exit("unreachable") \/ Exit("wants_rejected") \/ Go("planned", next)
      BY <1>5 DEF Resume
    <2> HIDE DEF next
    <2> QED
      BY <1>1, <2>1, <2>2, <2>3, ExitEnds, GoEnds
  <1>6. CASE AskForWants \/ AskForAnAnswer
    BY <1>6, GoEnds DEF AskForWants, AskForAnAnswer, AskTheModel
  <1>7. CASE ReadWants
    BY <1>1, <1>2, <1>7, ExitEnds, GoEnds DEF ReadWants
  <1>8. CASE Prepare
    <2>1. \/ Exit("wants_rejected") \/ Exit("done")
          \/ \E i : Go("planned", [me EXCEPT !.wants = i])
      BY <1>8 DEF Prepare
    <2>2. commands' = commands
      BY <1>8 DEF Prepare
    <2> QED
      BY <1>1, <1>2, <2>1, <2>2, ExitEnds, GoEnds
  <1>9. CASE Confirm
    BY <1>1, <1>9, ExitEnds, GoEnds DEF Confirm
  <1>10. CASE RunPlan
    <2>1. PICK how \in Outcomes : \E rows : Ends(how, rows)
      BY <1>10, RunAdds DEF HostInv
    <2>2. at' = "ran" /\ me'.outcome = how /\ exit' = exit /\ commands' = commands
      BY <1>10, <2>1 DEF Ends, Go, RunPlan, HostInv, MeInv, Fields
    <2> QED
      BY <2>2 DEF EndInv
  <1>11. ASSUME NEW i, RunAgain(i), commands' = commands PROVE EndInv'
    <2>1. [me EXCEPT !.wants = i, !.again = TRUE, !.renamed = TRUE].outcome = me.outcome
      BY DEF HostInv, MeInv, Fields
    <2> QED
      BY <1>1, <1>11, <2>1, ExitEnds, GoEnds DEF RunAgain
  <1>12. CASE AnswerGiven
    BY <1>1, <1>11, <1>12, ExitEnds DEF AnswerGiven
  <1>13. CASE Planned
    BY <1>1, <1>2, <1>11, <1>13, ExitEnds, GoEnds DEF Planned
  <1>14. CASE Report
    <2>1. at = "ran" /\ me.outcome \in Outcomes /\ commands' = commands
      BY <1>14 DEF Report, EndInv
    <2>2. Exit("done") \/ Exit("needs_answer") \/ Exit("run_failed")
      BY <1>14, <2>1 DEF Report
    <2> QED
      BY <1>1, <2>1, <2>2, ExitEnds
  <1>15. CASE UNCHANGED host
    BY <1>15 DEF host, EndInv
  <1> QED
    BY <1>3, <1>4, <1>5, <1>6, <1>7, <1>8, <1>9, <1>10, <1>12, <1>13, <1>14, <1>15
    DEF HostNext

(* The state of a command is what the code takes it for: no run without a  *)
(* plan, no receipt without an outcome, no question to the planner without *)
(* a process that waits for it.                                            *)
THEOREM HostTypeOK == HostSpec => []TypeOK
  <1>1. HostInit => EndInv
    <2>1. MaxCommands \in Nat
      BY HostAssumption
    <2> QED
      BY <2>1 DEF HostInit, EndInv, ExitCodes, Outcomes, Nobody, Process
  <1>2. HostInv /\ TellInv /\ EndInv => TypeOK
    BY DEF HostInv, PlannerInv, MeInv, FileInv, TellInv, StageInv, EndInv, ExitCodes, Outcomes,
           TypeOK
  <1> QED
    BY <1>1, <1>2, EndStep, HostInvariance, TellInvHolds, PTL DEF HostSpec

(* Whatever rows a receipt reports, of whatever times, its figures are     *)
(* those somebody with a clock would write down.                           *)
THEOREM HostFiguresAreRight == HostSpec => []FiguresAreRight
  <1>1. FiguresAreRight
    BY FiguresAlwaysHold DEF FiguresAreRight
  <1> QED
    BY <1>1, PTL
=============================================================================
