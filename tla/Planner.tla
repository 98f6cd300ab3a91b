------------------------------- MODULE Planner -------------------------------
(***************************************************************************)
(* The planner (crates/rwmcp/src/planner.rs): from a goal to wants, by     *)
(* asking a model until lint has nothing to say, and from a fork to new    *)
(* wants; with its cache, its retries, and an app that changes meanwhile.  *)
(*                                                                         *)
(* What a reply says, what lint accepts and what a selector expands to are *)
(* constants, so that everything holds for any model and any lint.  Left   *)
(* out: prompts, tokens, and the limits an intent carries along.           *)
(***************************************************************************)
EXTENDS Naturals

CONSTANTS
  Worlds,      \* the world models
  PrintOf,     \* the fingerprint of each
  SurfaceSets, \* the sets of surfaces a plan may use
  Goals,       \* the sentences
  Datas,       \* what may be in the app
  Shown,       \* the facts the planner is told about each: names, or a summary of many
  NoFacts,     \* what it is told when the app cannot be read
  Intents,     \* the lists of wants
  Empty,       \* the one without wants
  Replies,     \* those a model may reply with
  Expanded,    \* Expanded[i, d]: the selectors of i replaced by what d has
  Accepted,    \* the <<world, surfaces, intent>> lint finds nothing wrong with
  MaxRequests, \* how often a busy model is asked: 6
  NoJob

Jobs ==
  [goal : Goals, world : Worlds, surfaces : SurfaceSets, live : BOOLEAN, cached : BOOLEAN,
   fork : BOOLEAN]

ASSUME PlannerAssumption ==
  /\ Empty \in Intents /\ Replies \subseteq Intents
  /\ Expanded \in [Intents \X Datas -> Intents]
  /\ NoJob \notin Jobs /\ MaxRequests \in Nat \ {0}

VARIABLES
  data,     \* what is in the app now
  cache,    \* the IntentCache: what was planned under each key
  job,      \* what the planner is asked for
  facts,    \* what it was told of the app
  phase,    \* "idle", "asking", "replied", "handed" over, or "failed"
  intent,   \* the latest wants
  requests, \* the requests made for the sample under way
  samples   \* the samples paid for

planner == <<data, cache, job, facts, phase, intent, requests, samples>>

(* How often a model is asked before the planner gives up.                 *)
MaxSamples(j) == IF j.fork THEN 2 ELSE 3

(* Mutant: the world model is no part of the key.                          *)
KeyWithoutWorld(j, f) == [goal |-> j.goal, facts |-> f, surfaces |-> j.surfaces, world |-> 0]

Key(j, f) == [goal |-> j.goal, facts |-> f, surfaces |-> j.surfaces, world |-> PrintOf[j.world]]

PlannerInit ==
  /\ data \in Datas /\ cache = <<>> /\ job = NoJob /\ facts = NoFacts /\ phase = "idle"
  /\ intent = Empty /\ requests = 0 /\ samples = 0

(***************************************************************************)
(* plan_cached, plan_with_lint and answer_fork begin: a repeated question  *)
(* costs nothing, and its answer is not looked at again.                   *)
(***************************************************************************)
Ask(j, f) ==
  /\ phase = "idle"
  /\ job' = j /\ facts' = f /\ requests' = 0 /\ samples' = 0
  /\ IF j.cached /\ Key(j, f) \in DOMAIN cache
     THEN phase' = "handed" /\ intent' = cache[Key(j, f)]
     ELSE phase' = "asking" /\ UNCHANGED intent
  /\ UNCHANGED <<data, cache>>

(* What is read from the app just before; offline there is nothing to read.*)
FactsFor(j) == IF j.live THEN {Shown[data], NoFacts} ELSE {NoFacts}

(***************************************************************************)
(* messages(): the model is busy and asked again; a sample is recorded     *)
(* when it replies.  A reply that makes no sense is an intent without      *)
(* wants, or for a fork the end.                                           *)
(***************************************************************************)
(* Mutant: the model is asked for as long as it is busy.                   *)
AskForever ==
  /\ phase = "asking" /\ requests' = requests + 1
  /\ UNCHANGED <<data, cache, job, facts, phase, intent, samples>>

Busy ==
  /\ phase = "asking"
  /\ IF requests + 1 < MaxRequests
     THEN requests' = requests + 1 /\ UNCHANGED phase
     ELSE phase' = "failed" /\ UNCHANGED requests
  /\ UNCHANGED <<data, cache, job, facts, intent, samples>>

RequestFails ==
  /\ phase = "asking"
  /\ phase' = "failed"
  /\ UNCHANGED <<data, cache, job, facts, intent, requests, samples>>

Reply ==
  /\ phase = "asking"
  /\ intent' \in Replies
  /\ phase' = "replied" /\ requests' = 0 /\ samples' = samples + 1
  /\ UNCHANGED <<data, cache, job, facts>>

Nonsense ==
  /\ phase = "asking"
  /\ requests' = 0 /\ samples' = samples + 1
  /\ IF job.fork THEN phase' = "failed" /\ UNCHANGED intent
     ELSE phase' = "replied" /\ intent' = Empty
  /\ UNCHANGED <<data, cache, job, facts>>

(***************************************************************************)
(* The reply: selectors are expanded by reading the app (for a plan, not   *)
(* for an answer to a fork), and lint decides.                             *)
(***************************************************************************)
Reads(j) == j.live /\ ~j.fork

Meant == IF Reads(job) THEN Expanded[intent, data] ELSE intent

(* Mutant: lint looks at no more than whether there are wants.             *)
AnyWants(j, i) == i # Empty

Fits(j, i) == <<j.world, j.surfaces, i>> \in Accepted

Accept ==
  /\ phase = "replied" /\ Fits(job, Meant)
  /\ phase' = "handed" /\ intent' = Meant
  /\ cache' = IF ~job.cached THEN cache
              ELSE [k \in DOMAIN cache \cup {Key(job, facts)} |->
                      IF k = Key(job, facts) THEN Meant ELSE cache[k]]
  /\ UNCHANGED <<data, job, facts, requests, samples>>

Reject ==
  /\ phase = "replied" /\ ~Fits(job, Meant)
  /\ phase' = IF samples < MaxSamples(job) THEN "asking" ELSE "failed"
  /\ intent' = Meant
  /\ UNCHANGED <<data, cache, job, facts, requests, samples>>

(* The app does not answer the read; what was accepted cannot be stored.   *)
ReadFails ==
  /\ phase = "replied" /\ Reads(job)
  /\ phase' = "failed"
  /\ UNCHANGED <<data, cache, job, facts, intent, requests, samples>>

StoreFails ==
  /\ phase = "replied" /\ job.cached /\ Fits(job, Meant)
  /\ phase' = "failed" /\ intent' = Meant
  /\ UNCHANGED <<data, cache, job, facts, requests, samples>>

(* The caller has what it asked for, or knows that there is nothing.       *)
Return ==
  /\ phase \in {"handed", "failed"}
  /\ phase' = "idle" /\ job' = NoJob /\ facts' = NoFacts /\ intent' = Empty
  /\ requests' = 0 /\ samples' = 0
  /\ UNCHANGED <<data, cache>>

(* Somebody else changes what is in the app.                               *)
DataChange ==
  /\ data' \in Datas \ {data}
  /\ UNCHANGED <<cache, job, facts, phase, intent, requests, samples>>

Sampling ==
  Busy \/ RequestFails \/ Reply \/ Nonsense \/ Accept \/ Reject \/ ReadFails \/ StoreFails

PlannerNext ==
  \/ \E j \in Jobs : \E f \in FactsFor(j) : Ask(j, f)
  \/ Sampling \/ Return \/ DataChange

PlannerSpec == PlannerInit /\ [][PlannerNext]_planner

(***************************************************************************)
(* Properties.                                                             *)
(***************************************************************************)
Keys ==
  [goal : Goals, facts : {Shown[d] : d \in Datas} \cup {NoFacts}, surfaces : SurfaceSets,
   world : {PrintOf[w] : w \in Worlds}]

PlannerTypeOK ==
  /\ data \in Datas /\ intent \in Intents
  /\ facts \in {Shown[d] : d \in Datas} \cup {NoFacts}
  /\ DOMAIN cache \subseteq Keys /\ \A k \in DOMAIN cache : cache[k] \in Intents
  /\ phase \in {"idle", "asking", "replied", "handed", "failed"}
  /\ job \in Jobs \cup {NoJob} /\ (phase # "idle" => job \in Jobs)
  /\ requests \in 0..MaxRequests - 1

(* Lint accepted i under these surfaces, for a world with this fingerprint.*)
AcceptedUnder(print, s, i) == \E w \in Worlds : PrintOf[w] = print /\ <<w, s, i>> \in Accepted

(* Whatever the planner hands over, from the model or from the cache, to a *)
(* goal or to a fork, lint has accepted as it is, under the surfaces and   *)
(* the world model of the one who asks; and it was paid for at most three  *)
(* times, an answer to a fork at most twice.                               *)
HandedOverFits ==
  phase = "handed" =>
    /\ AcceptedUnder(PrintOf[job.world], job.surfaces, intent)
    /\ samples <= MaxSamples(job)
=============================================================================
