------------------------------ MODULE EventBus ------------------------------
(***************************************************************************)
(* The one event stream of a run (src/crates/rwmcp/src/events.rs), the     *)
(* app's end of it, and the waits that hang on it (wait_with_check in      *)
(* scheduler.rs).                                                          *)
(*                                                                         *)
(* One task reads /events and keeps what it saw in a vector and an index,  *)
(* each behind a mutex of its own; then it bumps a watch channel.  A wait  *)
(* marks the channel's version, looks into the index, then into the        *)
(* vector, and sleeps until the version moves on, until its slice is over  *)
(* and it glances at the world, or until its deadline.                     *)
(***************************************************************************)
EXTENDS Integers, Sequences

CONSTANTS
  Facts,     \* what can come true in the app, announced as (kind, id)
  KindOf,    \* the kind of each
  Waits,     \* wait nodes of one run
  WaitsFor,  \* the fact each waits for
  AnyId,     \* waits without an id: any fact of the kind will do
  Checked,   \* waits with a read to glance through
  Buffer,    \* capacity of the app's broadcast channel
  MaxEvents  \* bound: events announced

(* A glance asks for one entity by its id.                                 *)
ASSUME BusAssumption ==
  /\ WaitsFor \in [Waits -> Facts]
  /\ AnyId \subseteq Waits
  /\ Checked \subseteq Waits \ AnyId
  /\ Buffer \in Nat \ {0}
  /\ MaxEvents \in Nat

VARIABLES
  \* the app
  holds,     \* facts that hold
  untold,    \* events whose handler has yet to publish them
  channel,   \* events on their way to the subscriber
  \* the stream
  link,      \* "dialing", "open", "lost"
  returned,  \* EventBus::connect has returned
  \* the reader
  reading,   \* "idle", "locked" (seen), "indexed", "pushed" (seen let go)
  event,     \* the event the reader is working on
  seen,      \* EventBus.seen
  index,     \* EventBus.index: positions in seen
  version,   \* versions of the watch channel
  \* the waits
  pc,        \* where each wait is
  mark,      \* the version it has marked as seen
  at,        \* the position it found in the index
  \* history
  announced  \* events announced so far

worldVars  == <<holds, untold, announced>>
linkVars   == <<channel, link, returned>>
readerVars == <<reading, event, seen, index, version>>
waitVars   == <<pc, mark, at>>
vars       == <<worldVars, linkVars, readerVars, waitVars>>

Matching(w) ==
  IF w \in AnyId THEN {f \in Facts : KindOf[f] = KindOf[WaitsFor[w]]} ELSE {WaitsFor[w]}

Places == {"off", "top", "woken", "marked", "fetching", "missed", "asleep",
           "glancing", "ok", "late"}

TypeOK ==
  /\ holds \subseteq Facts /\ untold \subseteq Facts
  /\ channel \in Seq(Facts) /\ Len(channel) <= Buffer
  /\ link \in {"dialing", "open", "lost"} /\ returned \in BOOLEAN
  /\ reading \in {"idle", "locked", "indexed", "pushed"}
  /\ event \in Facts
  /\ seen \in Seq(Facts)
  /\ DOMAIN index \subseteq Facts /\ \A f \in DOMAIN index : index[f] \in Nat
  /\ version \in Nat
  /\ pc \in [Waits -> Places]
  /\ mark \in [Waits -> Nat] /\ at \in [Waits -> Nat]
  /\ announced \in 0..MaxEvents

Init ==
  /\ holds = {} /\ untold = {} /\ announced = 0
  /\ channel = <<>> /\ link = "dialing" /\ returned = FALSE
  /\ reading = "idle" /\ event \in Facts
  /\ seen = <<>> /\ index = <<>> /\ version = 0
  /\ pc = [w \in Waits |-> "off"]
  /\ mark = [w \in Waits |-> 0]
  /\ at = [w \in Waits |-> 0]
-----------------------------------------------------------------------------
(* The app: World::emit under its mutex, the publishing after it.          *)

(* Something comes true, or happens again; its webhook may be lost.        *)
Happen(f) ==
  /\ announced < MaxEvents /\ f \notin untold
  /\ announced' = announced + 1
  /\ holds' = holds \cup {f}
  /\ untold' \in {untold, untold \cup {f}}
  /\ UNCHANGED <<linkVars, readerVars, waitVars>>

(* A full channel drops its oldest event, and the stream's handler passes  *)
(* over the error that says so.  Mutant: it grows.                         *)
SentAlways(f) == Append(channel, f)
Sent(f) == Append(IF Len(channel) = Buffer THEN Tail(channel) ELSE channel, f)

Publish(f) ==
  /\ f \in untold
  /\ untold' = untold \ {f}
  /\ channel' = IF link = "open" THEN Sent(f) ELSE channel
  /\ UNCHANGED <<holds, announced, link, returned, readerVars, waitVars>>
-----------------------------------------------------------------------------
(* EventBus::connect and its task.                                         *)

(* The app has subscribed and answers, or there is no answer.              *)
Dial ==
  /\ link = "dialing" /\ link' \in {"open", "lost"}
  /\ UNCHANGED <<worldVars, channel, returned, readerVars, waitVars>>

(* connect returns once the task has an answer of either kind, and after   *)
(* five seconds in any case.                                               *)
Connected ==
  /\ ~returned /\ link # "dialing"
  /\ returned' = TRUE
  /\ UNCHANGED <<worldVars, channel, link, readerVars, waitVars>>

TookTooLong ==
  /\ ~returned /\ link = "dialing"
  /\ returned' = TRUE
  /\ UNCHANGED <<worldVars, channel, link, readerVars, waitVars>>

(* The stream breaks off.  Nobody dials again.                             *)
Lose ==
  /\ link = "open" /\ link' = "lost"
  /\ channel' = <<>>
  /\ UNCHANGED <<worldVars, returned, readerVars, waitVars>>

(* The reader takes an event off the stream and locks seen.                *)
Read ==
  /\ reading = "idle" /\ channel # <<>>
  /\ reading' = "locked"
  /\ event' = Head(channel) /\ channel' = Tail(channel)
  /\ UNCHANGED <<worldVars, link, returned, seen, index, version, waitVars>>

(* The index keeps the position of the first event of its kind and id.     *)
Enter ==
  /\ reading = "locked"
  /\ reading' = "indexed"
  /\ index' = [f \in DOMAIN index \cup {event} |->
                 IF f \in DOMAIN index THEN index[f] ELSE Len(seen) + 1]
  /\ UNCHANGED <<worldVars, linkVars, event, seen, version, waitVars>>

Push ==
  /\ reading = "indexed"
  /\ reading' = "pushed"
  /\ seen' = Append(seen, event)
  /\ UNCHANGED <<worldVars, linkVars, event, index, version, waitVars>>

(* tx.send, once seen is let go.                                           *)
Wake ==
  /\ reading = "pushed"
  /\ reading' = "idle"
  /\ version' = version + 1
  /\ UNCHANGED <<worldVars, linkVars, event, seen, index, waitVars>>

Reader == Read \/ Enter \/ Push \/ Wake
-----------------------------------------------------------------------------
(* EventBus::wait_for inside wait_with_check.                              *)

Move(w, from, to) == pc[w] \in from /\ pc' = [pc EXCEPT ![w] = to]

(* Mutex seen is free: the reader holds it while it indexes.  Mutant: it   *)
(* does not.                                                               *)
FreeAnyway == TRUE
Free == reading \notin {"locked", "indexed"}

Start(w) ==
  /\ returned /\ Move(w, {"off"}, "top")
  /\ UNCHANGED <<worldVars, linkVars, readerVars, mark, at>>

(* subscribe and borrow_and_update: what comes from here on will wake it.  *)
Mark(w) ==
  /\ Move(w, {"top", "woken"}, "marked")
  /\ mark' = [mark EXCEPT ![w] = version]
  /\ UNCHANGED <<worldVars, linkVars, readerVars, at>>

(* The lookup of an entity by kind and id.                                 *)
Look(w) ==
  /\ w \notin AnyId
  /\ \/ /\ WaitsFor[w] \in DOMAIN index
        /\ Move(w, {"marked"}, "fetching")
        /\ at' = [at EXCEPT ![w] = index[WaitsFor[w]]]
     \/ /\ WaitsFor[w] \notin DOMAIN index
        /\ Move(w, {"marked"}, "missed")
        /\ UNCHANGED at
  /\ UNCHANGED <<worldVars, linkVars, readerVars, mark>>

(* seen[ix], which is there.                                               *)
Fetch(w) ==
  /\ Free /\ Move(w, {"fetching"}, "ok")
  /\ UNCHANGED <<worldVars, linkVars, readerVars, mark, at>>

(* The scan for a kind, whichever entity it is about.                      *)
SeenBy(w) == {i \in 1..Len(seen) : seen[i] \in Matching(w)}

Scan(w) ==
  /\ w \in AnyId /\ Free
  /\ Move(w, {"marked"}, IF SeenBy(w) # {} THEN "ok" ELSE "missed")
  /\ UNCHANGED <<worldVars, linkVars, readerVars, mark, at>>

(* rx.changed() with the version that was marked.  Mutant: the version is  *)
(* marked here.                                                            *)
SleepAndMark(w) ==
  /\ Move(w, {"missed"}, "asleep")
  /\ mark' = [mark EXCEPT ![w] = version]
  /\ UNCHANGED <<worldVars, linkVars, readerVars, at>>

Sleep(w) ==
  /\ Move(w, {"missed"}, "asleep")
  /\ UNCHANGED <<worldVars, linkVars, readerVars, mark, at>>

Woken(w) ==
  /\ mark[w] # version /\ Move(w, {"asleep"}, "woken")
  /\ UNCHANGED <<worldVars, linkVars, readerVars, mark, at>>

(* The slice is over without the event: a glance if there is one to take,  *)
(* and the next slice.                                                     *)
SliceOver(w) ==
  /\ pc[w] \in {"missed", "asleep"}
  /\ pc' = [pc EXCEPT ![w] = IF w \in Checked THEN "glancing" ELSE "top"]
  /\ UNCHANGED <<worldVars, linkVars, readerVars, mark, at>>

(* The read comes back with the fact or without it.  Mutant: any answer    *)
(* will do.                                                                *)
ShowsAnything(w) == TRUE
Shows(w) == WaitsFor[w] \in holds

Glanced(w) ==
  /\ \/ Shows(w) /\ Move(w, {"glancing"}, "ok")
     \/ Move(w, {"glancing"}, "top")
  /\ UNCHANGED <<worldVars, linkVars, readerVars, mark, at>>

(* The deadline is looked at before every slice.                           *)
Deadline(w) ==
  /\ Move(w, {"top"}, "late")
  /\ UNCHANGED <<worldVars, linkVars, readerVars, mark, at>>

Awake(w) == Mark(w) \/ Look(w) \/ Scan(w) \/ Fetch(w) \/ Sleep(w) \/ Woken(w)
Timer(w) == SliceOver(w) \/ Deadline(w)
-----------------------------------------------------------------------------

Next ==
  \/ \E f \in Facts : Happen(f) \/ Publish(f)
  \/ Dial \/ Connected \/ TookTooLong \/ Lose \/ Reader
  \/ \E w \in Waits : Start(w) \/ Awake(w) \/ Glanced(w) \/ Timer(w)

(* The runtime keeps polling the reader and the waits.  Nothing is assumed *)
(* of the app, the network, the reads and the timers.                      *)
Fairness == WF_vars(Reader) /\ \A w \in Waits : WF_vars(Awake(w))

Spec == Init /\ [][Next]_vars
FairSpec == Spec /\ Fairness
-----------------------------------------------------------------------------
(* Properties.                                                             *)

(* A wait that found a position in the index finds the event there when it *)
(* gets at seen: the two locks are taken one after the other, and the      *)
(* index runs ahead of the vector in between.                              *)
FetchFinds ==
  \A w \in Waits : pc[w] = "fetching" /\ Free =>
     at[w] \in 1..Len(seen) /\ seen[at[w]] = WaitsFor[w]

(* No wakeup is lost between looking and going to sleep: a wait that sleeps*)
(* on the current version has nothing to find in seen, unless the reader   *)
(* is about to wake it.                                                    *)
NoLostWakeup ==
  \A w \in Waits :
     pc[w] = "asleep" /\ mark[w] = version /\ reading # "pushed" => SeenBy(w) = {}

(* A wait only succeeds on a fact that holds, whether it heard of it or    *)
(* glanced at it.                                                          *)
OkIsSo == \A w \in Waits : pc[w] = "ok" => Matching(w) \cap holds # {}

(* An event the bus has seen ends the waits for it, though no timer helps. *)
(* Only a glance, whose read nothing bounds, can come in between.          *)
WakesUp ==
  \A w \in Waits :
     pc[w] # "off" /\ SeenBy(w) # {} ~> pc[w] \in {"ok", "late", "glancing"}
=============================================================================
