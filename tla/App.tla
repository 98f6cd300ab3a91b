-------------------------------- MODULE App --------------------------------
(***************************************************************************)
(* The target app (src/crates/app/src/domain.rs and lib.rs): the invoicing *)
(* world behind one mutex, its doors, and the oracle that resets it, turns *)
(* its chaos on and pays its invoices, now or later.                       *)
(*                                                                         *)
(* A handler runs under the mutex and is one step.  It publishes its       *)
(* events after it has let the mutex go, so Publish is a step of its own;  *)
(* a delayed payment is a task that outlives the request that asked for    *)
(* it.  REST, MCP and the page's tools all end in these handlers.          *)
(***************************************************************************)
EXTENDS Integers, Sequences, FiniteSets

CONSTANTS
  Keys,       \* idempotency keys
  NoKey,      \* a request that carries none
  Asks,       \* the call each key is stamped on: [op, on]
  Loose,      \* calls made without a key
  Customers,  \* ids of the seeded customers
  Watched,    \* kinds of events somebody waits for; the others are left out
  MaxId,      \* bound: ids handed out
  MaxLimit,   \* bound: chaos.rate_limit_per_sec
  MaxPending, \* bound: delayed payments under way
  MaxResets   \* bound: resets

Ids   == 1..MaxId
Calls ==
  [op : {"createCustomer"}, on : {0}]
    \cup [op : {"createInvoice", "sendInvoice", "sendReceipt"}, on : Ids]
    \cup [op : {"createReport"}, on : SUBSET Ids]

(* A key is a hash of the operation and of what it is for (compiler.rs),   *)
(* so a key stands for one call.                                           *)
ASSUME KeyAssumption ==
  /\ NoKey \notin Keys
  /\ Asks \in [Keys -> Calls]
  /\ Loose \subseteq Calls

Kinds == {"created", "approved", "sent", "queued", "receipt", "paid", "report"}

ASSUME SizeAssumption ==
  /\ Watched \subseteq Kinds
  /\ MaxId \in Nat /\ MaxLimit \in Nat /\ MaxPending \in Nat /\ MaxResets \in Nat
  /\ Customers \subseteq Ids
  /\ Customers = 1..Cardinality(Customers)

VARIABLES
  \* World
  customers, invoices, outbox, reports, payments,
  replay,     \* key -> id of the entity its first answer was about
  nextId,     \* World.next_id
  quota,      \* World.rate_window_count
  expired,    \* the rate window began a second ago or more
  chaos,      \* World.chaos
  \* AppState and tasks
  outgoing,   \* events of handlers that have not published them yet
  heard,      \* events a subscriber of /events has received
  pending,    \* delayed payments asleep
  \* history
  epoch,      \* resets so far
  applied,    \* how often each key took effect since the reset
  passed,     \* writes let through under a limit in this rate window
  snubbed     \* keys refused after they had been answered with success

gateVars  == <<quota, expired, passed>>
worldVars == <<customers, invoices, outbox, reports, payments, replay, nextId, applied>>
taskVars  == <<outgoing, heard, pending, epoch>>
vars      == <<worldVars, gateVars, chaos, taskVars, snubbed>>

Draft == [status |-> "draft", approved |-> FALSE, receipt |-> FALSE]
Calm  == [approval |-> FALSE, fail |-> FALSE, limit |-> 0]

Invoices == [status : {"draft", "sent", "paid"}, approved : BOOLEAN, receipt : BOOLEAN]
Events   == [kind : Watched, id : Ids]

TypeOK ==
  /\ customers \subseteq Ids
  /\ DOMAIN invoices \subseteq Ids /\ \A i \in DOMAIN invoices : invoices[i] \in Invoices
  /\ outbox \subseteq [id : Ids, kind : {"invoice", "receipt"}, invoice : DOMAIN invoices]
  /\ \A r \in DOMAIN reports :
        reports[r].of \subseteq DOMAIN invoices /\ reports[r].sent \in Nat
  /\ payments \subseteq [id : Ids, invoice : DOMAIN invoices]
  /\ DOMAIN replay \subseteq Keys /\ \A k \in DOMAIN replay : replay[k] \in Ids
  /\ nextId \in 1..(MaxId + 1)
  /\ quota \in 0..(MaxLimit + 1) /\ expired \in BOOLEAN /\ passed \in Nat
  /\ chaos \in [approval : BOOLEAN, fail : BOOLEAN, limit : 0..MaxLimit]
  /\ \A b \in outgoing : b.epoch \in 0..MaxResets /\ b.events \in Seq(Events)
  /\ \A e \in heard : e.epoch \in 0..MaxResets /\ e.event \in Events
  /\ pending \subseteq [invoice : Ids, silent : BOOLEAN]
  /\ epoch \in 0..MaxResets
  /\ applied \in [Keys -> Nat]
  /\ snubbed \subseteq Keys

(* World::seeded.                                                          *)
Seeded ==
  /\ customers = Customers
  /\ invoices = <<>> /\ outbox = {} /\ reports = <<>> /\ payments = {}
  /\ replay = <<>>
  /\ nextId = Cardinality(Customers) + 1
  /\ quota = 0 /\ expired = TRUE /\ passed = 0
  /\ chaos = Calm
  /\ applied = [k \in Keys |-> 0]

Init ==
  /\ Seeded
  /\ outgoing = {} /\ heard = {} /\ pending = {}
  /\ epoch = 0
  /\ snubbed = {}
-----------------------------------------------------------------------------
(* What the write handlers share.                                          *)

Answer(k, ok) ==
  snubbed' = IF ok \/ k \notin DOMAIN replay THEN snubbed ELSE snubbed \cup {k}

(* World::replayed: a key with a remembered answer gets it, before         *)
(* anything else is looked at.  Mutant: only while the gate is open.       *)
Counted == IF expired THEN 1 ELSE quota + 1

PassesLate == chaos.limit = 0 \/ Counted <= chaos.limit + 1
Passes == chaos.limit = 0 \/ Counted <= chaos.limit

ReplayedIfOpen(k) ==
  /\ k \in DOMAIN replay
  /\ Answer(k, Passes /\ ~chaos.fail)
  /\ UNCHANGED <<worldVars, gateVars, chaos, taskVars>>

Replayed(k) ==
  /\ k \in DOMAIN replay
  /\ Answer(k, TRUE)
  /\ UNCHANGED <<worldVars, gateVars, chaos, taskVars>>

(* A domain error: nothing changes.                                        *)
Rejected(k) ==
  /\ Answer(k, FALSE)
  /\ UNCHANGED <<worldVars, gateVars, chaos, taskVars>>

(* World::write_gate counts the write in the current window, or in a new   *)
(* one; the count is only ever compared with a limit.                      *)
Charge ==
  IF chaos.limit = 0 THEN UNCHANGED gateVars
  ELSE /\ quota' = IF Counted > MaxLimit THEN MaxLimit + 1 ELSE Counted
       /\ expired' = FALSE
       /\ passed' = (IF expired THEN 0 ELSE passed) + (IF Passes THEN 1 ELSE 0)

(* The gate is closed, or it opens on a send that chaos fails before it    *)
(* does anything.                                                          *)
TurnedAway(k) ==
  /\ ~Passes
  /\ Charge /\ Answer(k, FALSE)
  /\ UNCHANGED <<worldVars, chaos, taskVars>>

ChaosFails(k) ==
  /\ Passes /\ chaos.fail
  /\ Charge /\ Answer(k, FALSE)
  /\ UNCHANGED <<worldVars, chaos, taskVars>>

(* World::remember and the effect row of key k, for entity id.  Mutant:    *)
(* the answer is not remembered.                                           *)
RememberNothing(k, id) ==
  /\ applied' = IF k \in Keys THEN [applied EXCEPT ![k] = @ + 1] ELSE applied
  /\ UNCHANGED replay

Remember(k, id) ==
  IF k \notin Keys THEN UNCHANGED <<replay, applied>>
  ELSE /\ replay' = [x \in DOMAIN replay \cup {k} |-> IF x = k THEN id ELSE replay[x]]
       /\ applied' = [applied EXCEPT ![k] = @ + 1]

(* World::emit; nobody listens for a kind that is not watched.             *)
Event(kind, id) == IF kind \in Watched THEN <<[kind |-> kind, id |-> id]>> ELSE <<>>

Batch(evs) == IF evs = <<>> THEN {} ELSE {[epoch |-> epoch, events |-> evs]}

Announce(evs) ==
  /\ outgoing' = outgoing \cup Batch(evs)
  /\ UNCHANGED <<heard, pending, epoch>>

(* World::alloc, MaxId permitting; the write goes through.                 *)
Done(k, id, evs) ==
  /\ nextId \in Ids
  /\ nextId' = nextId + 1
  /\ Remember(k, id)
  /\ Charge /\ Answer(k, TRUE)
  /\ Announce(evs)
  /\ UNCHANGED chaos

Fresh(k) == k \notin DOMAIN replay
-----------------------------------------------------------------------------
(* The handlers.                                                           *)

CreateCustomer(k) ==
  \/ Replayed(k)
  \/ Fresh(k) /\ TurnedAway(k)
  \/ /\ Fresh(k) /\ Passes
     /\ customers' = customers \cup {nextId}
     /\ Done(k, nextId, Event("created", nextId))
     /\ UNCHANGED <<invoices, outbox, reports, payments>>

CreateInvoice(k, c) ==
  \/ Replayed(k)
  \/ Fresh(k) /\ c \notin customers /\ Rejected(k)
  \/ Fresh(k) /\ c \in customers /\ TurnedAway(k)
  \/ /\ Fresh(k) /\ c \in customers /\ Passes
     /\ invoices' = [i \in DOMAIN invoices \cup {nextId} |->
                       IF i = nextId THEN Draft ELSE invoices[i]]
     /\ Done(k, nextId, Event("created", nextId))
     /\ UNCHANGED <<customers, outbox, reports, payments>>

(* Sending marks a draft as sent; it never takes a payment back.  Mutant:  *)
(* it does.                                                                *)
SentStatusAlways(i) == "sent"
SentStatus(i) == IF invoices[i].status = "draft" THEN "sent" ELSE invoices[i].status

MaySend(i) == i \in DOMAIN invoices /\ (chaos.approval => invoices[i].approved)

SendInvoice(k, i) ==
  \/ Replayed(k)
  \/ Fresh(k) /\ ~MaySend(i) /\ Rejected(k)
  \/ Fresh(k) /\ MaySend(i) /\ (TurnedAway(k) \/ ChaosFails(k))
  \/ /\ Fresh(k) /\ MaySend(i) /\ Passes
     /\ invoices' = [invoices EXCEPT ![i].status = SentStatus(i)]
     /\ outbox' = outbox \cup {[id |-> nextId, kind |-> "invoice", invoice |-> i]}
     /\ Done(k, i, Event("sent", i) \o Event("queued", nextId))
     /\ UNCHANGED <<customers, reports, payments>>

(* Mutant: a receipt may be sent for any invoice.                          *)
MayReceiptAny(i) == i \in DOMAIN invoices
MayReceipt(i) == i \in DOMAIN invoices /\ invoices[i].status = "paid"

SendReceipt(k, i) ==
  \/ Replayed(k)
  \/ Fresh(k) /\ ~MayReceipt(i) /\ Rejected(k)
  \/ Fresh(k) /\ MayReceipt(i) /\ TurnedAway(k)
  \/ /\ Fresh(k) /\ MayReceipt(i) /\ Passes
     /\ invoices' = [invoices EXCEPT ![i].receipt = TRUE]
     /\ outbox' = outbox \cup {[id |-> nextId, kind |-> "receipt", invoice |-> i]}
     /\ Done(k, i, Event("receipt", i))
     /\ UNCHANGED <<customers, reports, payments>>

(* What a report counts.                                                   *)
SentOf(of) == Cardinality({i \in of : invoices[i].status # "draft"})

CreateReport(k, of) ==
  \/ Replayed(k)
  \/ Fresh(k) /\ ~(of \subseteq DOMAIN invoices) /\ Rejected(k)
  \/ Fresh(k) /\ of \subseteq DOMAIN invoices /\ TurnedAway(k)
  \/ /\ Fresh(k) /\ of \subseteq DOMAIN invoices /\ Passes
     /\ reports' = [r \in DOMAIN reports \cup {nextId} |->
                       IF r = nextId THEN [of |-> of, sent |-> SentOf(of)]
                       ELSE reports[r]]
     /\ Done(k, nextId, Event("report", nextId))
     /\ UNCHANGED <<customers, invoices, outbox, payments>>

(* A request, through whichever door.                                      *)
Request(k, c) ==
  \/ c.op = "createCustomer" /\ CreateCustomer(k)
  \/ c.op = "createInvoice" /\ CreateInvoice(k, c.on)
  \/ c.op = "sendInvoice" /\ SendInvoice(k, c.on)
  \/ c.op = "sendReceipt" /\ SendReceipt(k, c.on)
  \/ c.op = "createReport" /\ CreateReport(k, c.on)

(* The page's approve button: no key, no gate.                             *)
Approve(i) ==
  /\ i \in DOMAIN invoices
  /\ invoices' = [invoices EXCEPT ![i].approved = TRUE]
  /\ Announce(Event("approved", i))
  /\ Answer(NoKey, TRUE)
  /\ UNCHANGED <<customers, outbox, reports, payments, replay, nextId, applied,
                 gateVars, chaos>>

(* A handler publishes the next of its events.                             *)
Publish ==
  \E b \in outgoing :
     /\ heard' = heard \cup {[epoch |-> b.epoch, event |-> Head(b.events)]}
     /\ outgoing' = (outgoing \ {b}) \cup
          (IF Len(b.events) = 1 THEN {} ELSE {[b EXCEPT !.events = Tail(@)]})
     /\ UNCHANGED <<worldVars, gateVars, chaos, pending, epoch, snubbed>>

(* The rate window grows a second old.                                     *)
Tick ==
  /\ ~expired /\ expired' = TRUE
  /\ UNCHANGED <<worldVars, quota, passed, chaos, taskVars, snubbed>>
-----------------------------------------------------------------------------
(* The oracle.                                                             *)

(* The window and its count stay as they are.  Mutant: the count starts    *)
(* over.                                                                   *)
NewChaos ==
  /\ chaos' \in [approval : BOOLEAN, fail : BOOLEAN, limit : 0..MaxLimit]
  /\ chaos' # chaos

SetChaosAfresh ==
  NewChaos /\ quota' = 0 /\ UNCHANGED <<worldVars, expired, passed, taskVars, snubbed>>

SetChaos ==
  NewChaos /\ UNCHANGED <<worldVars, gateVars, taskVars, snubbed>>

(* World::receive_payment, for an invoice there is.  Mutant: it is not     *)
(* looked up.                                                              *)
ExistsAnyway(i) == i \in Ids
Exists(i) == i \in DOMAIN invoices

Pay(i) ==
  /\ nextId \in Ids
  /\ nextId' = nextId + 1
  /\ invoices' = [invoices EXCEPT ![i].status = "paid"]
  /\ payments' = payments \cup {[id |-> nextId, invoice |-> i]}
  /\ UNCHANGED <<customers, outbox, reports, replay, applied, gateVars, chaos, snubbed>>

Paid(i, silent) ==
  outgoing' = outgoing \cup (IF silent THEN {} ELSE Batch(Event("paid", i)))

PayNow(i, silent) ==
  /\ Exists(i)
  /\ Pay(i) /\ Paid(i, silent)
  /\ UNCHANGED <<heard, pending, epoch>>

(* With a delay nothing is looked up until the delay is over.              *)
PayLater(i, silent) ==
  /\ Cardinality(pending) < MaxPending
  /\ pending' = pending \cup {[invoice |-> i, silent |-> silent]}
  /\ UNCHANGED <<worldVars, gateVars, chaos, outgoing, heard, epoch, snubbed>>

PaymentDue(p) ==
  /\ p \in pending
  /\ pending' = pending \ {p}
  /\ \/ Exists(p.invoice) /\ Pay(p.invoice) /\ Paid(p.invoice, p.silent)
     \/ /\ ~Exists(p.invoice)
        /\ UNCHANGED <<worldVars, gateVars, chaos, outgoing, snubbed>>
  /\ UNCHANGED <<heard, epoch>>

(* The world is replaced; the tasks that are asleep are not.               *)
Reset ==
  /\ epoch < MaxResets
  /\ epoch' = epoch + 1
  /\ customers' = Customers
  /\ invoices' = <<>> /\ outbox' = {} /\ reports' = <<>> /\ payments' = {}
  /\ replay' = <<>>
  /\ nextId' = Cardinality(Customers) + 1
  /\ quota' = 0 /\ expired' = TRUE /\ passed' = 0
  /\ chaos' = Calm
  /\ applied' = [k \in Keys |-> 0]
  /\ UNCHANGED <<outgoing, heard, pending, snubbed>>
-----------------------------------------------------------------------------

Next ==
  \/ \E k \in Keys : Request(k, Asks[k])
  \/ \E c \in Loose : Request(NoKey, c)
  \/ \E i \in Ids : Approve(i)
  \/ \E i \in Ids : \E silent \in BOOLEAN : PayNow(i, silent) \/ PayLater(i, silent)
  \/ \E p \in pending : PaymentDue(p)
  \/ Publish \/ Tick \/ SetChaos \/ Reset

Spec == Init /\ [][Next]_vars
-----------------------------------------------------------------------------
(* Properties.                                                             *)

(* An invoice or a receipt goes out at most once as long as every send of  *)
(* it carries one key: nothing for World::double_sends to count, however   *)
(* often, through whichever door and under whatever chaos it is asked for. *)
NoDoubleSends ==
  \A m1, m2 \in outbox : m1.invoice = m2.invoice /\ m1.kind = m2.kind => m1 = m2

(* A receipt is only ever out for an invoice that is paid and stays paid,  *)
(* by a payment the world knows.                                           *)
ReceiptsArePaid ==
  \A m \in outbox : m.kind = "receipt" =>
     /\ invoices[m.invoice].status = "paid" /\ invoices[m.invoice].receipt
     /\ \E p \in payments : p.invoice = m.invoice

(* A report's count of sent invoices stays a lower bound of the truth.     *)
ReportsStayTrue ==
  \A r \in DOMAIN reports :
     reports[r].sent <=
        Cardinality({i \in reports[r].of : invoices[i].status # "draft"})

(* A write passes the gate only if the writes let through in this window,  *)
(* itself and those under an earlier limit included, are no more than the  *)
(* limit of now allows, however often chaos was set since the window       *)
(* began.  (A limit that is lowered may find more of them there already;   *)
(* writes made while there is no limit are counted neither by write_gate   *)
(* nor here.)                                                              *)
RateHolds == [][passed' > passed => passed' <= chaos.limit]_vars

(* What a subscriber hears of this world is still so: a wait that a heard  *)
(* event ends leads to a step that finds the fact.                         *)
HeardIsSo ==
  \A e \in heard : e.epoch = epoch =>
     /\ e.event.kind = "paid" => invoices[e.event.id].status = "paid"
     /\ e.event.kind = "sent" => invoices[e.event.id].status # "draft"
     /\ e.event.kind = "receipt" => invoices[e.event.id].receipt

(* Until the world is reset an invoice goes from draft to sent to paid,    *)
(* never back, and an approval or a sent receipt is never taken back.      *)
Rank == [draft |-> 0, sent |-> 1, paid |-> 2]
NeverBackwards ==
  [][epoch' = epoch =>
       \A i \in DOMAIN invoices :
          /\ Rank[invoices'[i].status] >= Rank[invoices[i].status]
          /\ invoices[i].approved => invoices'[i].approved
          /\ invoices[i].receipt => invoices'[i].receipt]_vars

(* Once a key was answered with success, asking again succeeds, whatever   *)
(* the rate window, the approval rule or chaos say: a retry whose first    *)
(* answer was lost is never refused.                                       *)
RetriesSucceed == snubbed = {}

(* The app is the door the scheduler counts on.                            *)
DoorAbs == INSTANCE Door WITH remembered <- DOMAIN replay

KeepsDoor == DoorAbs!Spec
=============================================================================
