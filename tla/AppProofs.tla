----------------------------- MODULE AppProofs -----------------------------
(***************************************************************************)
(* What the app's door promises, proved for any set of keys, requests and  *)
(* customers.                                                              *)
(***************************************************************************)
EXTENDS App, FiniteSetTheorems, TLAPS

(* The steps in which nothing of the world changes, or only the gate.      *)
Refusal(k) ==
  /\ UNCHANGED <<worldVars, chaos, taskVars>>
  /\ UNCHANGED gateVars \/ (Charge /\ (~Passes \/ chaos.fail))
  /\ UNCHANGED snubbed

(* A write that goes through: it was fresh, it passed the gate, and only   *)
(* here does a request change the world.                                   *)
Write(k, c) ==
  \/ /\ c.op = "createCustomer"
     /\ customers' = customers \cup {nextId}
     /\ UNCHANGED <<invoices, outbox, reports, payments>>
     /\ Done(k, nextId, Event("created", nextId))
  \/ /\ c.op = "createInvoice"
     /\ invoices' = [i \in DOMAIN invoices \cup {nextId} |->
                       IF i = nextId THEN Draft ELSE invoices[i]]
     /\ UNCHANGED <<customers, outbox, reports, payments>>
     /\ Done(k, nextId, Event("created", nextId))
  \/ /\ c.op = "sendInvoice" /\ c.on \in DOMAIN invoices
     /\ invoices' = [invoices EXCEPT ![c.on].status = SentStatus(c.on)]
     /\ outbox' = outbox \cup {[id |-> nextId, kind |-> "invoice", invoice |-> c.on]}
     /\ UNCHANGED <<customers, reports, payments>>
     /\ Done(k, c.on, Event("sent", c.on) \o Event("queued", nextId))
  \/ /\ c.op = "sendReceipt" /\ MayReceipt(c.on)
     /\ invoices' = [invoices EXCEPT ![c.on].receipt = TRUE]
     /\ outbox' = outbox \cup {[id |-> nextId, kind |-> "receipt", invoice |-> c.on]}
     /\ UNCHANGED <<customers, reports, payments>>
     /\ Done(k, c.on, Event("receipt", c.on))
  \/ /\ c.op = "createReport" /\ c.on \subseteq DOMAIN invoices
     /\ reports' = [r \in DOMAIN reports \cup {nextId} |->
                       IF r = nextId THEN [of |-> c.on, sent |-> SentOf(c.on)]
                       ELSE reports[r]]
     /\ UNCHANGED <<customers, invoices, outbox, payments>>
     /\ Done(k, nextId, Event("report", nextId))

(* A request is answered from memory, refused, or goes through.            *)
LEMMA RequestStep ==
  ASSUME NEW k, NEW c, Request(k, c)
  PROVE  \/ Refusal(k)
         \/ Fresh(k) /\ Passes /\ Write(k, c)
<1> USE DEF Request, Refusal, Answer, Fresh
<1>1. CASE Replayed(k)
  BY <1>1 DEF Replayed
<1>2. CASE Fresh(k) /\ Rejected(k)
  BY <1>2 DEF Rejected
<1>3. CASE Fresh(k) /\ (TurnedAway(k) \/ ChaosFails(k))
  BY <1>3 DEF TurnedAway, ChaosFails
<1>4. CASE c.op = "createCustomer" /\ CreateCustomer(k)
  BY <1>1, <1>2, <1>3, <1>4 DEF CreateCustomer, Write
<1>5. CASE c.op = "createInvoice" /\ CreateInvoice(k, c.on)
  BY <1>1, <1>2, <1>3, <1>5 DEF CreateInvoice, Write
<1>6. CASE c.op = "sendInvoice" /\ SendInvoice(k, c.on)
  BY <1>1, <1>2, <1>3, <1>6 DEF SendInvoice, MaySend, Write
<1>7. CASE c.op = "sendReceipt" /\ SendReceipt(k, c.on)
  BY <1>1, <1>2, <1>3, <1>7 DEF SendReceipt, Write
<1>8. CASE c.op = "createReport" /\ CreateReport(k, c.on)
  BY <1>1, <1>2, <1>3, <1>8 DEF CreateReport, Write
<1>9. QED
  BY <1>4, <1>5, <1>6, <1>7, <1>8

(* What Next comes down to, seen from the requests.                        *)
LEMMA NextCases ==
  ASSUME Next
  PROVE  \/ \E k \in Keys : Request(k, Asks[k])
         \/ \E c \in Loose : Request(NoKey, c)
         \/ \E i \in Ids : Approve(i)
         \/ \E i \in Ids : \E silent \in BOOLEAN : PayNow(i, silent)
         \/ \E i \in Ids : \E silent \in BOOLEAN : PayLater(i, silent)
         \/ \E p \in pending : PaymentDue(p)
         \/ Publish \/ Tick \/ SetChaos \/ Reset
  BY DEF Next
-----------------------------------------------------------------------------
(* The door.                                                               *)

LEMMA RememberStep ==
  ASSUME NEW k, Fresh(k), NEW id, Remember(k, id)
  PROVE  [DoorAbs!Step]_(DoorAbs!dvars)
<1>1. CASE k \notin Keys
  BY <1>1 DEF Remember, DoorAbs!dvars
<1>2. CASE k \in Keys
  <2>1. DOMAIN replay' = DOMAIN replay \cup {k}
    BY <1>2 DEF Remember
  <2>2. DoorAbs!Apply(k)
    BY <1>2, <2>1 DEF Remember, Fresh, DoorAbs!Apply
  <2>3. QED
    BY <1>2, <2>2 DEF DoorAbs!Step
<1>3. QED
  BY <1>1, <1>2

(* The app's doors, its replay table and its reset implement the           *)
(* idempotent door the scheduler counts on.                                *)
THEOREM AppKeepsDoor == Spec => KeepsDoor
<1>1. Init => DoorAbs!Start
  BY DEF Init, Seeded, DoorAbs!Start
<1>2. [Next]_vars => [DoorAbs!Step]_(DoorAbs!dvars)
  <2> SUFFICES ASSUME [Next]_vars
               PROVE  [DoorAbs!Step]_(DoorAbs!dvars)
    OBVIOUS
  <2>1. ASSUME NEW k, NEW c, Request(k, c)
        PROVE  [DoorAbs!Step]_(DoorAbs!dvars)
    <3>1. CASE Refusal(k)
      BY <3>1 DEF Refusal, worldVars, DoorAbs!dvars
    <3>2. CASE Fresh(k) /\ Write(k, c)
      <4>1. PICK id : Remember(k, id)
        BY <3>2 DEF Write, Done
      <4>2. QED
        BY <3>2, <4>1, RememberStep
    <3>3. QED
      BY <2>1, <3>1, <3>2, RequestStep
  <2>2. CASE Reset
    <3>1. DOMAIN replay' = {}
      BY <2>2 DEF Reset
    <3>2. QED
      BY <2>2, <3>1 DEF Reset, DoorAbs!Forget, DoorAbs!Step
  <2>3. CASE UNCHANGED <<replay, applied>>
    BY <2>3 DEF DoorAbs!dvars
  <2>4. QED
    BY <2>1, <2>2, <2>3, NextCases DEF Approve, PayNow, PayLater, PaymentDue, Pay, Publish,
       Tick, SetChaos, vars, worldVars
<1>3. QED
  BY <1>1, <1>2, PTL DEF Spec, KeepsDoor, DoorAbs!Spec

(* A key that was answered with success is never refused.                  *)
THEOREM RetriesAlwaysSucceed == Spec => []RetriesSucceed
<1>1. Init => RetriesSucceed
  BY DEF Init, RetriesSucceed
<1>2. RetriesSucceed /\ [Next]_vars => RetriesSucceed'
  <2> SUFFICES ASSUME [Next]_vars PROVE UNCHANGED snubbed
    BY DEF RetriesSucceed
  <2>1. ASSUME NEW k, NEW c, Request(k, c) PROVE UNCHANGED snubbed
    BY <2>1, RequestStep DEF Refusal, Write, Done, Answer
  <2>2. QED
    BY <2>1, NextCases DEF Approve, Answer, PayNow, PayLater, PaymentDue, Pay, Publish, Tick,
       SetChaos, Reset, vars
<1>3. QED
  BY <1>1, <1>2, PTL DEF Spec
-----------------------------------------------------------------------------
(* The invoices.                                                           *)

(* Ids are handed out in order, so a new invoice replaces none.            *)
InvoiceInv ==
  /\ nextId \in 1..(MaxId + 1)
  /\ \A i \in DOMAIN invoices :
        i \in Ids /\ i < nextId /\ invoices[i] \in Invoices

EpochInv == epoch \in Nat

LEMMA EpochStep ==
  ASSUME EpochInv, [Next]_vars
  PROVE  EpochInv'
<1>1. ASSUME NEW k, NEW c, Request(k, c) PROVE UNCHANGED epoch
  BY <1>1, RequestStep DEF Refusal, Write, Done, Announce, taskVars
<1>2. Reset \/ UNCHANGED epoch
  BY <1>1, NextCases DEF Approve, Announce, PayNow, PayLater, PaymentDue, Publish, Tick,
     SetChaos, vars, taskVars
<1>3. QED
  BY <1>2 DEF EpochInv, Reset

(* What is out and what is paid.                                           *)
MoneyInv ==
  /\ \A m \in outbox :
        /\ m.invoice \in DOMAIN invoices
        /\ m.kind = "receipt" =>
             invoices[m.invoice].status = "paid" /\ invoices[m.invoice].receipt
  /\ \A i \in DOMAIN invoices :
        invoices[i].status = "paid" => \E p \in payments : p.invoice = i

(* Every send that went out under a key is remembered.                     *)
OpOf == [invoice |-> "sendInvoice", receipt |-> "sendReceipt"]

SentUnderKey ==
  \A m \in outbox :
     /\ m.kind \in {"invoice", "receipt"}
     /\ \E k \in DOMAIN replay \cap Keys :
           Asks[k].op = OpOf[m.kind] /\ Asks[k].on = m.invoice

(* An invoice goes on.                                                     *)
Later(old, new) ==
  /\ Rank[new.status] >= Rank[old.status]
  /\ old.approved => new.approved
  /\ old.receipt => new.receipt

GoOn ==
  \A i \in DOMAIN invoices : i \in DOMAIN invoices' /\ Later(invoices[i], invoices'[i])

LEMMA LaterIsReflexive ==
  ASSUME NEW v \in Invoices
  PROVE  Later(v, v)
  BY DEF Later, Rank, Invoices

(* A flag of an invoice goes up.                                           *)
LEMMA FlagUp ==
  ASSUME NEW v \in Invoices, NEW w,
         w = [v EXCEPT !.approved = TRUE] \/ w = [v EXCEPT !.receipt = TRUE]
  PROVE  w \in Invoices /\ Later(v, w)
<1>1. /\ v = [status |-> v.status, approved |-> v.approved, receipt |-> v.receipt]
      /\ v.status \in {"draft", "sent", "paid"}
      /\ v.approved \in BOOLEAN /\ v.receipt \in BOOLEAN
  BY DEF Invoices
<1>2. CASE w = [v EXCEPT !.approved = TRUE]
  <2>1. w = [status |-> v.status, approved |-> TRUE, receipt |-> v.receipt]
    BY <1>1, <1>2
  <2>2. w \in Invoices
    BY <1>1, <2>1, Zenon DEF Invoices
  <2>3. QED
    BY <1>1, <2>1, <2>2 DEF Later, Rank
<1>3. CASE w = [v EXCEPT !.receipt = TRUE]
  <2>1. w = [status |-> v.status, approved |-> v.approved, receipt |-> TRUE]
    BY <1>1, <1>3
  <2>2. w \in Invoices
    BY <1>1, <2>1, Zenon DEF Invoices
  <2>3. QED
    BY <1>1, <2>1, <2>2 DEF Later, Rank
<1>4. QED
  BY <1>2, <1>3

(* Steps that touch invoices: the writes.                                  *)
LEMMA WriteInvoices ==
  ASSUME InvoiceInv, NEW k, NEW c, Write(k, c)
  PROVE  InvoiceInv' /\ GoOn
<1> USE SizeAssumption DEF SizeAssumption, InvoiceInv, Ids
<1>0. nextId \in Ids /\ nextId' = nextId + 1
  BY DEF Write, Done
<1>1. CASE UNCHANGED invoices
  BY <1>0, <1>1, LaterIsReflexive DEF GoOn
<1>2. CASE invoices' = [i \in DOMAIN invoices \cup {nextId} |->
                          IF i = nextId THEN Draft ELSE invoices[i]]
  <2>1. Draft \in Invoices
    BY DEF Draft, Invoices
  <2>2. \A i \in DOMAIN invoices : i # nextId /\ invoices'[i] = invoices[i]
    BY <1>2
  <2>3. QED
    BY <1>0, <1>2, <2>1, <2>2, LaterIsReflexive DEF GoOn
<1>3. ASSUME NEW i \in DOMAIN invoices,
             invoices' = [invoices EXCEPT ![i].status = SentStatus(i)]
      PROVE  InvoiceInv' /\ GoOn
  <2>1. invoices'[i] \in Invoices /\ Later(invoices[i], invoices'[i])
    BY <1>3 DEF SentStatus, Invoices, Later, Rank
  <2>2. \A j \in DOMAIN invoices : j # i => invoices'[j] = invoices[j]
    BY <1>3
  <2>3. DOMAIN invoices' = DOMAIN invoices
    BY <1>3
  <2>4. QED
    BY <1>0, <2>1, <2>2, <2>3, LaterIsReflexive DEF GoOn
<1>4. ASSUME NEW i \in DOMAIN invoices,
             invoices' = [invoices EXCEPT ![i].receipt = TRUE]
      PROVE  InvoiceInv' /\ GoOn
  <2>1. invoices'[i] \in Invoices /\ Later(invoices[i], invoices'[i])
    BY <1>4, FlagUp
  <2>2. \A j \in DOMAIN invoices : j # i => invoices'[j] = invoices[j]
    BY <1>4
  <2>3. DOMAIN invoices' = DOMAIN invoices
    BY <1>4
  <2>4. QED
    BY <1>0, <2>1, <2>2, <2>3, LaterIsReflexive DEF GoOn
<1>5. QED
  BY <1>1, <1>2, <1>3, <1>4 DEF Write, MayReceipt

(* A payment, now or after its delay.                                      *)
LEMMA PayInvoices ==
  ASSUME InvoiceInv, NEW i \in DOMAIN invoices, Pay(i)
  PROVE  InvoiceInv' /\ GoOn
<1> USE SizeAssumption DEF SizeAssumption, InvoiceInv, Ids
<1>1. invoices'[i] \in Invoices /\ Later(invoices[i], invoices'[i])
  BY DEF Pay, Invoices, Later, Rank
<1>2. \A j \in DOMAIN invoices : j # i => invoices'[j] = invoices[j]
  BY DEF Pay
<1>3. DOMAIN invoices' = DOMAIN invoices /\ nextId \in Ids /\ nextId' = nextId + 1
  BY DEF Pay
<1>4. QED
  BY <1>1, <1>2, <1>3, LaterIsReflexive DEF GoOn

LEMMA ApproveInvoices ==
  ASSUME InvoiceInv, NEW i, Approve(i)
  PROVE  InvoiceInv' /\ GoOn
<1> USE DEF InvoiceInv
<1>1. invoices'[i] \in Invoices /\ Later(invoices[i], invoices'[i])
  BY FlagUp DEF Approve
<1>2. \A j \in DOMAIN invoices : j # i => invoices'[j] = invoices[j]
  BY DEF Approve
<1>3. DOMAIN invoices' = DOMAIN invoices /\ UNCHANGED nextId
  BY DEF Approve
<1>4. QED
  BY <1>1, <1>2, <1>3, LaterIsReflexive DEF GoOn

(* The seeded customers leave an id to hand out, or have used them up.     *)
LEMMA SeedFits == Cardinality(Customers) + 1 \in 1..(MaxId + 1)
<1>1. /\ Customers = 1..Cardinality(Customers) /\ Customers \subseteq 1..MaxId
      /\ MaxId \in Nat
  BY SizeAssumption DEF SizeAssumption, Ids
<1>2. IsFiniteSet(1..MaxId) /\ Cardinality(1..MaxId) = MaxId
  BY <1>1, FS_Interval
<1>3. Cardinality(Customers) \in Nat /\ Cardinality(Customers) <= MaxId
  BY <1>1, <1>2, FS_Subset, FS_CardinalityType
<1>4. QED
  BY <1>1, <1>3

(* Every step but a reset.                                                 *)
LEMMA InvoiceStep ==
  ASSUME InvoiceInv, EpochInv, [Next]_vars
  PROVE  InvoiceInv' /\ (epoch' = epoch => GoOn)
<1>1. ASSUME NEW k, NEW c, Request(k, c) PROVE InvoiceInv' /\ GoOn
  <2>1. CASE Refusal(k)
    BY <2>1, LaterIsReflexive DEF Refusal, worldVars, InvoiceInv, GoOn
  <2>2. QED
    BY <1>1, <2>1, RequestStep, WriteInvoices
<1>2. CASE Reset
  <2>1. DOMAIN invoices' = {} /\ epoch' # epoch
    BY <1>2 DEF Reset, EpochInv
  <2>2. nextId' \in 1..(MaxId + 1)
    BY <1>2, SeedFits DEF Reset
  <2>3. QED
    BY <2>1, <2>2 DEF InvoiceInv
<1>3. CASE UNCHANGED <<invoices, nextId>>
  BY <1>3, LaterIsReflexive DEF InvoiceInv, GoOn
<1>4. ASSUME NEW i, NEW silent, PayNow(i, silent) PROVE InvoiceInv' /\ GoOn
  BY <1>4, PayInvoices DEF PayNow, Exists
<1>5. ASSUME NEW p, PaymentDue(p) PROVE InvoiceInv' /\ GoOn
  BY <1>3, <1>5, PayInvoices DEF PaymentDue, Exists, worldVars
<1>6. QED
  BY <1>1, <1>2, <1>3, <1>4, <1>5, ApproveInvoices, NextCases DEF PayLater, Publish, Tick,
     SetChaos, vars, worldVars

(* What goes out and what is paid.                                         *)
LEMMA MoneyStep ==
  ASSUME InvoiceInv, EpochInv, MoneyInv, [Next]_vars
  PROVE  MoneyInv'
<1> USE DEF MoneyInv
<1>1. CASE Reset
  BY <1>1 DEF Reset
<1>2. ASSUME ~Reset PROVE GoOn /\ InvoiceInv'
  <2>1. epoch' = epoch
    <3>1. ASSUME NEW k, NEW c, Request(k, c) PROVE UNCHANGED epoch
      BY <3>1, RequestStep DEF Refusal, Write, Done, Announce, taskVars
    <3>2. QED
      BY <1>2, <3>1, NextCases DEF Approve, Announce, PayNow, PayLater, PaymentDue, Publish,
         Tick, SetChaos, vars, taskVars
  <2>2. QED
    BY <2>1, InvoiceStep
<1>3. ASSUME GoOn, InvoiceInv', NEW i \in DOMAIN invoices
      PROVE  /\ i \in DOMAIN invoices'
             /\ invoices[i].status = "paid" => invoices'[i].status = "paid"
             /\ invoices[i].receipt => invoices'[i].receipt
  BY <1>3 DEF GoOn, Later, Rank, InvoiceInv, Invoices
<1>4. ASSUME ~Reset, UNCHANGED payments, UNCHANGED outbox,
             \A i \in DOMAIN invoices' : invoices'[i].status = "paid" =>
                i \in DOMAIN invoices /\ invoices[i].status = "paid"
      PROVE  MoneyInv'
  BY <1>2, <1>3, <1>4
<1>5. CASE UNCHANGED <<invoices, outbox, payments>>
  BY <1>5
<1>6. ASSUME NEW k, NEW c, Request(k, c), ~Reset PROVE MoneyInv'
  <2>1. CASE Refusal(k)
    BY <1>5, <2>1 DEF Refusal, worldVars
  <2>2. CASE Write(k, c)
    <3>1. UNCHANGED payments
      BY <2>2 DEF Write
    <3>2. ASSUME NEW i \in DOMAIN invoices', invoices'[i].status = "paid"
          PROVE  i \in DOMAIN invoices /\ invoices[i].status = "paid"
      BY <2>2, <3>2 DEF Write, Draft, SentStatus, InvoiceInv, Invoices
    <3>3. ASSUME NEW m \in outbox', m \notin outbox
          PROVE  /\ m.invoice \in DOMAIN invoices'
                 /\ m.kind = "receipt" =>
                      invoices'[m.invoice].status = "paid" /\ invoices'[m.invoice].receipt
      BY <2>2, <3>3 DEF Write, MayReceipt, InvoiceInv, Invoices
    <3>4. QED
      BY <1>2, <1>3, <1>6, <3>1, <3>2, <3>3
  <2>3. QED
    BY <1>6, <2>1, <2>2, RequestStep
<1>7. ASSUME NEW i, Approve(i), ~Reset PROVE MoneyInv'
  BY <1>4, <1>7 DEF Approve, InvoiceInv, Invoices
<1>8. ASSUME NEW i \in DOMAIN invoices, Pay(i), ~Reset PROVE MoneyInv'
  <2>1. UNCHANGED outbox /\ payments \subseteq payments'
    BY <1>8 DEF Pay
  <2>2. \E p \in payments' : p.invoice = i
    <3>1. [id |-> nextId, invoice |-> i] \in payments'
      BY <1>8 DEF Pay
    <3>2. QED
      BY <3>1
  <2>3. \A j \in DOMAIN invoices' :
           j # i => j \in DOMAIN invoices /\ invoices'[j] = invoices[j]
    BY <1>8 DEF Pay
  <2>4. QED
    BY <1>2, <1>3, <1>8, <2>1, <2>2, <2>3
<1>9. QED
  BY <1>1, <1>5, <1>6, <1>7, <1>8, NextCases DEF PayNow, PayLater, PaymentDue, Exists,
     Publish, Tick, SetChaos, vars, worldVars

(* Whatever went out is remembered under its key, if all sends have one.   *)
SendsAreKeyed == \A c \in Loose : c.op \notin {"sendInvoice", "sendReceipt"}

OneKeyPerSend ==
  \A j, k \in Keys :
     /\ Asks[j].op \in {"sendInvoice", "sendReceipt"}
     /\ Asks[j].op = Asks[k].op /\ Asks[j].on = Asks[k].on
     => j = k

LEMMA KeyStep ==
  ASSUME SendsAreKeyed, SentUnderKey, [Next]_vars
  PROVE  SentUnderKey'
<1> USE DEF SentUnderKey
<1>1. CASE Reset
  BY <1>1 DEF Reset
<1>2. CASE UNCHANGED <<outbox, replay>>
  BY <1>2
<1>3. ASSUME NEW k, NEW c, Request(k, c),
             (k \in Keys /\ c = Asks[k]) \/ (k = NoKey /\ c \in Loose)
      PROVE  SentUnderKey'
  <2>1. CASE Refusal(k)
    BY <1>2, <2>1 DEF Refusal, worldVars
  <2>2. CASE Write(k, c)
    <3>1. DOMAIN replay \subseteq DOMAIN replay' /\ (k \in Keys => k \in DOMAIN replay')
      BY <2>2 DEF Write, Done, Remember
    <3>2. ASSUME NEW m \in outbox', m \notin outbox
          PROVE  /\ m.kind \in {"invoice", "receipt"}
                 /\ c.op = OpOf[m.kind] /\ c.on = m.invoice
      BY <2>2, <3>2 DEF Write, OpOf
    <3>3. ASSUME NEW m \in outbox', m \notin outbox PROVE k \in Keys /\ c = Asks[k]
      BY <1>3, <3>2, <3>3 DEF SendsAreKeyed, OpOf
    <3>4. QED
      BY <3>1, <3>2, <3>3
  <2>3. QED
    BY <1>3, <2>1, <2>2, RequestStep
<1>4. QED
  BY <1>1, <1>2, <1>3, NextCases DEF Approve, PayNow, PayLater, PaymentDue, Pay, Publish,
     Tick, SetChaos, vars, worldVars

(* A second message of the same kind about one invoice would be a second   *)
(* write under the same key.                                               *)
LEMMA SendStep ==
  ASSUME SendsAreKeyed, OneKeyPerSend, SentUnderKey, NoDoubleSends, [Next]_vars
  PROVE  NoDoubleSends'
<1>1. CASE Reset
  BY <1>1 DEF Reset, NoDoubleSends
<1>2. CASE UNCHANGED outbox
  BY <1>2 DEF NoDoubleSends
<1>3. ASSUME NEW k, NEW c, Request(k, c),
             (k \in Keys /\ c = Asks[k]) \/ (k = NoKey /\ c \in Loose)
      PROVE  NoDoubleSends'
  <2>1. CASE Refusal(k)
    BY <1>2, <2>1 DEF Refusal, worldVars
  <2>2. CASE Fresh(k) /\ Write(k, c)
    <3>1. CASE UNCHANGED outbox
      BY <1>2, <3>1
    <3>2. ASSUME NEW kind \in {"invoice", "receipt"}, c.op = OpOf[kind],
                 outbox' = outbox \cup {[id |-> nextId, kind |-> kind, invoice |-> c.on]}
          PROVE  NoDoubleSends'
      <4>1. k \in Keys /\ c = Asks[k]
        BY <1>3, <3>2 DEF SendsAreKeyed, OpOf
      <4>2. ASSUME NEW m \in outbox, m.kind = kind, m.invoice = c.on PROVE FALSE
        <5>1. PICK j \in DOMAIN replay \cap Keys :
                 Asks[j].op = OpOf[kind] /\ Asks[j].on = c.on
          BY <4>2 DEF SentUnderKey
        <5>2. j = k
          BY <3>2, <4>1, <5>1 DEF OneKeyPerSend, OpOf
        <5>3. QED
          BY <2>2, <5>1, <5>2 DEF Fresh
      <4>3. QED
        BY <3>2, <4>2 DEF NoDoubleSends
    <3>3. QED
      BY <2>2, <3>1, <3>2 DEF Write, OpOf
  <2>3. QED
    BY <1>3, <2>1, <2>2, RequestStep
<1>4. QED
  BY <1>1, <1>2, <1>3, NextCases DEF Approve, PayNow, PayLater, PaymentDue, Pay, Publish,
     Tick, SetChaos, vars, worldVars
-----------------------------------------------------------------------------
(* Invoices, messages and payments hang together.                          *)
THEOREM AppInvariance == Spec => [](InvoiceInv /\ EpochInv /\ MoneyInv)
<1>1. Init => InvoiceInv /\ EpochInv /\ MoneyInv
  <2> SUFFICES ASSUME Init PROVE InvoiceInv /\ EpochInv /\ MoneyInv
    OBVIOUS
  <2>1. DOMAIN invoices = {} /\ outbox = {} /\ epoch = 0
    BY DEF Init, Seeded
  <2>2. nextId \in 1..(MaxId + 1)
    BY SeedFits DEF Init, Seeded
  <2>3. QED
    BY <2>1, <2>2 DEF InvoiceInv, EpochInv, MoneyInv
<1>2. InvoiceInv /\ EpochInv /\ MoneyInv /\ [Next]_vars =>
        (InvoiceInv /\ EpochInv /\ MoneyInv)'
  BY InvoiceStep, EpochStep, MoneyStep
<1>3. QED
  BY <1>1, <1>2, PTL DEF Spec

(* A receipt is only ever out for an invoice that is paid by a payment the *)
(* world knows.                                                            *)
THEOREM ReceiptsFollowPayments == Spec => []ReceiptsArePaid
<1>1. MoneyInv => ReceiptsArePaid
  BY DEF MoneyInv, ReceiptsArePaid
<1>2. QED
  BY <1>1, AppInvariance, PTL

(* Until a reset, no step takes an invoice back.                           *)
THEOREM InvoicesGoOn == Spec => NeverBackwards
<1>1. InvoiceInv /\ EpochInv /\ [Next]_vars =>
        [epoch' = epoch =>
           \A i \in DOMAIN invoices :
              /\ Rank[invoices'[i].status] >= Rank[invoices[i].status]
              /\ invoices[i].approved => invoices'[i].approved
              /\ invoices[i].receipt => invoices'[i].receipt]_vars
  BY InvoiceStep DEF GoOn, Later
<1>2. QED
  BY <1>1, AppInvariance, PTL DEF Spec, NeverBackwards

(* When every send carries the one key of what it is for, nothing is sent  *)
(* twice.                                                                  *)
THEOREM NothingIsSentTwice ==
  ASSUME SendsAreKeyed, OneKeyPerSend
  PROVE  Spec => []NoDoubleSends
<1>1. Init => SentUnderKey /\ NoDoubleSends
  BY DEF Init, Seeded, SentUnderKey, NoDoubleSends
<1>2. SentUnderKey /\ NoDoubleSends /\ [Next]_vars => (SentUnderKey /\ NoDoubleSends)'
  BY SendsAreKeyed, OneKeyPerSend, KeyStep, SendStep
<1>3. QED
  BY <1>1, <1>2, PTL DEF Spec
-----------------------------------------------------------------------------
(* The rate gate: what was let through in a window was counted in it.      *)
GateInv ==
  /\ chaos.limit \in 0..MaxLimit
  /\ quota \in Nat /\ passed \in Nat
  /\ passed <= quota /\ passed <= MaxLimit

(* A write is counted, and let through only where the count is within the  *)
(* limit: so, then, is the number of those let through.                    *)
LEMMA ChargeStep ==
  ASSUME GateInv, Charge, UNCHANGED chaos
  PROVE  GateInv' /\ (passed' > passed => passed' <= chaos.limit)
<1> DEFINE start == IF expired THEN 0 ELSE passed
<1>1. CASE chaos.limit = 0
  BY <1>1 DEF GateInv, Charge, gateVars
<1>2. CASE chaos.limit > 0
  <2>1. /\ chaos.limit \in Nat /\ MaxLimit \in Nat /\ chaos.limit <= MaxLimit
        /\ chaos' = chaos /\ passed \in Nat /\ passed <= MaxLimit
    BY SizeAssumption DEF SizeAssumption, GateInv
  <2>2. start \in Nat /\ Counted \in Nat /\ start + 1 <= Counted /\ start <= passed
    BY DEF GateInv, Counted
  <2>3. /\ quota' = IF Counted > MaxLimit THEN MaxLimit + 1 ELSE Counted
        /\ passed' = start + (IF Passes THEN 1 ELSE 0)
    BY <1>2 DEF Charge
  <2>4. Passes <=> Counted <= chaos.limit
    BY <1>2 DEF Passes
  <2> HIDE DEF start
  <2>5. CASE Counted <= chaos.limit
    <3>1. quota' = Counted /\ passed' = start + 1
      BY <2>1, <2>2, <2>3, <2>4, <2>5
    <3>2. /\ quota' \in Nat /\ passed' \in Nat /\ passed' <= quota'
          /\ passed' <= chaos.limit
      BY <2>1, <2>2, <2>5, <3>1
    <3>3. QED
      BY <2>1, <3>2 DEF GateInv
  <2>6. CASE ~(Counted <= chaos.limit)
    <3>1. passed' = start /\ quota' \in Nat /\ start <= quota'
      BY <2>1, <2>2, <2>3, <2>4, <2>6
    <3>2. passed' \in Nat /\ passed' <= passed /\ passed' <= MaxLimit
      BY <2>1, <2>2, <3>1
    <3>3. QED
      BY <2>1, <3>1, <3>2 DEF GateInv
  <2>7. QED
    BY <2>5, <2>6
<1>3. QED
  BY <1>1, <1>2 DEF GateInv

(* Every step but a write that is counted leaves the number let through    *)
(* alone, or starts it over; new chaos leaves it alone.                    *)
LEMMA GateStep ==
  ASSUME GateInv, [Next]_vars
  PROVE  GateInv' /\ (passed' > passed => passed' <= chaos.limit)
<1>1. CASE UNCHANGED <<gateVars, chaos>>
  BY <1>1 DEF GateInv, gateVars
<1>2. ASSUME NEW k, NEW c, Request(k, c)
      PROVE  GateInv' /\ (passed' > passed => passed' <= chaos.limit)
  BY <1>1, <1>2, RequestStep, ChargeStep DEF Refusal, Write, Done
<1>3. CASE Tick
  BY <1>3 DEF Tick, GateInv
<1>4. CASE SetChaos
  <2>1. UNCHANGED gateVars /\ chaos'.limit \in 0..MaxLimit
    BY <1>4 DEF SetChaos, NewChaos
  <2>2. QED
    BY <2>1 DEF GateInv, gateVars
<1>5. CASE Reset
  <2>1. /\ passed' = 0 /\ quota' = 0
        /\ chaos'.limit \in 0..MaxLimit /\ MaxLimit \in Nat
    BY <1>5, SizeAssumption DEF Reset, Calm, SizeAssumption
  <2>2. QED
    BY <2>1 DEF GateInv
<1>6. QED
  BY <1>1, <1>2, <1>3, <1>4, <1>5, NextCases DEF Approve, PayNow, PayLater, PaymentDue, Pay,
     Publish, vars

(* A write passes only while those let through in its window, under this   *)
(* limit and under any before it, are within the limit of now.             *)
THEOREM RateIsKept == Spec => RateHolds
<1>1. Init => GateInv
  BY SizeAssumption DEF Init, Seeded, GateInv, Calm, SizeAssumption
<1>2. GateInv /\ [Next]_vars => GateInv'
  BY GateStep
<1>3. GateInv /\ [Next]_vars => [passed' > passed => passed' <= chaos.limit]_vars
  BY GateStep
<1>4. QED
  BY <1>1, <1>2, <1>3, PTL DEF Spec, RateHolds
-----------------------------------------------------------------------------
(* The reports, whose invoices exist and only go on.                       *)
SentAmong(of, world) == Cardinality({i \in of : world[i].status # "draft"})

ReportInv ==
  \A r \in DOMAIN reports :
     /\ r \in Nat /\ r < nextId
     /\ reports[r].of \subseteq DOMAIN invoices
     /\ reports[r].sent <= SentAmong(reports[r].of, invoices)
     /\ reports[r].sent \in Nat

(* The count of sent invoices only grows while invoices go on.             *)
LEMMA CountGrows ==
  ASSUME InvoiceInv, InvoiceInv', GoOn, NEW of, of \subseteq DOMAIN invoices
  PROVE  /\ of \subseteq DOMAIN invoices'
         /\ SentAmong(of, invoices) \in Nat
         /\ SentAmong(of, invoices') \in Nat
         /\ SentAmong(of, invoices) <= SentAmong(of, invoices')
<1> DEFINE now  == {i \in of : invoices[i].status # "draft"}
           then == {i \in of : invoices'[i].status # "draft"}
<1>1. of \subseteq DOMAIN invoices' /\ now \subseteq then /\ then \subseteq 1..MaxId
  BY DEF GoOn, Later, Rank, InvoiceInv, Invoices, Ids
<1>2. IsFiniteSet(1..MaxId)
  BY SizeAssumption, FS_Interval DEF SizeAssumption
<1>3. IsFiniteSet(then) /\ IsFiniteSet(now) /\ Cardinality(now) <= Cardinality(then)
  BY <1>1, <1>2, FS_Subset
<1>4. Cardinality(now) \in Nat /\ Cardinality(then) \in Nat
  BY <1>3, FS_CardinalityType
<1>5. QED
  BY <1>1, <1>3, <1>4 DEF SentAmong

LEMMA OldReports ==
  ASSUME InvoiceInv, InvoiceInv', GoOn, ReportInv, nextId <= nextId',
         NEW r \in DOMAIN reports
  PROVE  /\ r \in Nat /\ r < nextId'
         /\ reports[r].of \subseteq DOMAIN invoices'
         /\ reports[r].sent <= SentAmong(reports[r].of, invoices')
         /\ reports[r].sent \in Nat
<1>1. nextId \in Int /\ nextId' \in Int
  BY SizeAssumption DEF InvoiceInv, SizeAssumption
<1>2. QED
  BY <1>1, CountGrows DEF ReportInv

LEMMA ReportStep ==
  ASSUME InvoiceInv, EpochInv, InvoiceInv', ReportInv, [Next]_vars
  PROVE  ReportInv'
<1>1. CASE Reset
  BY <1>1 DEF Reset, ReportInv
<1>2. ASSUME GoOn, UNCHANGED reports, nextId <= nextId' PROVE ReportInv'
  BY <1>2, OldReports DEF ReportInv
<1>3. CASE UNCHANGED <<invoices, reports, nextId>>
  BY <1>3 DEF ReportInv
<1>4. ASSUME NEW k, NEW c, Write(k, c) PROVE ReportInv'
  <2>0. GoOn /\ nextId \in Nat /\ nextId' = nextId + 1
    <3>1. nextId \in Ids /\ nextId' = nextId + 1
      BY <1>4 DEF Write, Done
    <3>2. GoOn
      BY <1>4, WriteInvoices
    <3>3. QED
      BY <3>1, <3>2, SizeAssumption DEF Ids, SizeAssumption
  <2>1. CASE UNCHANGED reports
    BY <1>2, <2>0, <2>1
  <2>2. CASE /\ reports' = [r \in DOMAIN reports \cup {nextId} |->
                              IF r = nextId THEN [of |-> c.on, sent |-> SentOf(c.on)]
                              ELSE reports[r]]
             /\ c.on \subseteq DOMAIN invoices
             /\ UNCHANGED invoices
    <3>1. /\ c.on \subseteq DOMAIN invoices'
          /\ SentOf(c.on) = SentAmong(c.on, invoices')
          /\ SentAmong(c.on, invoices') \in Nat
      BY <2>0, <2>2, CountGrows DEF SentOf, SentAmong
    <3>2. ASSUME NEW r \in DOMAIN reports, r # nextId
          PROVE  /\ r \in Nat /\ r < nextId'
                 /\ reports'[r] = reports[r]
                 /\ reports[r].of \subseteq DOMAIN invoices'
                 /\ reports[r].sent <= SentAmong(reports[r].of, invoices')
                 /\ reports[r].sent \in Nat
      BY <2>0, <2>2, <3>2, OldReports
    <3>3. /\ reports'[nextId].of = c.on
          /\ reports'[nextId].sent = SentOf(c.on)
      BY <2>2
    <3>4. DOMAIN reports' = DOMAIN reports \cup {nextId}
      BY <2>2
    <3>5. QED
      BY <2>0, <3>1, <3>2, <3>3, <3>4 DEF ReportInv
  <2>3. QED
    BY <1>4, <2>1, <2>2 DEF Write
<1>5. ASSUME NEW k, NEW c, Request(k, c) PROVE ReportInv'
  BY <1>3, <1>4, <1>5, RequestStep DEF Refusal, worldVars
<1>6. ASSUME NEW i \in DOMAIN invoices, Pay(i) PROVE ReportInv'
  <2>1. nextId' = nextId + 1 /\ nextId \in Nat /\ UNCHANGED reports
    BY <1>6, SizeAssumption DEF Pay, Ids, SizeAssumption
  <2>2. QED
    BY <1>2, <1>6, <2>1, PayInvoices
<1>7. ASSUME NEW i, Approve(i) PROVE ReportInv'
  <2>1. nextId' = nextId /\ nextId \in Nat /\ UNCHANGED reports
    BY <1>7, SizeAssumption DEF Approve, InvoiceInv, SizeAssumption
  <2>2. QED
    BY <1>2, <1>7, <2>1, ApproveInvoices
<1>8. QED
  BY <1>1, <1>3, <1>5, <1>6, <1>7, NextCases DEF PayNow, PayLater, PaymentDue, Exists,
     Publish, Tick, SetChaos, vars, worldVars

(* A report's count of sent invoices never exceeds the truth.              *)
THEOREM ReportsAreLowerBounds == Spec => []ReportsStayTrue
<1>1. Init => ReportInv
  BY DEF Init, Seeded, ReportInv
<1>2. InvoiceInv /\ EpochInv /\ InvoiceInv' /\ ReportInv /\ [Next]_vars => ReportInv'
  BY ReportStep
<1>3. ReportInv => ReportsStayTrue
  BY DEF ReportInv, ReportsStayTrue, SentAmong
<1>4. QED
  BY <1>1, <1>2, <1>3, AppInvariance, PTL DEF Spec
-----------------------------------------------------------------------------
(* The events: true when they are emitted, and true as long as the world   *)
(* lasts, however late they are published.                                 *)
So(e, world) ==
  /\ e.kind = "paid" => e.id \in DOMAIN world /\ world[e.id].status = "paid"
  /\ e.kind = "sent" => e.id \in DOMAIN world /\ world[e.id].status # "draft"
  /\ e.kind = "receipt" => e.id \in DOMAIN world /\ world[e.id].receipt

HearInv ==
  /\ \A b \in outgoing :
        /\ b \in [epoch : Nat, events : Seq(Events)]
        /\ b.epoch <= epoch /\ b.events # <<>>
        /\ b.epoch = epoch => \A j \in 1..Len(b.events) : So(b.events[j], invoices)
  /\ \A e \in heard :
        /\ e.epoch \in Nat /\ e.epoch <= epoch
        /\ e.epoch = epoch => So(e.event, invoices)

LEMMA SoStays ==
  ASSUME InvoiceInv, InvoiceInv', GoOn, NEW e, So(e, invoices)
  PROVE  So(e, invoices')
  BY DEF So, GoOn, Later, Rank, InvoiceInv, Invoices

(* A batch of events that are so.                                          *)
Batchable(evs) ==
  /\ evs \in Seq(Events)
  /\ \A j \in 1..Len(evs) : So(evs[j], invoices')

LEMMA OneEvent ==
  ASSUME NEW kind \in Kinds, NEW id \in Ids,
         So([kind |-> kind, id |-> id], invoices')
  PROVE  Batchable(Event(kind, id))
<1>1. CASE kind \in Watched
  BY <1>1 DEF Batchable, Event, Events
<1>2. CASE kind \notin Watched
  BY <1>2 DEF Batchable, Event
<1>3. QED
  BY <1>1, <1>2

LEMMA TwoEvents ==
  ASSUME NEW s, NEW t, Batchable(s), Batchable(t)
  PROVE  Batchable(s \o t)
<1>1. s \o t \in Seq(Events) /\ Len(s \o t) = Len(s) + Len(t)
  BY DEF Batchable
<1>2. ASSUME NEW j \in 1..Len(s \o t) PROVE So((s \o t)[j], invoices')
  <2>1. CASE j <= Len(s)
    BY <2>1 DEF Batchable
  <2>2. CASE j > Len(s)
    BY <1>1, <2>2 DEF Batchable
  <2>3. QED
    BY <2>1, <2>2 DEF Batchable
<1>3. QED
  BY <1>1, <1>2 DEF Batchable

LEMMA WriteEvents ==
  ASSUME InvoiceInv, NEW k, NEW c, Write(k, c)
  PROVE  \E evs : Batchable(evs) /\ Announce(evs)
<1>0. nextId \in Ids /\ \A i \in DOMAIN invoices : i \in Ids
  BY DEF Write, Done, InvoiceInv
<1>1. CASE c.op \in {"createCustomer", "createInvoice"}
  <2>1. Batchable(Event("created", nextId))
    BY <1>0, OneEvent DEF Kinds, So
  <2>2. QED
    BY <1>1, <2>1 DEF Write, Done
<1>2. CASE c.op = "createReport"
  <2>1. Batchable(Event("report", nextId))
    BY <1>0, OneEvent DEF Kinds, So
  <2>2. QED
    BY <1>2, <2>1 DEF Write, Done
<1>3. CASE c.op = "sendInvoice"
  <2>1. /\ c.on \in DOMAIN invoices
        /\ invoices' = [invoices EXCEPT ![c.on].status = SentStatus(c.on)]
    BY <1>3 DEF Write
  <2>2. c.on \in DOMAIN invoices' /\ invoices'[c.on].status # "draft"
    BY <2>1 DEF SentStatus, InvoiceInv, Invoices
  <2>3. Batchable(Event("sent", c.on)) /\ Batchable(Event("queued", nextId))
    BY <1>0, <2>1, <2>2, OneEvent DEF Kinds, So
  <2>4. Batchable(Event("sent", c.on) \o Event("queued", nextId))
    BY <2>3, TwoEvents
  <2>5. QED
    BY <1>3, <2>4 DEF Write, Done
<1>4. CASE c.op = "sendReceipt"
  <2>1. c.on \in DOMAIN invoices /\ invoices' = [invoices EXCEPT ![c.on].receipt = TRUE]
    BY <1>4 DEF Write, MayReceipt
  <2>2. c.on \in DOMAIN invoices' /\ invoices'[c.on].receipt
    BY <2>1 DEF InvoiceInv, Invoices
  <2>3. Batchable(Event("receipt", c.on))
    BY <1>0, <2>1, <2>2, OneEvent DEF Kinds, So
  <2>4. QED
    BY <1>4, <2>3 DEF Write, Done
<1>5. QED
  BY <1>1, <1>2, <1>3, <1>4 DEF Write

(* Nothing new is said, or a batch that is so.                             *)
LEMMA OutStep ==
  ASSUME HearInv, InvoiceInv, InvoiceInv', EpochInv, GoOn,
         UNCHANGED <<heard, epoch>>,
         \/ outgoing' = outgoing
         \/ \E evs : Batchable(evs) /\ outgoing' = outgoing \cup Batch(evs)
  PROVE  HearInv'
<1>1. ASSUME NEW b \in outgoing
      PROVE  /\ b \in [epoch : Nat, events : Seq(Events)]
             /\ b.epoch <= epoch' /\ b.events # <<>>
             /\ b.epoch = epoch' => \A j \in 1..Len(b.events) : So(b.events[j], invoices')
  BY SoStays DEF HearInv
<1>2. ASSUME NEW evs, Batchable(evs), NEW b \in Batch(evs)
      PROVE  /\ b \in [epoch : Nat, events : Seq(Events)]
             /\ b.epoch <= epoch' /\ b.events # <<>>
             /\ \A j \in 1..Len(b.events) : So(b.events[j], invoices')
  <2>1. b = [epoch |-> epoch, events |-> evs]
    BY <1>2 DEF Batch
  <2>2. b.epoch = epoch /\ b.events = evs
    BY <2>1
  <2>3. QED
    BY <1>2, <2>1, <2>2 DEF Batchable, EpochInv, Batch
<1>3. ASSUME NEW e \in heard
      PROVE  /\ e.epoch \in Nat /\ e.epoch <= epoch'
             /\ e.epoch = epoch' => So(e.event, invoices')
  BY SoStays DEF HearInv
<1>4. QED
  BY <1>1, <1>2, <1>3 DEF HearInv

LEMMA LongTail ==
  ASSUME NEW s \in Seq(Events), s # <<>>, Len(s) # 1
  PROVE  Tail(s) # <<>>
<1>1. Len(s) \in Nat /\ Len(s) # 0
  OBVIOUS
<1>2. Len(s) - 1 # 0 /\ Len(Tail(s)) = Len(s) - 1
  BY <1>1
<1>3. QED
  BY <1>2

LEMMA PublishStep ==
  ASSUME HearInv, Publish
  PROVE  HearInv'
<1> PICK b \in outgoing :
       /\ heard' = heard \cup {[epoch |-> b.epoch, event |-> Head(b.events)]}
       /\ outgoing' = (outgoing \ {b}) \cup
            (IF Len(b.events) = 1 THEN {} ELSE {[b EXCEPT !.events = Tail(@)]})
  BY DEF Publish
<1>0. UNCHANGED <<invoices, epoch>>
  BY DEF Publish, worldVars
<1>1. /\ b.epoch \in Nat /\ b.events \in Seq(Events) /\ b.events # <<>>
      /\ b.epoch <= epoch
      /\ b.epoch = epoch => \A j \in 1..Len(b.events) : So(b.events[j], invoices)
  BY DEF HearInv
<1>2. /\ Head(b.events) = b.events[1] /\ 1 \in 1..Len(b.events)
      /\ Tail(b.events) \in Seq(Events) /\ Len(Tail(b.events)) = Len(b.events) - 1
      /\ \A j \in 1..Len(Tail(b.events)) :
            j + 1 \in 1..Len(b.events) /\ Tail(b.events)[j] = b.events[j + 1]
  BY <1>1
<1>3. ASSUME NEW e \in heard'
      PROVE  /\ e.epoch \in Nat /\ e.epoch <= epoch'
             /\ e.epoch = epoch' => So(e.event, invoices')
  <2>1. CASE e \in heard
    BY <1>0, <2>1 DEF HearInv
  <2>2. CASE e = [epoch |-> b.epoch, event |-> Head(b.events)]
    BY <1>0, <1>1, <1>2, <2>2
  <2>3. QED
    BY <2>1, <2>2
<1>4. ASSUME NEW d \in outgoing'
      PROVE  /\ d \in [epoch : Nat, events : Seq(Events)]
             /\ d.epoch <= epoch' /\ d.events # <<>>
             /\ d.epoch = epoch' => \A j \in 1..Len(d.events) : So(d.events[j], invoices')
  <2>1. CASE d \in outgoing
    BY <1>0, <2>1 DEF HearInv
  <2>2. CASE d = [b EXCEPT !.events = Tail(@)] /\ Len(b.events) # 1
    <3>1. /\ d \in [epoch : Nat, events : Seq(Events)]
          /\ d.epoch = b.epoch /\ d.events = Tail(b.events)
      BY <1>1, <1>2, <2>2 DEF HearInv
    <3>2. d.events # <<>>
      <4>1. Tail(b.events) # <<>>
        BY <1>1, <2>2, LongTail
      <4>2. QED
        BY <3>1, <4>1
    <3>3. d.epoch = epoch' => \A j \in 1..Len(d.events) : So(d.events[j], invoices')
      BY <1>0, <1>1, <1>2, <3>1
    <3>4. QED
      BY <1>0, <1>1, <3>1, <3>2, <3>3
  <2>3. QED
    BY <2>1, <2>2
<1>5. QED
  BY <1>3, <1>4 DEF HearInv

(* A reset starts an epoch of which nothing has been said.                 *)
LEMMA ResetHear ==
  ASSUME HearInv, EpochInv, Reset
  PROVE  HearInv'
<1>1. /\ outgoing' = outgoing /\ heard' = heard
      /\ epoch' = epoch + 1 /\ epoch \in Nat
  BY DEF Reset, EpochInv
<1>2. \A n \in Nat : n <= epoch => n <= epoch' /\ n # epoch'
  BY <1>1
<1>3. \A b \in outgoing : b.epoch \in Nat /\ b.epoch <= epoch
  BY DEF HearInv
<1>4. QED
  BY <1>1, <1>2, <1>3 DEF HearInv

LEMMA HearStep ==
  ASSUME HearInv, InvoiceInv, InvoiceInv', EpochInv, [Next]_vars
  PROVE  HearInv'
<1>1. CASE UNCHANGED <<invoices, outgoing, heard, epoch>>
  BY <1>1 DEF HearInv
<1>2. ASSUME NEW evs, Batchable(evs), Announce(evs), GoOn PROVE HearInv'
  BY <1>2, OutStep DEF Announce
<1>3. ASSUME NEW k, NEW c, Request(k, c) PROVE HearInv'
  <2>1. CASE Refusal(k)
    BY <1>1, <2>1 DEF Refusal, worldVars, taskVars
  <2>2. CASE Write(k, c)
    BY <1>2, <2>2, WriteEvents, WriteInvoices
  <2>3. QED
    BY <1>3, <2>1, <2>2, RequestStep
<1>4. ASSUME NEW i \in Ids, Approve(i) PROVE HearInv'
  <2>1. Batchable(Event("approved", i))
    BY OneEvent DEF Kinds, So
  <2>2. QED
    BY <1>2, <1>4, <2>1, ApproveInvoices DEF Approve
<1>5. ASSUME NEW i \in DOMAIN invoices, NEW silent,
             Pay(i), Paid(i, silent),
             UNCHANGED <<heard, epoch>>
      PROVE  HearInv'
  <2>1. i \in DOMAIN invoices' /\ invoices'[i].status = "paid" /\ i \in Ids
    BY <1>5 DEF Pay, InvoiceInv, Invoices
  <2>2. Batchable(Event("paid", i))
    BY <2>1, OneEvent DEF Kinds, So
  <2>3. outgoing' = outgoing \/ outgoing' = outgoing \cup Batch(Event("paid", i))
    BY <1>5 DEF Paid
  <2>4. QED
    BY <1>5, <2>2, <2>3, OutStep, PayInvoices
<1>6. QED
  BY <1>1, <1>3, <1>4, <1>5, PublishStep, ResetHear, NextCases DEF PayNow, PayLater,
     PaymentDue, Exists, Tick, SetChaos, vars, worldVars, taskVars

(* What a subscriber hears of this world is still so.                      *)
THEOREM WhatIsHeardIsSo == Spec => []HeardIsSo
<1>1. Init => HearInv
  BY DEF Init, HearInv
<1>2. InvoiceInv /\ EpochInv /\ InvoiceInv' /\ HearInv /\ [Next]_vars => HearInv'
  BY HearStep
<1>3. HearInv => HeardIsSo
  BY DEF HearInv, HeardIsSo, So
<1>4. QED
  BY <1>1, <1>2, <1>3, AppInvariance, PTL DEF Spec
-----------------------------------------------------------------------------
(* The type invariant.                                                     *)

(* The tables: whatever is out, paid or remembered is about entities there *)
(* are.                                                                    *)
TableInv ==
  /\ customers \subseteq Ids
  /\ outbox \subseteq [id : Ids, kind : {"invoice", "receipt"}, invoice : DOMAIN invoices]
  /\ payments \subseteq [id : Ids, invoice : DOMAIN invoices]
  /\ DOMAIN replay \subseteq Keys /\ \A k \in DOMAIN replay : replay[k] \in Ids
  /\ applied \in [Keys -> Nat]

(* The gate and chaos.                                                     *)
WindowInv ==
  /\ quota \in 0..(MaxLimit + 1) /\ expired \in BOOLEAN
  /\ chaos \in [approval : BOOLEAN, fail : BOOLEAN, limit : 0..MaxLimit]

(* What handlers and tasks leave behind.                                   *)
TaskInv ==
  /\ \A e \in heard : e.event \in Events
  /\ pending \subseteq [invoice : Ids, silent : BOOLEAN]
  /\ epoch \in 0..MaxResets

(* Tables that only get what is about entities there are.                  *)
LEMMA TablesGrow ==
  ASSUME TableInv, InvoiceInv, GoOn, nextId \in Ids,
         customers' = customers \/ customers' = customers \cup {nextId},
         outbox' = outbox
           \/ \E i \in DOMAIN invoices, kind \in {"invoice", "receipt"} :
                outbox' = outbox \cup {[id |-> nextId, kind |-> kind, invoice |-> i]},
         payments' = payments
           \/ \E i \in DOMAIN invoices :
                payments' = payments \cup {[id |-> nextId, invoice |-> i]},
         UNCHANGED <<replay, applied>>
           \/ \E k, id : id \in Ids /\ Remember(k, id)
  PROVE  TableInv'
<1> USE DEF TableInv
<1>1. DOMAIN invoices \subseteq DOMAIN invoices'
  BY DEF GoOn
<1>2. customers' \subseteq Ids
  OBVIOUS
<1>3. outbox' \subseteq [id : Ids, kind : {"invoice", "receipt"}, invoice : DOMAIN invoices']
  BY <1>1
<1>4. payments' \subseteq [id : Ids, invoice : DOMAIN invoices']
  BY <1>1
<1> DEFINE Answers == /\ DOMAIN replay \subseteq Keys
                      /\ \A k \in DOMAIN replay : replay[k] \in Ids
                      /\ applied \in [Keys -> Nat]
<1>5. Answers'
  <2>1. CASE UNCHANGED <<replay, applied>>
    BY <2>1
  <2>2. ASSUME NEW k \in Keys, NEW id \in Ids, Remember(k, id)
        PROVE  Answers'
    <3>1. /\ replay' = [x \in DOMAIN replay \cup {k} |-> IF x = k THEN id ELSE replay[x]]
          /\ applied' = [applied EXCEPT ![k] = @ + 1]
      BY <2>2 DEF Remember
    <3>2. DOMAIN replay' \subseteq Keys /\ \A x \in DOMAIN replay' : replay'[x] \in Ids
      BY <3>1
    <3>3. applied[k] + 1 \in Nat
      OBVIOUS
    <3>4. applied' \in [Keys -> Nat]
      BY <3>1, <3>3
    <3>5. QED
      BY <3>2, <3>4
  <2>3. QED
    BY <2>1, <2>2 DEF Remember
<1>6. QED
  BY <1>2, <1>3, <1>4, <1>5

LEMMA TableStep ==
  ASSUME TableInv, InvoiceInv, EpochInv, [Next]_vars
  PROVE  TableInv'
<1>1. CASE Reset
  BY <1>1, SizeAssumption DEF Reset, TableInv, SizeAssumption
<1>2. CASE UNCHANGED <<customers, invoices, outbox, payments, replay, applied>>
  BY <1>2 DEF TableInv
<1>3. ASSUME NEW k, NEW c, Write(k, c) PROVE TableInv'
  <2>1. GoOn /\ nextId \in Ids /\ \A i \in DOMAIN invoices : i \in Ids
    BY <1>3, WriteInvoices DEF Write, Done, InvoiceInv
  <2>2. \E id \in Ids : Remember(k, id)
    BY <1>3, <2>1 DEF Write, Done, MayReceipt
  <2>3. customers' = customers \/ customers' = customers \cup {nextId}
    BY <1>3 DEF Write
  <2>4. outbox' = outbox
          \/ \E i \in DOMAIN invoices, kind \in {"invoice", "receipt"} :
               outbox' = outbox \cup {[id |-> nextId, kind |-> kind, invoice |-> i]}
    BY <1>3 DEF Write, MayReceipt
  <2>5. payments' = payments
    BY <1>3 DEF Write
  <2>6. QED
    BY <2>1, <2>2, <2>3, <2>4, <2>5, TablesGrow
<1>4. ASSUME NEW k, NEW c, Request(k, c) PROVE TableInv'
  BY <1>2, <1>3, <1>4, RequestStep DEF Refusal, worldVars
<1>5. ASSUME NEW i \in DOMAIN invoices, Pay(i) PROVE TableInv'
  <2>1. GoOn
    BY <1>5, PayInvoices
  <2>2. QED
    BY <1>5, <2>1, TablesGrow DEF Pay
<1>6. ASSUME NEW i, Approve(i) PROVE TableInv'
  BY <1>6 DEF Approve, TableInv
<1>7. QED
  BY <1>1, <1>2, <1>4, <1>5, <1>6, NextCases DEF PayNow, PayLater, PaymentDue, Exists,
     Publish, Tick, SetChaos, vars, worldVars

LEMMA WindowStep ==
  ASSUME WindowInv, [Next]_vars
  PROVE  WindowInv'
<1> USE DEF WindowInv
<1>1. CASE UNCHANGED <<gateVars, chaos>>
  BY <1>1 DEF gateVars
<1>2. ASSUME Charge, UNCHANGED chaos PROVE WindowInv'
  <2>1. MaxLimit \in Nat /\ Counted \in Nat
    BY SizeAssumption DEF SizeAssumption, Counted
  <2>2. quota' \in 0..(MaxLimit + 1) /\ expired' \in BOOLEAN
    <3>1. CASE UNCHANGED <<quota, expired>>
      BY <3>1
    <3>2. CASE quota' = (IF Counted > MaxLimit THEN MaxLimit + 1 ELSE Counted)
               /\ expired' = FALSE
      <4>1. quota' \in 0..(MaxLimit + 1)
        BY <2>1, <3>2
      <4>2. expired' \in BOOLEAN
        BY <3>2
      <4>3. QED
        BY <4>1, <4>2
    <3>3. QED
      BY <1>2, <3>1, <3>2 DEF Charge, gateVars
  <2>3. QED
    BY <1>2, <2>2
<1>3. ASSUME NEW k, NEW c, Request(k, c) PROVE WindowInv'
  BY <1>1, <1>2, <1>3, RequestStep DEF Refusal, Write, Done
<1>4. CASE Tick
  BY <1>4 DEF Tick
<1>5. CASE SetChaos
  BY <1>5 DEF SetChaos, NewChaos, gateVars
<1>6. CASE Reset
  BY <1>6, SizeAssumption DEF Reset, Calm, SizeAssumption
<1>7. QED
  BY <1>1, <1>3, <1>4, <1>5, <1>6, NextCases DEF Approve, PayNow, PayLater, PaymentDue, Pay,
     Publish, vars

LEMMA TaskStep ==
  ASSUME TaskInv, HearInv, [Next]_vars
  PROVE  TaskInv'
<1> USE DEF TaskInv
<1>1. CASE UNCHANGED <<heard, pending, epoch>>
  BY <1>1
<1>2. ASSUME NEW k, NEW c, Request(k, c) PROVE TaskInv'
  BY <1>1, <1>2, RequestStep DEF Refusal, Write, Done, Announce, taskVars
<1>3. ASSUME NEW i \in Ids, NEW silent \in BOOLEAN, PayLater(i, silent) PROVE TaskInv'
  BY <1>3 DEF PayLater
<1>4. ASSUME NEW p, PaymentDue(p) PROVE TaskInv'
  BY <1>4 DEF PaymentDue
<1>5. CASE Publish
  <2>1. PICK b \in outgoing :
           heard' = heard \cup {[epoch |-> b.epoch, event |-> Head(b.events)]}
    BY <1>5 DEF Publish
  <2>2. b.events \in Seq(Events) /\ b.events # <<>>
    BY DEF HearInv
  <2>3. Head(b.events) \in Events
    BY <2>2
  <2>4. \A e \in heard' : e.event \in Events
    BY <2>1, <2>3
  <2>5. QED
    BY <1>5, <2>4 DEF Publish
<1>6. CASE Reset
  <2>1. epoch' \in 0..MaxResets
    BY <1>6, SizeAssumption DEF Reset, SizeAssumption
  <2>2. QED
    BY <1>6, <2>1 DEF Reset
<1>7. QED
  BY <1>1, <1>2, <1>3, <1>4, <1>5, <1>6, NextCases DEF Approve, Announce, PayNow, Tick,
     SetChaos, vars, taskVars

(* The state of the app is what its types say: the rate window stays in    *)
(* its bounds, and every message, payment, report and remembered answer is *)
(* about something there is.                                               *)
THEOREM AppTypeOK == Spec => []TypeOK
<1> DEFINE All == /\ InvoiceInv /\ EpochInv /\ ReportInv /\ HearInv /\ GateInv
                  /\ TableInv /\ WindowInv /\ TaskInv
<1>1. Init => All
  <2> SUFFICES ASSUME Init PROVE All
    OBVIOUS
  <2> USE SizeAssumption DEF SizeAssumption, Init, Seeded
  <2>1. InvoiceInv /\ EpochInv /\ ReportInv /\ HearInv
    BY SeedFits DEF InvoiceInv, EpochInv, ReportInv, HearInv
  <2>2. GateInv /\ WindowInv
    BY DEF GateInv, WindowInv, Calm
  <2>3. TableInv /\ TaskInv
    BY DEF TableInv, TaskInv
  <2>4. QED
    BY <2>1, <2>2, <2>3
<1>2. All /\ [Next]_vars => All'
  BY InvoiceStep, EpochStep, ReportStep, HearStep, GateStep, TableStep, WindowStep, TaskStep
<1>3. All /\ RetriesSucceed => TypeOK
  <2> SUFFICES ASSUME All, RetriesSucceed PROVE TypeOK
    OBVIOUS
  <2>1. MaxResets \in Nat /\ epoch \in 0..MaxResets
    BY SizeAssumption DEF SizeAssumption, TaskInv
  <2>2. \A n \in Nat : n <= epoch => n \in 0..MaxResets
    BY <2>1
  <2>3. \A b \in outgoing : b.epoch \in 0..MaxResets /\ b.events \in Seq(Events)
    BY <2>2 DEF HearInv
  <2>4. \A e \in heard : e.epoch \in 0..MaxResets /\ e.event \in Events
    BY <2>2 DEF HearInv, TaskInv
  <2>5. QED
    BY <2>3, <2>4 DEF InvoiceInv, ReportInv, GateInv, TableInv, WindowInv, TaskInv,
       RetriesSucceed, TypeOK
<1>4. QED
  BY <1>1, <1>2, <1>3, RetriesAlwaysSucceed, PTL DEF Spec
=============================================================================
