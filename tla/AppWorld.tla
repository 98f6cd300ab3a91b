------------------------------ MODULE AppWorld ------------------------------
(***************************************************************************)
(* The world model of the invoicing app (crates/app/static/openapi.json),  *)
(* wants about it, and the same model with one thing in it changed.        *)
(***************************************************************************)
EXTENDS Pred

Var(x) == <<"var", x>>
Wanted(entity, args, field, value) ==
  [entity |-> entity, args |-> args, field |-> field, value |-> value]
Invoice(args, field, value) == Wanted("invoice", args, field, value)
ById(field, value) == Invoice(<<<<"id", Var("id")>>>>, field, value)

Everywhere == [api |-> 1, mcp |-> 3, a11y |-> 50]
OnId == {<<"invoice", "$", "id">>}

Op(name, params, post, requires, reads, writes) ==
  [name |-> name, kind |-> "http", params |-> params, defaults |-> <<>>, post |-> post,
   produces |-> IF post.field \in {"exists", "resolved"} THEN post.entity ELSE "none",
   requires |-> requires, reads |-> reads, writes |-> writes, before |-> {},
   external |-> FALSE, fork |-> FALSE, surfaces |-> [api |-> 1, mcp |-> 3]]

Mail(op) == [op EXCEPT !.external = TRUE, !.reads = @ \cup {<<"customer", "*", "">>},
                       !.writes = @ \cup {<<"outbox", "new", "">>}]

ListCustomers ==
  [Op("listCustomers", {"name", "name_prefix"},
      Wanted("customer", <<<<"name", Var("name")>>>>, "resolved", True), <<>>,
      {<<"customer", "*", "">>}, {})
   EXCEPT !.fork = TRUE, !.surfaces = Everywhere]

CreateCustomer ==
  Op("createCustomer", {"name", "email"},
     Wanted("customer", <<<<"name", Var("name")>>>>, "exists", True), <<>>,
     {}, {<<"customer", "new", "">>})

CreateInvoice ==
  [Op("createInvoice", {"customer_id", "amount_cents"},
      Invoice(<<<<"customer", Var("customer_id")>>>>, "exists", True),
      <<Wanted("customer", <<<<"id", Var("customer_id")>>>>, "resolved", True)>>,
      {<<"customer", "$", "customer_id">>}, {<<"invoice", "new", "">>})
   EXCEPT !.surfaces = Everywhere @@ [pixels |-> 100],
          !.defaults = [amount_cents |-> <<"num", "10000">>]]

SendReceipt ==
  Mail(Op("sendReceipt", {"id"}, ById("receipt_sent", True),
          <<ById("status", <<"str", "paid">>)>>, OnId, OnId))

SendInvoice ==
  [Mail(Op("sendInvoice", {"id"}, ById("status", <<"str", "sent">>),
           <<ById("exists", True)>>, OnId, OnId))
   EXCEPT !.before = {"sendReceipt"}, !.surfaces = Everywhere @@ [pixels |-> 100]]

CreateReport ==
  Op("createReport", {"invoice_ids"},
     Wanted("report", <<<<"invoices", Var("invoice_ids")>>>>, "exists", True),
     <<Invoice(<<<<"id", Var("invoice_ids")>>>>, "exists", True)>>,
     {<<"invoice", "$", "invoice_ids">>}, {<<"report", "new", "">>})

ApproveInvoice ==
  [Op("approveInvoice", {"id"}, ById("approved", True), <<ById("exists", True)>>, OnId, OnId)
   EXCEPT !.kind = "ui", !.before = {"sendInvoice"},
          !.surfaces = [a11y |-> 50, pixels |-> 100]]

PaymentReceived ==
  [Op("payment.received", {"id"}, ById("status", <<"str", "paid">>), <<>>, {}, {})
   EXCEPT !.kind = "event"]

AppEntities ==
  [customer |-> {"name", "email"},
   invoice  |-> {"customer_id", "amount_cents", "status", "approved", "receipt_sent"},
   outbox   |-> {"to", "subject", "kind", "invoice_id"},
   report   |-> {"invoice_ids", "total_cents", "sent_count"}]

(* The candidates for making one entity exist are in the order of names.   *)
With(createInvoice, sendInvoice, approveInvoice) ==
  [entities |-> AppEntities,
   ops |-> <<ListCustomers, CreateCustomer, createInvoice, SendReceipt, sendInvoice,
             CreateReport, approveInvoice, PaymentReceived>>]

AppWorldModel == With(CreateInvoice, SendInvoice, ApproveInvoice)

(* Every two writers of an invoice say directly which goes first.          *)
DirectWorld ==
  With(CreateInvoice, SendInvoice,
       [ApproveInvoice EXCEPT !.before = {"sendInvoice", "sendReceipt"}])

(* Nothing says whether an invoice is approved before it is sent.          *)
SilentWorld == With(CreateInvoice, SendInvoice, [ApproveInvoice EXCEPT !.before = {}])

(* A footprint names a parameter the operation does not have.              *)
FaultyWorld ==
  With(CreateInvoice,
       [SendInvoice EXCEPT !.writes = {<<"invoice", "$", "invoice">>,
                                       <<"outbox", "new", "">>}],
       ApproveInvoice)

(* A footprint names a parameter the operation has, but no want fills.     *)
CarelessWorld ==
  With(CreateInvoice,
       [SendInvoice EXCEPT !.params = @ \cup {"number"},
                           !.writes = {<<"invoice", "$", "number">>,
                                       <<"outbox", "new", "">>}],
       ApproveInvoice)

(* An invoice nobody gave an amount is a larger one.                       *)
DearerWorld ==
  With([CreateInvoice EXCEPT !.defaults = [amount_cents |-> <<"num", "20000">>]],
       SendInvoice, ApproveInvoice)

Customer(key, v) == <<"entity", Wanted("customer", <<<<key, v>>>>, "", True)>>
=============================================================================
