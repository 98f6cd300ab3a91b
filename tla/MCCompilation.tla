---------------------------- MODULE MCCompilation ----------------------------
(* The world model of crates/app/static/openapi.json and wants about it.   *)
EXTENDS Compilation, AppWorld

Acme == Customer("name", <<"str", "Acme">>)
Globex == Customer("name", <<"str", "Globex">>)
Eleven == Customer("id", <<"num", "11">>)
Each(vs) == <<"each", vs>>
All(v) == <<"all", v>>

Want(customer, field, value) == Invoice(<<<<"customer", customer>>>>, field, value)
TheInvoice(customer) == <<"entity", Want(customer, "", True)>>
Report(invoices) == Wanted("report", <<<<"invoices", invoices>>>>, "exists", True)
Sent(customer) == Want(customer, "status", <<"str", "sent">>)
Named5 == <<"entity", Invoice(<<<<"id", <<"num", "5">>>>>>, "", True)>>

SomeWants == {
  Want(Acme, "exists", True), Sent(Acme), Want(Acme, "approved", True),
  Want(Acme, "receipt_sent", True), Sent(Globex), Want(Eleven, "exists", True),
  Report(<<"list", <<TheInvoice(Acme), TheInvoice(Globex)>>>>),
  Report(<<"list", <<Named5>>>>) }

(* Every list of up to three wants, and everything about one invoice.      *)
Lists(n, W) == {ws \in [1..n -> W] : \A i, j \in 1..n : ws[i] = ws[j] => i = j}
OneInvoice == {w \in SomeWants : w.args[1][2] = Acme}
PlainIntents == UNION {Lists(n, SomeWants) : n \in 0..3} \cup Lists(4, OneInvoice)

(* Wants with quantifiers, and the same wants without; the last fans out   *)
(* over lists of different lengths and stands for nothing.                 *)
Names == Each(<<Acme, Globex>>)
Both == <<"list", <<TheInvoice(Acme), TheInvoice(Globex)>>>>
LongHandPairs == {
  << <<Sent(Names)>>, <<Sent(Acme), Sent(Globex)>> >>,
  << <<Sent(Names), Report(All(TheInvoice(Names)))>>,
     <<Sent(Acme), Sent(Globex), Report(Both)>> >>,
  << <<Report(<<"list", <<All(TheInvoice(Names)), Named5>>>>)>>,
     <<Report(<<"list", <<TheInvoice(Acme), TheInvoice(Globex), Named5>>>>)>> >>,
  << <<Report(All(<<"list", <<TheInvoice(Names)>>>>)), Want(Acme, "approved", True)>>,
     <<Report(Both), Want(Acme, "approved", True)>> >>,
  << <<Want(Names, "receipt_sent", True)>>,
     <<Want(Acme, "receipt_sent", True), Want(Globex, "receipt_sent", True)>> >> }
Uneven == <<Report(<<"list", <<TheInvoice(Names), TheInvoice(Each(<<Acme>>))>>>>)>>

SomeLongHand ==
  [ws \in {p[1] : p \in LongHandPairs} |-> (CHOOSE p \in LongHandPairs : p[1] = ws)[2]]

SomeIntents == PlainIntents \cup DOMAIN SomeLongHand \cup {Uneven}

SomeSurfaces == {{"api"}, {"api", "a11y"}}
SomeAnswers == {<<Acme, Eleven>>}

AppWorlds == {AppWorldModel}
FiveWorlds == {AppWorldModel, DirectWorld, SilentWorld, FaultyWorld, CarelessWorld}
LookAlikes == {AppWorldModel, DearerWorld}
ShortIntents == UNION {Lists(n, SomeWants) : n \in 0..2}
=============================================================================
