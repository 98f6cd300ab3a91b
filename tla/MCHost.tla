------------------------------- MODULE MCHost -------------------------------
(* The invoicing app at two addresses, one of them annotated differently,  *)
(* and its document as a file; a few wants by name, and what compile, lint *)
(* and the rest make of them.                                              *)
EXTENDS Host, Intent, AppWorld

W == INSTANCE World

Acme == Customer("name", <<"str", "Acme">>)
Globex == Customer("name", <<"str", "Globex">>)
Eleven == Customer("id", <<"num", "11">>)
Made(customer) == Invoice(<<<<"customer", customer>>>>, "exists", True)
Sent(customer) == Invoice(<<<<"customer", customer>>>>, "status", <<"str", "sent">>)
Approved(customer) == Invoice(<<<<"customer", customer>>>>, "approved", True)
Every(vs) == <<"each", vs>>

Texts ==
  [nothing     |-> <<>>,
   acme        |-> <<Made(Acme)>>,
   eleven      |-> <<Made(Eleven)>>,
   who         |-> <<Made(Customer("name", Var("who")))>>,
   both        |-> <<Made(Globex), Made(Acme)>>,
   settled     |-> <<Made(Globex), Made(Eleven)>>,
   mailed      |-> <<Sent(Acme)>>,
   mailed11    |-> <<Sent(Eleven)>>,
   approved    |-> <<Approved(Acme)>>,
   approved11  |-> <<Approved(Eleven)>>,
   every       |-> <<Made(Every(<<<<"entity", Wanted("customer", <<>>, "", True)>>>>))>>,
   everyone    |-> <<Made(Every(<<Acme, Globex>>))>>,
   everybody   |-> <<Made(Every(<<Globex>>))>>,
   everyother  |-> <<Made(Every(<<Eleven, Globex>>))>>,
   tangled     |-> <<Approved(Eleven), Invoice(<<<<"customer", Eleven>>>>, "receipt_sent", True)>>,
   unlikely    |-> <<Wanted("customer", <<<<"name", <<"str", "Acme">>>>>>, "exists", True)>>]

Names == DOMAIN Texts
NameOf(text) == CHOOSE n \in Names : Texts[n] = text

(* Who is in the app: the summary the planner sees does not tell.          *)
Row(n) == [name |-> <<"str", n>>, name_prefix |-> <<"str", "">>]
SomeDatas == {<<Row("Acme"), Row("Globex")>>, <<Row("Globex")>>}
TheShown == [d \in SomeDatas |-> "names"]

SomeApps == {"here", "there", "openapi.json"}
SomeWorlds == {"app", "unlisted"}
(* In the other one customers are made and never found.                    *)
Model == [app |-> AppWorldModel, unlisted |-> [AppWorldModel EXCEPT !.ops = Tail(@)]]
(* A world stands for the fingerprint it shares.                           *)
ThePrints ==
  [w \in SomeWorlds |-> CHOOSE x \in SomeWorlds : W!Fingerprint(Model[x]) = W!Fingerprint(Model[w])]
SomeWorldOf == [a \in SomeApps |-> IF a = "there" THEN "unlisted" ELSE "app"]
TheOffered == [w \in SomeWorlds |-> UNION {DOMAIN o.surfaces : o \in Range(Model[w].ops)}]
Api == {"api"}
Screen == {"api", "a11y"}
Fax == {"api", "fax"}
SomeSurfaceSets == {Api, Screen, Fax}

(* Nothing beside a function has TLC work it out once.                     *)
Table(f) == f @@ <<>>

Ways == SomeWorlds \X SomeSurfaceSets \X Names
(* Plans, with numbers for the content addresses of their nodes.           *)
Numbered(full, addresses) ==
  LET Short(n) ==
        [canon |-> CHOOSE k \in DOMAIN addresses : addresses[k] = n.canon,
         keyed |-> n.keyed, external |-> n.external, fork |-> n.fork]
  IN Table([x \in Ways |->
       [full[x] EXCEPT !.nodes = Table([i \in DOMAIN @ |-> Short(@[i])])]])
AddressesIn(full) ==
  FoldSet(LAMBDA a, as : Append(as, a), <<>>,
          UNION {{n.canon : n \in Range(full[x].nodes)} : x \in Ways})
WithNumbers(full) == Numbered(full, AddressesIn(full))
ThePlans == WithNumbers(Table([x \in Ways |-> Compile(Texts[x[3]], Model[x[1]].ops, x[2])]))
TheAccepted == {x \in Ways : Lint(Texts[x[3]], Model[x[1]], x[2]) = {}}
TheSturdy == {x \in Ways : OrderCheck(Texts[x[3]], Model[x[1]], x[2]) = "ok"}
TheExpanded ==
  Table([x \in Names \X SomeDatas |->
    NameOf(W!ExpandSelectors(Texts[x[1]], AppWorldModel, [customer |-> x[2]]))])

ThePlaceheld == {n \in Names : \E p \in Range(Texts[n]) : PredVars(p) # {}}
SomeValues == {"none", "Acme"}
TheFilled ==
  Table([x \in Names \X SomeValues |->
    LET text == Texts[x[1]] IN
    IF x[2] = "none" THEN x[1]
    ELSE NameOf([i \in DOMAIN text |-> SubstPred(text[i], [who |-> <<"str", x[2]>>])])])

AnswerText(n) == WriteAnswer(Texts[n], <<Acme, Eleven>>)
TheAnswered ==
  Table([n \in {x \in Names : AnswerText(x) # Texts[x]} |-> NameOf(AnswerText(n))])

Line(source, wanted, place, surfaces) ==
  [source |-> source, goal |-> "invoice", intent |-> wanted, app |-> place, surfaces |-> surfaces,
   set |-> "none", save |-> FALSE, force |-> FALSE, order |-> FALSE, run |-> TRUE, yes |-> FALSE,
   answer |-> "none", out |-> FALSE]
Saving(c) == [c EXCEPT !.out = TRUE]

TheCommands ==
  {Saving(Line("wants", "both", "here", Api))}
  \cup {[Saving(Line("wants", "mailed", "here", Screen)) EXCEPT !.answer = "given", !.yes = y] :
          y \in BOOLEAN}
  \cup {[Saving(Line("wants", "approved", "here", Screen)) EXCEPT !.answer = "given"]}
  \cup {Line("wants", "who", "here", Api),
         [Line("wants", "who", "here", Api) EXCEPT !.save = TRUE, !.set = "Acme", !.run = FALSE]}
  \cup {[Line("wants", "approved", "here", x) EXCEPT !.order = TRUE] : x \in {Screen, Fax}}
  \cup {[Line("wants", "tangled", "here", Screen) EXCEPT !.order = TRUE]}
  \cup {Line("wants", "every", "here", Api), Line("wants", "eleven", "openapi.json", Api)}
  \cup {[Line("goal", "nothing", "here", Api) EXCEPT !.answer = "model"]}
  \cup {[Line("recipe", "nothing", x[1], Api) EXCEPT !.set = "Acme", !.force = x[2]] :
          x \in {<<Unsaid, FALSE>>, <<"there", FALSE>>, <<"there", TRUE>>}}
  \cup {[Saving(Line("resume", "nothing", x[1], Screen))
            EXCEPT !.answer = "given", !.run = x[2], !.yes = x[2]] :
          x \in {<<Unsaid, FALSE>>, <<"there", TRUE>>}}

SomeReplies == {"every", "settled", "mailed11", "unlikely"}
TheQuestions ==
  [goal : {"invoice"}, world : SomeWorlds, surfaces : {Api}, live : {TRUE}, cached : {TRUE},
   fork : {FALSE}]

(* Up to three calls and waits, two of them of two surfaces, that begin    *)
(* and end in any way within three microseconds.                           *)
TheTimings ==
  UNION {[1..n -> {"api", "a11y", "event"} \X (0..2) \X (0..2)] : n \in 0..2}
    \cup [1..3 -> {"api", "event"} \X (0..2) \X (0..2)]

(* One process id is as good as another.                                   *)
Symmetry == Permutations(Pids)

(* What stands for a constant is worked out at each use, and what it names *)
(* only once.                                                              *)
SomePlans == ThePlans
SomeAccepted == TheAccepted
SomeSturdy == TheSturdy
SomeExpanded == TheExpanded
SomeFilled == TheFilled
SomeAnswered == TheAnswered
SomeOffered == TheOffered
SomePrints == ThePrints
SomePlaceheld == ThePlaceheld
SomeCommands == TheCommands
SomeQuestions == TheQuestions
SomeTimings == TheTimings
SomeShown == TheShown
=============================================================================
