------------------------------- MODULE MCApp -------------------------------
(* Requests for TLC to make of the app: one invoice's life.                *)
EXTENDS App

CONSTANTS k1, k2, k3, k4

(* Customer 1 is seeded; invoice 2 is the first thing created.             *)
LifeKeys == {k1, k2, k3, k4}
LifeAsks == [k \in LifeKeys |->
  CASE k = k1 -> [op |-> "createInvoice", on |-> 1]
    [] k = k2 -> [op |-> "sendInvoice", on |-> 2]
    [] k = k3 -> [op |-> "sendReceipt", on |-> 2]
    [] k = k4 -> [op |-> "createReport", on |-> {2}]]
LifeLoose == {[op |-> "createCustomer", on |-> 0]}
=============================================================================
