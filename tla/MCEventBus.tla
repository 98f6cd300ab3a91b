----------------------------- MODULE MCEventBus -----------------------------
(* Facts and waits for TLC to run the event bus on.                        *)
EXTENDS EventBus

CONSTANTS paid1, paid2, w1, w2

(* Two payments; one wait by id, with a glance, and one for any payment.   *)
BusFacts == {paid1, paid2}
BusKinds == [f \in BusFacts |-> "paid"]
BusWaits == {w1, w2}
BusFor   == [w \in BusWaits |-> paid1]
=============================================================================
