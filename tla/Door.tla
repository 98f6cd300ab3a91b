-------------------------------- MODULE Door --------------------------------
(***************************************************************************)
(* What a client with a key may rely on at the app's door: the first       *)
(* request that goes through takes effect and is remembered, every later   *)
(* one changes nothing.  Only a reset of the world forgets.                *)
(*                                                                         *)
(* Scheduler.tla's Land is this Apply, for keys of one plan and no reset.  *)
(***************************************************************************)
EXTENDS Naturals

CONSTANT Keys

VARIABLES
  applied,     \* how often each key took effect
  remembered   \* the keys with a remembered answer

dvars == <<applied, remembered>>

Start == applied = [k \in Keys |-> 0] /\ remembered = {}

Apply(k) ==
  /\ k \in Keys \ remembered
  /\ applied' = [applied EXCEPT ![k] = @ + 1]
  /\ remembered' = remembered \cup {k}

Forget == applied' = [k \in Keys |-> 0] /\ remembered' = {}

Step == Forget \/ \E k \in Keys : Apply(k)

Spec == Start /\ [][Step]_dvars
=============================================================================
