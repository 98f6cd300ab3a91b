---------------------------- MODULE MCScheduler ----------------------------
(* Plans for TLC to run the scheduler on.                                  *)
EXTENDS Scheduler

CONSTANTS a, b, c, d, api, a11y

(* A keyed write; then two nodes side by side; then an external keyed      *)
(* write that needs both.  The two are a wait for the consequence of the   *)
(* first write and either a guarded lookup, for one permit, or a write on  *)
(* a screen, which carries no key.                                         *)
DiamondNodes   == {a, b, c, d}
DiamondEdges   == {<<a, b>>, <<a, c>>, <<b, d>>, <<c, d>>}
DiamondWrites  == {a, d}
OneSurface     == [n \in DiamondNodes |-> api]
OnePermit      == [s \in {api} |-> 1]
ScreenWrites   == {a, c, d}
ScreenSurface  == [n \in DiamondNodes |-> IF n = c THEN a11y ELSE api]
PermitEach     == [s \in {api, a11y} |-> 1]

(* Lanes side by side for one permit: two keyed writes and a lookup, and a *)
(* wait that needs them all.  Nothing opens the screen the lookup is on.   *)
FanNodes   == {a, b, c, d}
FanEdges   == {<<a, d>>, <<b, d>>}
FanWrites  == {a, b}
FanSurface == [n \in FanNodes |-> IF n = c THEN a11y ELSE api]
=============================================================================
