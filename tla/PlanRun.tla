------------------------------ MODULE PlanRun ------------------------------
(***************************************************************************)
(* What one run of a plan can come to, as whoever started it gets to see   *)
(* it (Scheduler::resume in crates/rwmcp/src/scheduler.rs).  The engine is *)
(* shown to keep to it, and the command runs its plans by it.              *)
(***************************************************************************)

(* The nodes all of whose predecessors are had, and that are not.          *)
Startable(nodes, edges, had) ==
  {n \in nodes \ had : \A e \in edges : e[2] = n => e[1] \in had}

(* A run has nodes that succeed, lookups whose answer is a question, and   *)
(* nodes that fail, with a closed gate or otherwise; what comes after a    *)
(* node starts when that one has succeeded.  One that does not commit ends *)
(* like some node of it that did not succeed, whatever else was in flight. *)
PossibleRun(nodes, edges, forks, closed, done, run) ==
  LET had == done \cup run.ok
      fair == Startable(nodes, edges, had)
  IN /\ run.ok \subseteq nodes \ (done \cup closed)
     /\ \A e \in edges : e[2] \in run.ok => e[1] \in had
     /\ run.asked \subseteq (fair \cap forks) \ closed
     /\ run.failed \subseteq fair \ run.asked
     /\ \/ run.outcome = "committed" /\ had = nodes
        \/ run.outcome = "need_think" /\ run.asked \cup (run.failed \cap closed) # {}
        \/ run.outcome = "error" /\ run.failed \ closed # {}
=============================================================================
