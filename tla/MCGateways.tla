----------------------------- MODULE MCGateways -----------------------------
(***************************************************************************)
(* Two gateways in two scenes: documents are applied while the start-up    *)
(* task and another apply are at work (the constants of the                *)
(* configuration), or operators create, edit, start, stop and delete       *)
(* gateways one after the other while starts and stops fail.               *)
(***************************************************************************)
EXTENDS Gateways, TLC

VARIABLE scene

Operated == INSTANCE Gateways WITH
  Ops <- {"create", "update", "delete", "start", "stop"}, Concurrent <- FALSE,
  Attempts <- 3, FaultKinds <- {"call"}, MaxFaults <- 2

GatewaysInit == Init /\ scene \in {"applied", "operated"}

GatewaysNext ==
  /\ \/ scene = "applied" /\ Next
     \/ scene = "operated" /\ Operated!Next
  /\ UNCHANGED scene

GatewaysSpec == GatewaysInit /\ [][GatewaysNext]_<<scene, vars>>

\* Applies and the start-up reconciliation leave the containers as the document has
\* them, also when they overlap: an enabled gateway runs with its settings, nothing else.
AppliesConverge == scene = "applied" => Converges

\* To operators who wait for each answer, a gateway reported running does run, with the
\* settings the document has now, in spite of failed starts and stops.
OperatorsToldTruth == scene = "operated" => StatusTruthful

AllSymmetry == Permutations(GatewayIds) \cup Permutations(Requests)
=============================================================================
