------------------------ MODULE MCSessionLifecycle ------------------------
(***************************************************************************)
(* Two sessions and two requests, in two scenes that differ in what        *)
(* browsers ask for and in what goes wrong.  In the scene "locked", which  *)
(* has the constants of the configuration, every job has a handler that    *)
(* waits for it under SessionLifecycleLocks, and the two sessions were     *)
(* created in the same millisecond, so that their Docker names are the     *)
(* same.  In "abandoned" handlers give up while their jobs go on and       *)
(* kernels are killed without the lock.                                    *)
(***************************************************************************)
EXTENDS SessionLifecycle, TLC

CONSTANTS s1, s2, n1, n2

VARIABLE scene

DistinctNames == (s1 :> n1) @@ (s2 :> n2)
SameName == (s1 :> n1) @@ (s2 :> n1)
OneSession == s1 :> n1

Abandoned == INSTANCE SessionLifecycle WITH
  ShortName <- DistinctNames,
  Ops <- {"create", "delete", "kill", "dry_run", "cleanup"},
  FaultKinds <- {"giveup", "restart", "store"}

SessionsInit == Init /\ scene \in {"locked", "abandoned"}

SessionsNext ==
  /\ \/ scene = "locked" /\ Next
     \/ scene = "abandoned" /\ Abandoned!Next
  /\ UNCHANGED scene

SessionsSpec == SessionsInit /\ [][SessionsNext]_<<scene, vars>>

\* one session in a single scene
ResetSpec == Init /\ scene = "reset" /\ [][Next /\ UNCHANGED scene]_<<scene, vars>>

\* request slots are interchangeable
RequestSymmetry == Permutations(Requests)

----------------------------------------------------------------------------
\* As long as every job has a handler that holds the lock, a running kernel has the
\* workspace volume of its own session mounted, never one that Docker made up.
WorkspaceMounted == scene = "locked" => RunningMountsOwnWorkspace

\* When delete_session has removed the row, nothing labelled with the session is left in
\* Docker, also when another session has the same truncated name.
NothingLeft == scene = "locked" => DeleteLeavesNothing

\* Truncated names are never sufficient for deletion: of two sessions with one name, a
\* job on the one removes nothing that carries the other's label.
ForeignKept == [][scene = "locked" => RemovesOnlyOwn]_vars
=============================================================================
