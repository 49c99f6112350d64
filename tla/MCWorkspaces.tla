---------------------------- MODULE MCWorkspaces ----------------------------
(***************************************************************************)
(* A session to save: it holds a file of the user, the directory .agents,  *)
(* a staged skill, a skill of the user under the name of one that the      *)
(* agent has, and the directory on which a workspace is mounted.           *)
(***************************************************************************)
EXTENDS Workspaces, TLC

MCScratch == [e \in Entries |-> CASE e \in {"file", "mine"} -> "user"
                                   [] e \in {".agents", "skill"} -> "owned"
                                   [] e = "other" -> "mount"]

\* requests on workspaces, and the workspaces, are interchangeable
Alike == Permutations(Clients) \cup Permutations(Ids)
=============================================================================
