----------------------------- MODULE MCStreams -----------------------------
(***************************************************************************)
(* What agent_host keeps and passes on, in three scenes: the turns of a    *)
(* session with the calls that change its record meanwhile, a browser's    *)
(* connection to the editor, and the files of the skill store.             *)
(***************************************************************************)
EXTENDS SessionRecords, VscodeProxy, SkillStore, TLC

CONSTANTS c1, c2
MCCalls == c1 :> {"create", "destroy", "reset", "history"} @@ c2 :> {"create", "history"}

Good == [upgrade |-> TRUE, row |-> TRUE, host |-> TRUE, origin |-> "allowed", decodesTo |-> "plain", body |-> "small"]
MCRequests ==
  {Good, [Good EXCEPT !.row = FALSE], [Good EXCEPT !.host = FALSE], [Good EXCEPT !.origin = "other"],
   [Good EXCEPT !.decodesTo = "dots"], [Good EXCEPT !.upgrade = FALSE],
   [Good EXCEPT !.upgrade = FALSE, !.body = "big"]}

\* two files, two authored skills, one of which drops a file of the other, and a shipped one
TwoFiles == {<<"SKILL.md", 1>>, <<"notes", 1>>}
OneFile == {<<"SKILL.md", 2>>}
MCSources == {TwoFiles, OneFile}
MCShipped == {<<"SKILL.md", 1>>, <<"notes", 2>>}

VARIABLE scene

NoSkills == image = {} /\ \A k \in SkillIds : disk[k] = NoDir

StreamsInit ==
  /\ ProxyInit /\ RecordsInit /\ Init
  /\ scene \in {"records", "editor", "skills"}
  /\ scene # "records" => record = NoRecord /\ ~up
  /\ scene # "skills" => NoSkills

StreamsNext ==
  /\ \/ scene = "records" /\ RecordsNext /\ UNCHANGED <<proxyVars, vars>>
     \/ scene = "editor" /\ ProxyNext /\ UNCHANGED <<recordVars, vars>>
     \/ scene = "skills" /\ Next /\ UNCHANGED <<recordVars, proxyVars>>
  /\ UNCHANGED scene

StreamsSpec ==
  /\ StreamsInit /\ [][StreamsNext]_<<scene, recordVars, proxyVars, vars>>
  /\ RecordsFairness /\ ProxyFairness
=============================================================================
