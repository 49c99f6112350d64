--------------------------- MODULE MCConfigApply ---------------------------
(* Two user skills and one that is shipped, one secret, one holder of each   *)
(* kind, one agent and one gateway; two requests and the start-up task.      *)
EXTENDS ConfigApply, TLC

CONSTANTS s1, h1, h2, k1, k2, b1, a1, g1, c1, c2

Record(conn, skills) == [conn |-> conn, skills |-> skills]
NoSkills == [k \in SkillIds |-> NoDir]
Document(secrets, conn, agent, skills) ==
  [skills |-> skills, secrets |-> secrets,
   holds |-> [h \in Holders |-> IF h = h1 THEN conn ELSE Absent],
   agents |-> [a \in Agents |-> agent], gateways |-> [g \in Gateways |-> Absent]]

MCDirs == {NoDir, c1, c2}
Empty == Document({}, Absent, NoAgent, NoSkills)
Plain == Document({s1}, s1, Record(h1, {k1}), [NoSkills EXCEPT ![k1] = c1])
MCFirstDocs == {Empty, Plain}
MCFirstShelves == {[NoSkills EXCEPT ![k1] = c1]}

Authored(d) == [doc |-> d, form |-> "authored"]
MCSources ==
  {Authored(Empty),
   Authored(Document({s1}, Literal, Record(NoConn, {b1}), [NoSkills EXCEPT ![k1] = c2, ![k2] = c1])),
   Authored(Document({s1}, s1, NoAgent, [NoSkills EXCEPT ![b1] = c1]))}

Alike == Permutations(Requests)

SkillRoutes == {"apply", "create_skill", "update_skill", "rollback", "delete_skill", "update_agent"}
SecretRoutes == {"apply", "declare", "undeclare", "set", "clear", "connect", "disconnect",
                 "kernel", "gateway", "delete_agent"}
MCScenarios == {SkillRoutes, SecretRoutes}
=============================================================================
