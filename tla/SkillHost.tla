----------------------------- MODULE SkillHost -----------------------------
(***************************************************************************)
(* What the skill routes of agent_host promise: each operation on a user   *)
(* skill either happens as a whole or, when it fails, may leave the files  *)
(* of that one skill broken -- but a failed write keeps every version that *)
(* was kept before, and never loses the only copy of what it replaces.     *)
(***************************************************************************)
CONSTANTS
  SkillIds,
  Dirs,       \* what the directory of a skill can hold
  NoDir,      \* the skill has no directory
  Torn        \* a version file that was not completely written

ASSUME SkillHostAssumption == NoDir \in Dirs /\ Torn \notin Dirs

VARIABLES
  shelf,      \* the directory of each skill
  past        \* the contents its version history holds

hostVars == <<shelf, past>>
Entries == (Dirs \ {NoDir}) \cup {Torn}

HostTypeOK ==
  /\ shelf \in [SkillIds -> Dirs]
  /\ past \in [SkillIds -> SUBSET Entries]

HostInit ==
  /\ shelf \in [SkillIds -> Dirs]
  /\ past = [k \in SkillIds |-> {}]

Become(k, d, h) ==
  /\ shelf' = [shelf EXCEPT ![k] = d]
  /\ past' = [past EXCEPT ![k] = h]

Create(k, c) ==
  /\ shelf[k] = NoDir
  /\ Become(k, c, past[k] \cup {c})

Updatable(k) == shelf[k] # NoDir /\ Torn \notin past[k]

Update(k, c) ==
  /\ Updatable(k)
  /\ Become(k, c, past[k] \cup {c} \cup (IF past[k] = {} THEN {shelf[k]} ELSE {}))

Delete(k) ==
  /\ shelf[k] # NoDir
  /\ Become(k, NoDir, {})

\* an operation keeps at most two versions, and what a skill without history held
\* is in its history before it is touched
AtMostTwo == {{}} \cup {{x, y} : x, y \in Entries}

FailKeeps(k, d, new) ==
  /\ (d # shelf[k] /\ shelf[k] # NoDir) => (past[k] # {} \/ shelf[k] \in new)
  /\ past' = [past EXCEPT ![k] = @ \cup new]

FailWrite(k) ==
  \E d \in Dirs :
    /\ shelf' = [shelf EXCEPT ![k] = d]
    /\ \E new \in AtMostTwo : FailKeeps(k, d, new)

FailDelete(k) ==
  /\ shelf[k] # NoDir
  /\ \E d \in Dirs :
       /\ shelf' = [shelf EXCEPT ![k] = d]
       /\ \E h \in SUBSET past[k] :
            /\ d # NoDir => h = past[k]
            /\ past' = [past EXCEPT ![k] = h]

\* start-up copies the skills shipped with the installation over whatever is there
Replace(k) == \E d \in Dirs, h \in SUBSET past[k] : Become(k, d, h)

HostNext ==
  \E k \in SkillIds :
    \/ Replace(k) \/ Delete(k) \/ FailDelete(k)
    \/ \E c \in Dirs \ {NoDir} : Create(k, c) \/ Update(k, c)
    \/ FailWrite(k)

HostSpec == HostInit /\ [][HostNext]_hostVars
=============================================================================
