---------------------------- MODULE ConfigApply ----------------------------
(***************************************************************************)
(* The configuration of client_service: the active document and its        *)
(* snapshots, the declared secrets and their values, and the routes that   *)
(* change them, together with the user skills the document declares, which *)
(* agent_host stores (the module SkillHost).                               *)
(*                                                                         *)
(* ConfigState.mutate and insert_and_activate run under the write lock of  *)
(* the document and are one step each.  apply_lock is a task-level lock    *)
(* held across calls to agent_host, secret_ops a mutex held across two     *)
(* readings of the document; both are variables.                           *)
(***************************************************************************)
EXTENDS Naturals, Sequences, SkillHost

CONSTANTS
  Requests,    \* handlers; each serves one request
  Startup,     \* the task that reconciles at start-up
  Nobody,
  Contents,    \* well-formed files of a skill
  Builtins,    \* the skills shipped with agent_host
  Secrets,
  Conns,       \* connections
  Kernels,     \* kernel configs: they may hold a secretRef, nothing refers to them
  Agents,
  Gateways,
  Absent,      \* a resource that is not declared
  Literal,     \* a value that is not a secretRef
  NoAgent, NoConn,
  Sources,     \* the documents requests apply
  NoSource,
  FirstDocs,   \* the documents the service may start from
  FirstShelves,
  Scenarios,   \* sets of routes that are called together
  FaultKinds,
  MaxFaults

Holders == Conns \cup Kernels
AgentRecords == [conn : Conns \cup {NoConn}, skills : SUBSET SkillIds]
Docs == [skills : [SkillIds -> Dirs],
         secrets : SUBSET Secrets,
         holds : [Holders -> {Absent, Literal} \cup Secrets],
         agents : [Agents -> {NoAgent} \cup AgentRecords],
         gateways : [Gateways -> {Absent} \cup Agents]]

\* the bytes of a snapshot: regenerated from the document, or as an author wrote them
Bytes == [doc : Docs, form : {"canonical", "authored"}]

ASSUME ConfigAssumption ==
  /\ Startup \notin Requests /\ Nobody \notin Requests \cup {Startup}
  /\ Contents \subseteq Dirs \ {NoDir}
  /\ Builtins \subseteq SkillIds /\ SkillIds # {} /\ Holders # {}
  /\ {Absent, Literal} \cap Secrets = {} /\ Absent # Literal
  /\ Absent \notin Agents
  /\ NoAgent \notin AgentRecords /\ NoConn \notin Conns
  /\ Sources \subseteq Bytes /\ NoSource \notin Bytes
  /\ FirstDocs \subseteq Docs /\ FirstDocs # {}
  /\ FirstShelves \subseteq [SkillIds -> Dirs]
  /\ MaxFaults \in Nat

Tasks == Requests \cup {Startup}

VARIABLES
  doc,        \* the active document
  snaps,      \* config_snapshots: the bytes of each generation
  active,     \* active_config: the generation in force, 0 when there is none
  values,     \* the secrets that have a value
  applyLock, secretOps,
  req,        \* the requests
  late,       \* calls to agent_host whose caller is gone and that are still to land
  drift,      \* a call to agent_host may have had an effect its caller does not know of:
              \* no, since the last listing, or before it
  scenario,
  faults

configVars == <<doc, snaps, active>>
vars == <<configVars, values, applyLock, secretOps, req, late, drift, scenario, faults, hostVars>>

Ops == {"apply", "create_skill", "update_skill", "rollback", "delete_skill", "update_agent",
        "declare", "undeclare", "set", "clear", "connect", "disconnect", "kernel",
        "delete_agent", "gateway", "reconcile"}
Pcs == {"idle", "builtins", "lock", "prepare", "list", "stage", "check", "publish", "undo",
        "host", "doc", "enable", "refs", "write", "secret", "do", "over"}
Calls == [k : SkillIds, c : Dirs, call : {"create", "update", "delete"}]
Tasked == [k : SkillIds, h : Holders, a : {NoAgent} \cup Agents, c : Dirs, op : Ops, pc : Pcs,
           src : Bytes \cup {NoSource}, exp : Nat, seen : Docs, known : SUBSET SkillIds,
           list : [SkillIds -> Dirs], done : Seq(Calls), prev : Dirs,
           rec : {NoAgent} \cup AgentRecords, s : {Absent, Literal} \cup Secrets]

TypeOK ==
  /\ doc \in Docs /\ snaps \in Seq(Bytes) /\ active \in 0..Len(snaps)
  /\ values \subseteq Secrets
  /\ applyLock \in Tasks \cup {Nobody} /\ secretOps \in Tasks \cup {Nobody}
  /\ req \in [Tasks -> Tasked]
  /\ late \subseteq Calls /\ drift \in {"no", "before", "since"}
  /\ scenario \in Scenarios /\ faults \in 0..MaxFaults
  /\ HostTypeOK

\* a request that needs no more of what it has read than its fields say
Blank(op, pc) ==
  [k |-> CHOOSE k \in SkillIds : TRUE, h |-> CHOOSE h \in Holders : TRUE, a |-> NoAgent,
   c |-> NoDir, op |-> op, pc |-> pc, src |-> NoSource, exp |-> 0,
   seen |-> CHOOSE d \in FirstDocs : TRUE, known |-> {}, list |-> [k \in SkillIds |-> NoDir],
   done |-> <<>>, prev |-> NoDir, rec |-> NoAgent, s |-> Absent]
Served(op, pc) == [Blank(op, pc) EXCEPT !.seen = doc]

Init ==
  /\ doc \in FirstDocs
  /\ snaps = <<[doc |-> doc, form |-> "canonical"]>> /\ active = 1
  /\ values \in SUBSET doc.secrets
  /\ applyLock = Nobody /\ secretOps = Nobody
  /\ req = [r \in Tasks |-> IF r = Startup THEN Blank("reconcile", "lock")
                                           ELSE Blank("reconcile", "idle")]
  /\ late = {} /\ drift = "since"
  /\ scenario \in Scenarios /\ faults = 0
  /\ shelf \in FirstShelves /\ past = [k \in SkillIds |-> {}]

----------------------------------------------------------------------------
(* Validation.                                                              *)

UserSkills(d) == {k \in SkillIds : d.skills[k] # NoDir}
secret_references(d) == {d.holds[h] : h \in Holders} \cap Secrets

validate_secret_refs(d) == secret_references(d) \subseteq d.secrets

validate_agents(d, known, strict) ==
  \A a \in Agents : LET g == d.agents[a] IN g # NoAgent =>
    /\ g.conn # NoConn => d.holds[g.conn] # Absent
    /\ strict => g.skills \subseteq UserSkills(d) \cup known

validate_gateways(d) ==
  \A g \in Gateways : d.gateways[g] # Absent => d.agents[d.gateways[g]] # NoAgent

\* a skill needs SKILL.md, safe paths and sound metadata
validate_skills(d) == \A k \in UserSkills(d) : d.skills[k] \in Contents

validate_inner(d, known, strict) ==
  /\ validate_secret_refs(d)
  /\ validate_agents(d, known, strict)
  /\ validate_gateways(d)
  /\ validate_skills(d)
  /\ UserSkills(d) \cap known = {}

validate(d, known) == validate_inner(d, known, TRUE)
validate_mutation(d) == validate_inner(d, {}, FALSE)

\* the service starts from the snapshot that was active, which was validated before
ASSUME FirstDocsValid == \A d \in FirstDocs : validate_mutation(d)

----------------------------------------------------------------------------
(* The document and its snapshots.                                          *)

\* bytes that were a snapshot before become active again under their generation
insert_and_activate(b) ==
  \/ \E g \in 1..Len(snaps) : snaps[g] = b /\ active' = g /\ UNCHANGED snaps
  \/ /\ \A g \in 1..Len(snaps) : snaps[g] # b
     /\ snaps' = Append(snaps, b) /\ active' = Len(snaps) + 1

Publish(b) == insert_and_activate(b) /\ doc' = b.doc

mutate(d) ==
  IF d = doc THEN UNCHANGED configVars
  ELSE validate_mutation(d) /\ Publish([doc |-> d, form |-> "canonical"])

NoFault == UNCHANGED faults
Fault(kind) == kind \in FaultKinds /\ faults < MaxFaults /\ faults' = faults + 1

\* the mutated document is invalid, or SQLite refuses the snapshot
mutate_fails(d) ==
  /\ d # doc /\ UNCHANGED configVars
  /\ \/ ~validate_mutation(d) /\ UNCHANGED faults
     \/ validate_mutation(d) /\ Fault("db")

blocked(d) == {s \in doc.secrets \cap values : s \notin d.secrets}

----------------------------------------------------------------------------
(* Requests and locks.                                                      *)

Put(r, t) == req' = [req EXCEPT ![r] = t]
At(r, pc) == req[r].pc = pc
Goto(r, pc) == Put(r, [req[r] EXCEPT !.pc = pc])
Over(r) == Put(r, Blank(req[r].op, "over"))
Release(r) == applyLock' = IF applyLock = r THEN Nobody ELSE applyLock
Return(r) == Over(r) /\ Release(r)
KeepLocks == UNCHANGED <<applyLock, secretOps>>
Rest == UNCHANGED <<late, scenario>>

Ask(r, t) ==
  /\ At(r, "idle") /\ t.op \in scenario
  /\ Put(r, t)
  /\ UNCHANGED <<configVars, values, drift, hostVars>> /\ KeepLocks /\ Rest /\ NoFault

\* the client may quote the generation it last read (If-Match)
AskApply(r) ==
  \E b \in Sources, e \in {0, active} :
    Ask(r, [Served("apply", "builtins") EXCEPT !.src = b, !.exp = e])

AskSkill(r) ==
  \E k \in SkillIds :
    \/ \E c \in Contents, a \in {NoAgent} \cup Agents :
         Ask(r, [Blank("create_skill", "lock") EXCEPT !.k = k, !.c = c, !.a = a])
    \/ \E c \in Contents : Ask(r, [Blank("update_skill", "lock") EXCEPT !.k = k, !.c = c])
    \/ Ask(r, [Blank("rollback", "lock") EXCEPT !.k = k])
    \/ Ask(r, [Blank("delete_skill", "lock") EXCEPT !.k = k])

AskSecret(r) ==
  \E s \in Secrets, op \in {"declare", "undeclare", "set", "clear"} :
    Ask(r, [Blank(op, "secret") EXCEPT !.s = s])

AskConnect(r) ==
  \E h \in Conns, s \in {Literal} \cup Secrets :
    Ask(r, [Blank("connect", "secret") EXCEPT !.h = h, !.s = s])

\* update_agent reads the record before it awaits the skills of agent_host
AskAgent(r) ==
  \E a \in Agents, n \in AgentRecords :
    /\ doc.agents[a] # NoAgent =>
         n.conn = doc.agents[a].conn \/ n.skills = doc.agents[a].skills
    /\ Ask(r, [Served("update_agent", "refs") EXCEPT !.a = a, !.rec = n])

----------------------------------------------------------------------------
(* Calls to agent_host.  A call that fails had no effect, or had its effect *)
(* but the answer was lost, or broke off in the middle of it.               *)

Call(x, k, c) == [k |-> k, c |-> c, call |-> x]

Can(x) ==
  /\ x.k \notin Builtins
  /\ CASE x.call = "create" -> shelf[x.k] = NoDir
       [] x.call = "update" -> Updatable(x.k)
       [] x.call = "delete" -> shelf[x.k] # NoDir

Do(x) ==
  /\ Can(x)
  /\ \/ x.call = "create" /\ Create(x.k, x.c)
     \/ x.call = "update" /\ Update(x.k, x.c)
     \/ x.call = "delete" /\ Delete(x.k)

Break(x) ==
  /\ Can(x)
  /\ IF x.call = "delete" THEN FailDelete(x.k) ELSE FailWrite(x.k)

Succeeds(x) == Do(x) /\ UNCHANGED <<drift, faults>>
Refused(x) == /\ (~Can(x) /\ NoFault) \/ Fault("call")
              /\ UNCHANGED hostVars
Halfway(x) == \/ Fault("reply") /\ Do(x)
              \/ Fault("host") /\ Break(x)
Fails(x) == \/ Refused(x) /\ UNCHANGED drift
            \/ Halfway(x) /\ drift' = "since"

----------------------------------------------------------------------------
(* The skill routes.                                                        *)

referenced(k) == \E a \in Agents : doc.agents[a] # NoAgent /\ k \in doc.agents[a].skills

\* what the handler reads between taking the lock and its first await
acquire(r) ==
  LET t == req[r]
      next == CASE t.op = "apply" -> "prepare"
                [] t.op = "reconcile" -> "list"
                [] t.op = "create_skill" -> "builtins"
                [] OTHER -> "host"
  IN /\ At(r, "lock") /\ applyLock = Nobody
     /\ IF t.op = "delete_skill" /\ referenced(t.k)
        THEN Over(r) /\ UNCHANGED applyLock
        ELSE Put(r, [t EXCEPT !.pc = next, !.prev = doc.skills[t.k]]) /\ applyLock' = r
     /\ UNCHANGED <<configVars, values, secretOps, drift, hostVars>> /\ Rest /\ NoFault

\* agent_host that cannot be reached has no builtin skills
builtin_skill_ids(r) ==
  LET t == req[r]
  IN /\ At(r, "builtins")
     /\ \E known \in {Builtins, {}} :
          /\ IF known = Builtins THEN NoFault ELSE Fault("call")
          /\ CASE t.op = "apply" ->
                    Put(r, [t EXCEPT !.pc = "lock", !.known = known]) /\ UNCHANGED applyLock
               [] OTHER ->
                    IF t.k \in known \/ (t.a # NoAgent /\ doc.agents[t.a] = NoAgent)
                    THEN Return(r) ELSE Goto(r, "host") /\ UNCHANGED applyLock
     /\ UNCHANGED <<configVars, values, secretOps, drift, hostVars>> /\ Rest

\* the files a request gives the skill; a rollback takes them from the history
Given(t) == IF t.op = "rollback" THEN past[t.k] \ {Torn} ELSE {t.c}
HostCall(t, c) ==
  CASE t.op = "create_skill" -> Call("create", t.k, c)
    [] t.op = "delete_skill" -> Call("delete", t.k, NoDir)
    [] OTHER -> Call("update", t.k, c)

SkillStaged(r) ==
  LET t == req[r]
  IN /\ At(r, "host")
     /\ \E c \in Given(t) :
          /\ Succeeds(HostCall(t, c))
          /\ Put(r, [t EXCEPT !.c = c, !.pc = "doc"])
     /\ UNCHANGED <<configVars, values>> /\ KeepLocks /\ Rest

SkillRefused(r) ==
  LET t == req[r]
  IN /\ At(r, "host")
     /\ \/ Given(t) = {} /\ UNCHANGED <<drift, faults, hostVars>>
        \/ \E c \in Given(t) : Fails(HostCall(t, c))
     /\ Return(r)
     /\ UNCHANGED <<configVars, values, secretOps>> /\ Rest

WithSkill(d, k, c) == [d EXCEPT !.skills[k] = c]
NewDoc(t) == IF t.op = "rollback" /\ t.prev = NoDir THEN doc ELSE WithSkill(doc, t.k, t.c)

SkillWritten(r) ==
  LET t == req[r]
  IN /\ At(r, "doc")
     /\ mutate(NewDoc(t))
     /\ IF t.op = "create_skill" /\ t.a # NoAgent
        THEN Goto(r, "enable") /\ UNCHANGED applyLock ELSE Return(r)
     /\ UNCHANGED <<values, secretOps, drift, hostVars>> /\ Rest /\ NoFault

Undoing(t) ==
  IF t.op = "create_skill" THEN <<Call("delete", t.k, NoDir)>>
  ELSE IF t.prev = NoDir THEN <<>>
  ELSE <<Call(IF t.op = "delete_skill" THEN "create" ELSE "update", t.k, t.prev)>>

SkillNotWritten(r) ==
  /\ At(r, "doc")
  /\ mutate_fails(NewDoc(req[r]))
  /\ Put(r, [req[r] EXCEPT !.pc = "undo", !.done = Undoing(req[r])])
  /\ UNCHANGED <<values, drift, hostVars>> /\ KeepLocks /\ Rest

WithAgent(d, a, n) == [d EXCEPT !.agents[a] = n]
Enabled(a, k) == WithAgent(doc, a, [doc.agents[a] EXCEPT !.skills = @ \cup {k}])

add_agent_skill(r) ==
  LET t == req[r]
  IN /\ At(r, "enable")
     /\ \/ doc.agents[t.a] = NoAgent /\ UNCHANGED configVars /\ NoFault
        \/ doc.agents[t.a] # NoAgent /\ mutate(Enabled(t.a, t.k)) /\ NoFault
        \/ doc.agents[t.a] # NoAgent /\ mutate_fails(Enabled(t.a, t.k))
     /\ Return(r)
     /\ UNCHANGED <<values, secretOps, drift, hostVars>> /\ Rest

----------------------------------------------------------------------------
(* Applying a document, and reconciling at start-up.                        *)

conflict(t) == t.exp # 0 /\ active # t.exp

prepare(r) ==
  LET t == req[r]
      ok == /\ validate(t.src.doc, t.known)
            /\ ~conflict(t)
            /\ blocked(t.src.doc) = {}
  IN /\ At(r, "prepare")
     /\ IF ok THEN Goto(r, "list") /\ UNCHANGED applyLock ELSE Return(r)
     /\ UNCHANGED <<configVars, values, secretOps, drift, hostVars>> /\ Rest /\ NoFault

agent_host_user_skills(r) ==
  /\ At(r, "list")
  /\ \/ /\ Put(r, [req[r] EXCEPT !.pc = "stage",
                      !.list = [k \in SkillIds |-> IF k \in Builtins THEN NoDir ELSE shelf[k]]])
        /\ drift' = IF drift = "since" THEN "before" ELSE drift
        /\ UNCHANGED applyLock /\ NoFault
     \/ Fault("call") /\ Return(r) /\ UNCHANGED drift
  /\ UNCHANGED <<configVars, values, secretOps, hostVars>> /\ Rest

Target(t) == IF t.op = "apply" THEN t.src.doc.skills ELSE doc.skills
Staged(t) == {t.done[i].k : i \in DOMAIN t.done}
ToPut(t) == {k \in SkillIds \ Staged(t) : Target(t)[k] # NoDir /\ t.list[k] # Target(t)[k]}
ToDrop(t) == {k \in SkillIds \ Staged(t) : Target(t)[k] = NoDir /\ t.list[k] # NoDir}

\* creations and updates first, then the skills the document does not declare
NextCalls(t) ==
  IF ToPut(t) # {}
  THEN {Call(IF t.list[k] = NoDir THEN "create" ELSE "update", k, Target(t)[k]) : k \in ToPut(t)}
  ELSE {Call("delete", k, NoDir) : k \in ToDrop(t)}

Inverse(t, x) ==
  CASE x.call = "create" -> Call("delete", x.k, NoDir)
    [] x.call = "update" -> Call("update", x.k, t.list[x.k])
    [] x.call = "delete" -> Call("create", x.k, t.list[x.k])

stage_skills(r) ==
  LET t == req[r]
  IN /\ At(r, "stage")
     /\ \E x \in NextCalls(t) :
          \/ Succeeds(x) /\ Put(r, [t EXCEPT !.done = Append(@, Inverse(t, x))])
          \/ Fails(x) /\ Goto(r, "undo")
     /\ UNCHANGED <<configVars, values>> /\ KeepLocks /\ Rest

Known == drift' = IF drift = "before" THEN "no" ELSE drift

StageOver(r) ==
  /\ At(r, "stage") /\ NextCalls(req[r]) = {}
  /\ IF req[r].op = "apply"
     THEN Goto(r, "check") /\ UNCHANGED <<applyLock, drift>>
     ELSE Return(r) /\ Known
  /\ UNCHANGED <<configVars, values, secretOps, hostVars>> /\ Rest /\ NoFault

\* Mutant: commit relies on the check of prepare.
check_secret_removal_skipped(r) ==
  /\ At(r, "check") /\ secretOps = Nobody
  /\ Goto(r, "publish") /\ secretOps' = r
  /\ UNCHANGED <<configVars, values, applyLock, drift, hostVars>> /\ Rest /\ NoFault

check_secret_removal(r) ==
  /\ At(r, "check") /\ secretOps = Nobody
  /\ IF blocked(req[r].src.doc) = {}
     THEN Goto(r, "publish") /\ secretOps' = r
     ELSE Goto(r, "undo") /\ UNCHANGED secretOps
  /\ UNCHANGED <<configVars, values, applyLock, drift, hostVars>> /\ Rest /\ NoFault

\* Mutant: commit relies on the generation check of prepare.
commit_without_generation_check(r) ==
  /\ At(r, "publish")
  /\ Publish(req[r].src)
  /\ secretOps' = Nobody /\ Return(r) /\ Known
  /\ UNCHANGED <<values, hostVars>> /\ Rest /\ NoFault

commit(r) ==
  /\ At(r, "publish") /\ ~conflict(req[r])
  /\ Publish(req[r].src)
  /\ secretOps' = Nobody /\ Return(r) /\ Known
  /\ UNCHANGED <<values, hostVars>> /\ Rest /\ NoFault

\* Mutant: a commit that fails returns without compensating.
commit_fails_without_undo(r) ==
  /\ At(r, "publish")
  /\ \/ conflict(req[r]) /\ NoFault
     \/ ~conflict(req[r]) /\ Fault("db")
  /\ secretOps' = Nobody /\ Return(r)
  /\ UNCHANGED <<configVars, values, drift, hostVars>> /\ Rest

commit_fails(r) ==
  /\ At(r, "publish")
  /\ \/ conflict(req[r]) /\ NoFault
     \/ ~conflict(req[r]) /\ Fault("db")
  /\ secretOps' = Nobody /\ Goto(r, "undo")
  /\ UNCHANGED <<configVars, values, applyLock, drift, hostVars>> /\ Rest

\* best effort, last operation first
compensate_skills(r) ==
  LET t == req[r]
      n == Len(t.done)
  IN /\ At(r, "undo") /\ n > 0
     /\ \/ Succeeds(t.done[n])
        \/ (Refused(t.done[n]) \/ Halfway(t.done[n])) /\ drift' = "since"
     /\ Put(r, [t EXCEPT !.done = SubSeq(@, 1, n - 1)])
     /\ UNCHANGED <<configVars, values>> /\ KeepLocks /\ Rest

UndoOver(r) ==
  /\ At(r, "undo") /\ req[r].done = <<>>
  /\ Return(r)
  /\ UNCHANGED <<configVars, values, secretOps, drift, hostVars>> /\ Rest /\ NoFault
----------------------------------------------------------------------------
(* The routes of secrets, connections, kernel configs, agents and gateways. *)

Returns(r) == Over(r) /\ UNCHANGED <<applyLock, drift, hostVars>> /\ Rest

\* what a route that holds secret_ops finds wrong with its request
Objects(t) ==
  CASE t.op = "declare" -> t.s \in doc.secrets
    [] t.op = "undeclare" ->
         t.s \notin doc.secrets \/ t.s \in values \/ t.s \in secret_references(doc)
    [] t.op = "set" -> t.s \notin doc.secrets
    [] t.op = "clear" -> t.s \notin values
    [] t.op = "connect" -> t.s # Literal /\ t.s \notin doc.secrets

lock_secret_ops(r) ==
  LET t == req[r]
  IN /\ At(r, "secret") /\ secretOps = Nobody
     /\ IF Objects(t) THEN Over(r) /\ UNCHANGED secretOps
        ELSE Goto(r, "do") /\ secretOps' = r
     /\ UNCHANGED <<configVars, values, applyLock, drift, hostVars>> /\ Rest /\ NoFault

SecretDoc(t) ==
  CASE t.op = "declare" -> [doc EXCEPT !.secrets = @ \cup {t.s}]
    [] t.op = "undeclare" -> [doc EXCEPT !.secrets = @ \ {t.s}]
    [] t.op = "connect" -> [doc EXCEPT !.holds[t.h] = t.s]
    [] OTHER -> doc

SecretValues(t) ==
  CASE t.op = "set" -> values \cup {t.s}
    [] t.op = "clear" -> values \ {t.s}
    [] OTHER -> values

SecretDone(r) ==
  LET t == req[r]
  IN /\ At(r, "do")
     /\ mutate(SecretDoc(t)) /\ values' = SecretValues(t)
     /\ secretOps' = Nobody /\ Returns(r) /\ NoFault

SecretFails(r) ==
  LET t == req[r]
  IN /\ At(r, "do")
     /\ \/ mutate_fails(SecretDoc(t))
        \/ SecretDoc(t) = doc /\ Fault("db") /\ UNCHANGED configVars
     /\ UNCHANGED values
     /\ secretOps' = Nobody /\ Returns(r)

\* a request whose whole effect is one mutation of the document it reads then
Once(r, op, d) ==
  /\ At(r, "idle") /\ op \in scenario
  /\ \/ mutate(d) /\ NoFault
     \/ mutate_fails(d)
  /\ Put(r, Blank(op, "over"))
  /\ UNCHANGED <<applyLock, drift, hostVars, values, secretOps>> /\ Rest

delete_connection(r) ==
  \E h \in Conns : doc.holds[h] # Absent /\ Once(r, "disconnect", [doc EXCEPT !.holds[h] = Absent])

\* an upsert takes no secret lock: validate_mutation alone refuses a dangling secretRef
write_kernel_config(r) ==
  \E h \in Kernels, s \in {Absent, Literal} \cup Secrets :
    Once(r, "kernel", [doc EXCEPT !.holds[h] = s])

delete_agent(r) ==
  \E a \in Agents : doc.agents[a] # NoAgent /\ Once(r, "delete_agent", WithAgent(doc, a, NoAgent))

write_gateway(r) ==
  \E g \in Gateways, a \in {Absent} \cup Agents :
    Once(r, "gateway", [doc EXCEPT !.gateways[g] = a])

validate_agent_skill_refs(r) ==
  LET t == req[r]
      new == ~(t.seen.agents[t.a] # NoAgent /\ t.seen.agents[t.a].skills = t.rec.skills)
      ok == t.rec.skills \subseteq UserSkills(doc) \cup Builtins
  IN /\ At(r, "refs")
     /\ \/ (IF new /\ ~ok THEN Over(r) ELSE Goto(r, "write")) /\ NoFault
        \/ new /\ t.rec.skills # {} /\ Fault("call") /\ Goto(r, "write")
     /\ UNCHANGED <<configVars, values, drift, hostVars>> /\ KeepLocks /\ Rest
\* the record read first is written back as a whole
update_agent(r) ==
  LET t == req[r]
      gone == (t.seen.agents[t.a] = NoAgent) # (doc.agents[t.a] = NoAgent)
  IN /\ At(r, "write")
     /\ \/ gone /\ UNCHANGED configVars /\ NoFault
        \/ ~gone /\ mutate(WithAgent(doc, t.a, t.rec)) /\ NoFault
        \/ ~gone /\ mutate_fails(WithAgent(doc, t.a, t.rec))
     /\ UNCHANGED <<values, secretOps>> /\ Returns(r)

----------------------------------------------------------------------------
(* Clients that hang up, and the process that dies.                         *)

\* the call a task is waiting for
InFlight(t) ==
  CASE t.pc = "stage" -> NextCalls(t)
    [] t.pc = "undo" /\ t.done # <<>> -> {t.done[Len(t.done)]}
    [] t.pc = "host" -> {HostCall(t, c) : c \in Given(t)}
    [] OTHER -> {}

Working == {"stage", "host", "undo"}
Pending(r) == {{}} \cup {{x} : x \in InFlight(req[r])}

\* axum drops the future of a request whose client is gone, at any of its awaits
Abandon(r) ==
  /\ req[r].pc \in {"builtins", "lock", "list", "refs"} \cup Working
  /\ Fault("abandon") /\ Return(r)
  /\ \E x \in Pending(r) : late' = late \cup x
  /\ drift' = IF req[r].pc \in Working THEN "since" ELSE drift
  /\ UNCHANGED <<configVars, values, secretOps, scenario, hostVars>>

LateCall ==
  \E x \in late :
    /\ late' = late \ {x}
    /\ \/ Do(x) /\ drift' = "since"
       \/ ~Can(x) /\ UNCHANGED <<hostVars, drift>>
    /\ UNCHANGED <<configVars, values, applyLock, secretOps, req, scenario, faults>>

\* the service comes back with the active snapshot and reconciles
Crash ==
  /\ Fault("crash")
  /\ doc' = snaps[active].doc /\ UNCHANGED <<snaps, active, values, hostVars, scenario>>
  /\ applyLock' = Nobody /\ secretOps' = Nobody
  /\ req' = [r \in Tasks |->
               IF r = Startup THEN Blank("reconcile", "lock")
               ELSE IF At(r, "idle") THEN req[r] ELSE Blank(req[r].op, "over")]
  /\ \E x \in {{}} \cup UNION {Pending(r) : r \in Tasks} : late' = late \cup x
  /\ drift' = IF applyLock = Nobody THEN drift ELSE "since"

Reconciling(r) ==
  \/ acquire(r) \/ agent_host_user_skills(r) \/ stage_skills(r) \/ StageOver(r)
  \/ compensate_skills(r) \/ UndoOver(r)

Serving(r) ==
  \/ AskApply(r) \/ AskSkill(r) \/ AskSecret(r) \/ AskConnect(r) \/ AskAgent(r)
  \/ builtin_skill_ids(r) \/ SkillStaged(r) \/ SkillRefused(r) \/ SkillWritten(r)
  \/ SkillNotWritten(r) \/ add_agent_skill(r)
  \/ prepare(r) \/ check_secret_removal(r) \/ commit(r) \/ commit_fails(r)
  \/ lock_secret_ops(r) \/ SecretDone(r) \/ SecretFails(r)
  \/ delete_connection(r) \/ write_kernel_config(r) \/ delete_agent(r) \/ write_gateway(r)
  \/ validate_agent_skill_refs(r) \/ update_agent(r) \/ Abandon(r)

Next ==
  \/ \E r \in Tasks : Reconciling(r)
  \/ \E r \in Requests : Serving(r)
  \/ LateCall \/ Crash

Spec == Init /\ [][Next]_vars

----------------------------------------------------------------------------
(* Properties.                                                              *)

\* Every stored secret value belongs to a secret the document declares, whatever set, clear,
\* undeclare and apply do at the same time (state.rs: secret_ops serialises them).
NoOrphanValue == values \subseteq doc.secrets

\* Every secretRef, connection and agent the active document refers to is declared in it, also
\* when records read before an await are written back after it (mutate validates the result).
RefsResolve == validate_mutation(doc)

\* What is active in memory is what the database would restore after a restart, also when a
\* document that was active before becomes active again.
SnapshotIsDocument == active # 0 /\ doc = snaps[active].doc

\* Document, secret values and snapshots agree with each other at every moment.
StoresAgree == NoOrphanValue /\ RefsResolve /\ SnapshotIsDocument

\* While no task holds apply_lock and no call to agent_host had an effect its caller does not
\* know of, the user skills of agent_host are exactly those of the document: a refused apply
\* has taken back what it staged.
HostFollowsDocument ==
  applyLock = Nobody /\ drift = "no" =>
    \A k \in SkillIds \ Builtins : shelf[k] = doc.skills[k]

\* An apply that quoted a generation (If-Match) replaces the document of that generation and no
\* other, although mutations keep arriving while it stages skills.
IfMatchNotClobbered ==
  [][\A r \in Requests : commit(r) /\ req[r].exp # 0 => doc = req[r].seen]_vars

\* "A skill referenced by any authored agent cannot be deleted; the reference would dangle in
\* the desired document" (api.rs, delete_skill).  No run checks it: it fails, for update_agent
\* checks the skills it enables, awaits agent_host and writes without apply_lock.
NoDanglingSkill == validate_agents(doc, Builtins, TRUE)
=============================================================================
