-------------------------- MODULE ConfigApply_proofs --------------------------
(***************************************************************************)
(* StoresAgree, HostFollowsDocument and IfMatchNotClobbered, of            *)
(* ConfigApply, for every number of requests, skills, secrets, documents   *)
(* and faults.                                                             *)
(*                                                                         *)
(* secret_ops protects what was checked of the secrets until it is used    *)
(* (SecretOK); apply_lock protects the skills: whoever holds it knows what *)
(* the shelf of agent_host holds, unless some call had an effect that its  *)
(* caller does not know of, and can take its own calls back (Restores).    *)
(***************************************************************************)
EXTENDS ConfigApply, TLAPS

----------------------------------------------------------------------------
(* The invariant.                                                          *)

SkillOps == {"create_skill", "update_skill", "rollback", "delete_skill"}
ListOps == {"apply", "reconcile"}
SecretOps == {"declare", "undeclare", "set", "clear", "connect"}

\* what is asked of agent_host is sound: only a deletion gives no files
SoundCall(x) == x \in Calls /\ (x.call # "delete" => x.c # NoDir)

\* which operation is at which place, and what it has then
StageOK(t) ==
  /\ t.pc \in {"prepare", "check", "publish"} => t.op = "apply"
  /\ t.pc \in {"list", "stage"} => t.op \in ListOps
  /\ t.pc \in {"host", "doc"} => t.op \in SkillOps
  /\ t.pc = "builtins" => t.op \in {"apply", "create_skill"}
  /\ t.pc = "enable" => t.op = "create_skill" /\ t.a \in Agents
  /\ t.pc \in {"lock", "undo"} => t.op \in ListOps \cup SkillOps
  /\ t.pc \in {"secret", "do"} => /\ t.op \in SecretOps
                                  /\ t.op # "connect" => t.s \in Secrets
                                  /\ t.op = "connect" => t.s \in {Literal} \cup Secrets
  /\ t.pc \in {"refs", "write"} => t.op = "update_agent" /\ t.a \in Agents /\ t.rec \in AgentRecords
  /\ t.op = "apply" /\ t.pc \notin {"idle", "over"} => t.src \in Bytes
  /\ t.pc \in {"builtins", "lock", "prepare", "list", "host", "doc"} => t.done = <<>>
  /\ t.op \in {"create_skill", "update_skill"} /\ t.pc \in {"builtins", "lock", "host"} => t.c # NoDir
  /\ t.op = "delete_skill" => t.c = NoDir
  /\ \A i \in 1..Len(t.done) : SoundCall(t.done[i])

\* the tasks that hold apply_lock, and those that hold secret_ops
Locked(t) ==
  \/ t.pc \in {"prepare", "list", "stage", "check", "publish", "undo", "host", "doc", "enable"}
  \/ t.pc = "builtins" /\ t.op = "create_skill"
Guarded(t) == t.pc \in {"publish", "do"}

\* an apply past its preparation has a valid document
ValidOK(t) == t.op = "apply" /\ t.pc \in {"list", "stage", "check", "publish"} => validate(t.src.doc, t.known)

\* an apply that quoted a generation has seen the document of that generation
MatchOK(t) ==
  t.op = "apply" /\ t.pc \notin {"idle", "over"} /\ t.exp # 0 =>
    t.exp \in 1..Len(snaps) /\ snaps[t.exp].doc = t.seen

\* what was checked under secret_ops is still so
SecretOK(t) ==
  /\ t.pc = "do" /\ t.op = "set" => t.s \in doc.secrets
  /\ t.pc = "do" /\ t.op = "undeclare" => t.s \notin values
  /\ t.pc = "publish" => blocked(t.src.doc) = {}

UserIds == SkillIds \ Builtins
SameSkills == \A k \in UserIds : shelf[k] = doc.skills[k]

\* the shelf a task started from, and what taking back its calls restores
Base(t) == IF t.op \in ListOps THEN t.list ELSE doc.skills
\* no call since then had an effect that is not known
Trusted(t) == drift = "no" \/ (drift = "before" /\ t.op \in ListOps)
Restores(t) ==
  /\ \A i \in 1..Len(t.done) :
       /\ t.done[i].k \in UserIds
       /\ \A j \in 1..Len(t.done) : t.done[i].k = t.done[j].k => i = j
  /\ Trusted(t) =>
       /\ \A k \in UserIds \ Staged(t) : shelf[k] = Base(t)[k]
       /\ \A i \in 1..Len(t.done) :
            Base(t)[t.done[i].k] = IF t.done[i].call = "delete" THEN NoDir ELSE t.done[i].c
  /\ drift = "no" => \A k \in UserIds : Base(t)[k] = doc.skills[k]

HostOK(t) ==
  /\ Locked(t) /\ t.pc \in {"builtins", "prepare", "list", "host", "enable"} /\ drift = "no" => SameSkills
  /\ t.pc \in {"host", "doc"} \/ (t.pc = "builtins" /\ t.op = "create_skill") => t.prev = doc.skills[t.k]
  /\ t.pc = "doc" => t.k \in UserIds
  /\ t.pc = "doc" /\ drift = "no" =>
       /\ shelf[t.k] = t.c /\ (t.prev = NoDir <=> t.op = "create_skill")
       /\ \A k \in UserIds \ {t.k} : shelf[k] = doc.skills[k]
  /\ t.pc \in {"stage", "check", "publish", "undo"} => Restores(t)
  /\ t.pc \in {"stage", "check", "publish"} /\ Trusted(t) =>
       \A k \in UserIds \cap Staged(t) : shelf[k] = Target(t)[k]
  /\ t.pc \in {"check", "publish"} => NextCalls(t) = {}

TasksInv == \A r \in Tasks : StageOK(req[r]) /\ ValidOK(req[r]) /\ MatchOK(req[r])
                             /\ SecretOK(req[r]) /\ HostOK(req[r])
LockInv == \A r \in Tasks : (applyLock = r <=> Locked(req[r])) /\ (secretOps = r <=> Guarded(req[r]))
LateInv == \A x \in late : SoundCall(x)

IndInv == TypeOK /\ TasksInv /\ LockInv /\ LateInv /\ StoresAgree /\ HostFollowsDocument

----------------------------------------------------------------------------
(* The shape of a step: one task's record is replaced.                     *)

LEMMA ReqAt ==
  ASSUME NEW F, NEW G, NEW r \in Tasks, NEW t, DOMAIN F = Tasks, G = [F EXCEPT ![r] = t]
  PROVE  G[r] = t /\ \A q \in Tasks : q # r => G[q] = F[q]
OBVIOUS

\* Generations are only added.
Grows == Len(snaps) <= Len(snaps') /\ \A g \in 1..Len(snaps) : snaps'[g] = snaps[g]

LEMMA MatchStays ==
  ASSUME NEW t \in Tasked, MatchOK(t), snaps \in Seq(Bytes), snaps' \in Seq(Bytes), Grows
  PROVE  MatchOK(t)'
BY DEF MatchOK, Grows

LEMMA SecretStays ==
  ASSUME NEW t, SecretOK(t), doc'.secrets = doc.secrets, values' = values
  PROVE  SecretOK(t)'
BY DEF SecretOK, blocked

LEMMA HostStays ==
  ASSUME NEW t, HostOK(t), shelf' = shelf, doc'.skills = doc.skills, drift' = drift
  PROVE  HostOK(t)'
<1>1. Target(t)' = Target(t) /\ Base(t)' = Base(t)
  BY DEF Target, Base
<1>2. ToPut(t)' = ToPut(t) /\ ToDrop(t)' = ToDrop(t)
  BY <1>1 DEF ToPut, ToDrop
<1>3. NextCalls(t)' = NextCalls(t)
  BY <1>1, <1>2 DEF NextCalls
<1>4. Restores(t) => Restores(t)'
  BY <1>1 DEF Restores, Trusted
<1> QED
  BY <1>1, <1>3, <1>4 DEF HostOK, Trusted, SameSkills

\* A task that holds neither lock has nothing to protect.
LEMMA HostFree == ASSUME NEW t, ~Locked(t) PROVE HostOK(t)
BY DEF HostOK, Locked
LEMMA HostFreeNext == ASSUME NEW t, ~Locked(t) PROVE HostOK(t)'
BY DEF HostOK, Locked
LEMMA SecretFree == ASSUME NEW t, ~Guarded(t) PROVE SecretOK(t)
BY DEF SecretOK, Guarded
LEMMA SecretFreeNext == ASSUME NEW t, ~Guarded(t) PROVE SecretOK(t)'
BY DEF SecretOK, Guarded

\* One task moves; secrets and values change under secret_ops only, the shelf and the skills
\* of the document under apply_lock only.  What is left to show is what holds of that task.
LEMMA TaskStep ==
  ASSUME IndInv, NEW r \in Tasks, NEW t \in Tasked, req' = [req EXCEPT ![r] = t],
         doc' \in Docs, snaps' \in Seq(Bytes), active' \in 0..Len(snaps'), values' \subseteq Secrets,
         applyLock' \in Tasks \cup {Nobody}, secretOps' \in Tasks \cup {Nobody},
         late' \subseteq Calls, drift' \in {"no", "before", "since"},
         scenario' = scenario, faults' \in 0..MaxFaults, HostTypeOK',
         LateInv', StoresAgree', HostFollowsDocument', Grows,
         StageOK(t), ValidOK(t), MatchOK(t)', SecretOK(t)', HostOK(t)',
         applyLock' = r <=> Locked(t), secretOps' = r <=> Guarded(t),
         \A q \in Tasks : q # r => (applyLock' = q <=> applyLock = q) /\ (secretOps' = q <=> secretOps = q),
         secretOps = r \/ (doc'.secrets = doc.secrets /\ values' = values),
         applyLock = r \/ (shelf' = shelf /\ doc'.skills = doc.skills /\ drift' = drift)
  PROVE  IndInv'
<1>1. req'[r] = t /\ \A q \in Tasks : q # r => req'[q] = req[q]
  BY ReqAt, Zenon DEF IndInv, TypeOK
<1>2. TypeOK'
  <2>1. req' \in [Tasks -> Tasked]
    BY DEF IndInv, TypeOK
  <2> QED
    BY <2>1 DEF IndInv, TypeOK
<1>3. LockInv'
  BY <1>1 DEF IndInv, LockInv
<1>4. ASSUME NEW q \in Tasks
      PROVE  StageOK(req'[q]) /\ ValidOK(req'[q]) /\ (MatchOK(req[q]))' /\ (SecretOK(req[q]))' /\ (HostOK(req[q]))'
  <2>1. PICK u : u = req'[q]
    OBVIOUS
  <2>2. StageOK(u) /\ ValidOK(u) /\ MatchOK(u)' /\ SecretOK(u)' /\ HostOK(u)'
    <3>1. CASE q = r
      BY <1>1, <2>1, <3>1
    <3>2. CASE q # r
      <4>1. u = req[q] /\ u \in Tasked
        BY <1>1, <2>1, <3>2 DEF IndInv, TypeOK
      <4>2. StageOK(u) /\ ValidOK(u) /\ MatchOK(u) /\ SecretOK(u) /\ HostOK(u)
        BY <4>1 DEF IndInv, TasksInv
      <4>3. MatchOK(u)'
        BY <4>1, <4>2, MatchStays DEF IndInv, TypeOK
      <4>4. SecretOK(u)'
        <5>1. CASE secretOps = r
          BY <3>2, <4>1, <5>1, SecretFreeNext DEF IndInv, LockInv
        <5>2. CASE doc'.secrets = doc.secrets /\ values' = values
          BY <4>2, <5>2, SecretStays
        <5> QED
          BY <5>1, <5>2
      <4>5. HostOK(u)'
        <5>1. CASE applyLock = r
          BY <3>2, <4>1, <5>1, HostFreeNext DEF IndInv, LockInv
        <5>2. CASE shelf' = shelf /\ doc'.skills = doc.skills /\ drift' = drift
          BY <4>2, <5>2, HostStays
        <5> QED
          BY <5>1, <5>2
      <4> QED
        BY <4>2, <4>3, <4>4, <4>5
    <3> QED
      BY <3>1, <3>2
  <2>3. MatchOK(u)' => (MatchOK(req[q]))'
    BY <2>1 DEF MatchOK
  <2>4. SecretOK(u)' => (SecretOK(req[q]))'
    BY <2>1 DEF SecretOK, blocked
  <2>5. HostOK(u)' => (HostOK(req[q]))'
    BY <2>1, Zenon
  <2> QED
    BY <2>1, <2>2, <2>3, <2>4, <2>5
<1>5. TasksInv'
  BY <1>4 DEF TasksInv
<1> QED
  BY <1>2, <1>3, <1>5 DEF IndInv

\* The same when neither the stores nor agent_host change.
LEMMA QuietStep ==
  ASSUME IndInv, NEW r \in Tasks, NEW t \in Tasked, req' = [req EXCEPT ![r] = t],
         UNCHANGED <<configVars, values, hostVars, drift, late, scenario>>,
         applyLock' \in Tasks \cup {Nobody}, secretOps' \in Tasks \cup {Nobody}, faults' \in 0..MaxFaults,
         StageOK(t), ValidOK(t), MatchOK(t), SecretOK(t), HostOK(t),
         applyLock' = r <=> Locked(t), secretOps' = r <=> Guarded(t),
         \A q \in Tasks : q # r => (applyLock' = q <=> applyLock = q) /\ (secretOps' = q <=> secretOps = q),
         applyLock' = Nobody /\ applyLock = r /\ drift = "no" => SameSkills
  PROVE  IndInv'
<1>1. /\ doc' = doc /\ snaps' = snaps /\ active' = active /\ values' = values /\ shelf' = shelf /\ past' = past
      /\ drift' = drift /\ late' = late /\ scenario' = scenario
  BY DEF configVars, hostVars
<1>2. MatchOK(t)' /\ SecretOK(t)' /\ HostOK(t)'
  <2>1. Grows /\ snaps \in Seq(Bytes)
    BY <1>1 DEF Grows, IndInv, TypeOK
  <2> QED
    BY <1>1, <2>1, MatchStays, SecretStays, HostStays
<1>3. LateInv' /\ StoresAgree'
  <2>1. LateInv'
    BY <1>1 DEF IndInv, LateInv
  <2>2. StoresAgree'
    BY <1>1 DEF IndInv, StoresAgree, NoOrphanValue, RefsResolve, SnapshotIsDocument
  <2> QED
    BY <2>1, <2>2
<1>4. HostFollowsDocument'
  <2>1. applyLock' = Nobody => applyLock \in {Nobody, r}
    BY DEF IndInv, TypeOK
  <2> QED
    BY <1>1, <2>1 DEF IndInv, HostFollowsDocument, SameSkills, UserIds
<1>5. /\ doc' \in Docs /\ snaps' \in Seq(Bytes) /\ active' \in 0..Len(snaps') /\ values' \subseteq Secrets
      /\ late' \subseteq Calls /\ drift' \in {"no", "before", "since"} /\ HostTypeOK' /\ Grows
  BY <1>1 DEF IndInv, TypeOK, HostTypeOK, Grows
<1> QED
  BY <1>1, <1>2, <1>3, <1>4, <1>5, TaskStep

----------------------------------------------------------------------------
(* Records.                                                                *)

LEMMA BlankTyped ==
  ASSUME NEW op \in Ops, NEW pc \in Pcs
  PROVE  /\ Blank(op, pc) \in Tasked /\ Blank(op, pc).op = op /\ Blank(op, pc).pc = pc
         /\ Blank(op, pc).done = <<>> /\ Blank(op, pc).c = NoDir /\ Blank(op, pc).exp = 0
<1> DEFINE k0 == CHOOSE k \in SkillIds : TRUE
           h0 == CHOOSE h \in Holders : TRUE
           d0 == CHOOSE d \in FirstDocs : TRUE
           l0 == [k \in SkillIds |-> NoDir]
<1>1. k0 \in SkillIds /\ h0 \in Holders /\ d0 \in FirstDocs
  BY ConfigAssumption, Zenon
<1>2. d0 \in Docs
  BY <1>1, ConfigAssumption
<1>3. l0 \in [SkillIds -> Dirs] /\ NoDir \in Dirs
  BY SkillHostAssumption
<1>4. <<>> \in Seq(Calls)
  OBVIOUS
<1>5. Blank(op, pc) =
        [k |-> k0, h |-> h0, a |-> NoAgent, c |-> NoDir, op |-> op, pc |-> pc, src |-> NoSource, exp |-> 0,
         seen |-> d0, known |-> {}, list |-> l0, done |-> <<>>, prev |-> NoDir, rec |-> NoAgent, s |-> Absent]
  BY DEF Blank
<1> HIDE DEF k0, h0, d0, l0
<1> QED
  BY <1>1, <1>2, <1>3, <1>4, <1>5 DEF Tasked

\* A task that is over asks for nothing.
LEMMA OverOK ==
  ASSUME NEW op \in Ops
  PROVE  \E t \in Tasked :
           /\ t = Blank(op, "over") /\ t.pc = "over"
           /\ StageOK(t) /\ ValidOK(t) /\ MatchOK(t) /\ MatchOK(t)'
           /\ SecretOK(t) /\ SecretOK(t)' /\ HostOK(t) /\ HostOK(t)'
           /\ ~Locked(t) /\ ~Guarded(t)
<1>1. "over" \in Pcs
  BY DEF Pcs
<1>2. PICK t \in Tasked : t = Blank(op, "over") /\ t.pc = "over" /\ t.done = <<>> /\ t.c = NoDir
  BY <1>1, BlankTyped
<1>3. ~Locked(t) /\ ~Guarded(t)
  BY <1>2 DEF Locked, Guarded
<1>4. StageOK(t) /\ ValidOK(t) /\ MatchOK(t) /\ MatchOK(t)'
  BY <1>2 DEF StageOK, ValidOK, MatchOK
<1> QED
  BY <1>2, <1>3, <1>4, HostFree, HostFreeNext, SecretFree, SecretFreeNext

LEMMA Typed == ASSUME IndInv, NEW r \in Tasks PROVE req[r] \in Tasked /\ req[r].op \in Ops
BY DEF IndInv, TypeOK, Tasked

\* A handler that returns with agent_host as it was.
LEMMA ReturnQuiet ==
  ASSUME IndInv, NEW r \in Tasks, Return(r), ~Guarded(req[r]), secretOps' = secretOps, faults' \in 0..MaxFaults,
         UNCHANGED <<configVars, values, hostVars, drift, late, scenario>>,
         Locked(req[r]) /\ drift = "no" => SameSkills
  PROVE  IndInv'
<1>1. PICK t \in Tasked :
           /\ t = Blank(req[r].op, "over") /\ t.pc = "over"
           /\ StageOK(t) /\ ValidOK(t) /\ MatchOK(t) /\ SecretOK(t) /\ HostOK(t) /\ ~Locked(t) /\ ~Guarded(t)
  BY OverOK, Typed
<1>2. req' = [req EXCEPT ![r] = t] /\ applyLock' = IF applyLock = r THEN Nobody ELSE applyLock
  BY <1>1 DEF Return, Over, Put, Release
<1>3. Nobody \notin Tasks
  BY ConfigAssumption DEF Tasks
<1>4. (applyLock = r <=> Locked(req[r])) /\ secretOps # r
      /\ applyLock \in Tasks \cup {Nobody} /\ secretOps \in Tasks \cup {Nobody}
  BY DEF IndInv, LockInv, TypeOK
<1> QED
  BY <1>1, <1>2, <1>3, <1>4, QuietStep

\* The same of a handler that holds neither lock.
LEMMA OverQuiet ==
  ASSUME IndInv, NEW r \in Tasks, Over(r), ~Locked(req[r]), ~Guarded(req[r]),
         applyLock' = applyLock, secretOps' = secretOps, faults' \in 0..MaxFaults,
         UNCHANGED <<configVars, values, hostVars, drift, late, scenario>>
  PROVE  IndInv'
<1>1. applyLock # r
  BY DEF IndInv, LockInv
<1>2. Return(r)
  BY <1>1 DEF Return, Release
<1> QED
  BY <1>2, ReturnQuiet

\* A handler that goes on.
LEMMA GotoTyped ==
  ASSUME IndInv, NEW r \in Tasks, NEW pc \in Pcs, Goto(r, pc)
  PROVE  \E t \in Tasked :
           /\ t = [req[r] EXCEPT !.pc = pc] /\ req' = [req EXCEPT ![r] = t] /\ t.pc = pc
           /\ t.op = req[r].op /\ t.src = req[r].src /\ t.exp = req[r].exp /\ t.seen = req[r].seen
           /\ t.known = req[r].known /\ t.list = req[r].list /\ t.done = req[r].done /\ t.k = req[r].k
           /\ t.c = req[r].c /\ t.a = req[r].a /\ t.prev = req[r].prev /\ t.rec = req[r].rec /\ t.s = req[r].s
           /\ t.h = req[r].h
<1>1. req[r] \in Tasked
  BY DEF IndInv, TypeOK
<1>2. PICK t \in Tasked : t = [req[r] EXCEPT !.pc = pc]
  BY <1>1 DEF Tasked
<1>3. req' = [req EXCEPT ![r] = t]
  BY <1>2 DEF Goto, Put
<1> QED
  BY <1>1, <1>2, <1>3 DEF Tasked

----------------------------------------------------------------------------
(* Steps of one handler that change neither the stores nor agent_host.     *)

\* A request that arrives holds no lock.
LEMMA AskStep ==
  ASSUME IndInv, NEW r \in Tasks, NEW t \in Tasked, Ask(r, t), StageOK(t), ValidOK(t), MatchOK(t),
         ~Locked(t), ~Guarded(t)
  PROVE  IndInv'
<1>1. ~Locked(req[r]) /\ ~Guarded(req[r])
  BY DEF Ask, At, Locked, Guarded
<1>2. applyLock # r /\ secretOps # r
  BY <1>1 DEF IndInv, LockInv
<1>3. SecretOK(t) /\ HostOK(t)
  BY HostFree, SecretFree
<1>4. /\ req' = [req EXCEPT ![r] = t]
      /\ UNCHANGED <<configVars, values, hostVars, drift, late, scenario>>
      /\ applyLock' = applyLock /\ secretOps' = secretOps /\ faults' = faults
  BY DEF Ask, Put, KeepLocks, Rest, NoFault
<1>5. applyLock' \in Tasks \cup {Nobody} /\ secretOps' \in Tasks \cup {Nobody} /\ faults' \in 0..MaxFaults
  BY <1>4 DEF IndInv, TypeOK
<1> QED
  BY <1>2, <1>3, <1>4, <1>5, QuietStep

LEMMA Step_AskApply == ASSUME IndInv, NEW r \in Tasks, AskApply(r) PROVE IndInv'
<1>1. PICK b \in Sources, e \in {0, active} :
        Ask(r, [Served("apply", "builtins") EXCEPT !.src = b, !.exp = e])
  BY DEF AskApply
<1>2. doc \in Docs /\ e \in Nat /\ b \in Bytes
  BY ConfigAssumption DEF IndInv, TypeOK
<1>3. PICK u \in Tasked : u = Served("apply", "builtins") /\ u.op = "apply" /\ u.pc = "builtins" /\ u.done = <<>>
                          /\ u.seen = doc
  <2>1. PICK v \in Tasked : v = Blank("apply", "builtins") /\ v.op = "apply" /\ v.pc = "builtins" /\ v.done = <<>>
    BY BlankTyped DEF Ops, Pcs
  <2>2. PICK w : w = [v EXCEPT !.seen = doc]
    OBVIOUS
  <2>3. w \in Tasked
    BY <1>2, <2>1, <2>2 DEF Tasked
  <2>4. w.op = v.op /\ w.pc = v.pc /\ w.done = v.done /\ w.seen = doc
    BY <2>1, <2>2 DEF Tasked
  <2> QED
    BY <2>1, <2>2, <2>3, <2>4 DEF Served
<1>4. PICK t \in Tasked : t = [u EXCEPT !.src = b, !.exp = e]
                          /\ t.op = "apply" /\ t.pc = "builtins" /\ t.done = <<>> /\ t.seen = doc
                          /\ t.src = b /\ t.exp = e
  <2>1. PICK w : w = [u EXCEPT !.src = b, !.exp = e]
    OBVIOUS
  <2>2. w \in Tasked
    BY <1>2, <1>3, <2>1 DEF Tasked
  <2>3. w.op = "apply" /\ w.pc = "builtins" /\ w.done = <<>> /\ w.seen = doc /\ w.src = b /\ w.exp = e
    BY <1>3, <2>1 DEF Tasked
  <2> QED
    BY <2>1, <2>2, <2>3
<1>5. Ask(r, t)
  BY <1>1, <1>3, <1>4
<1>6. StageOK(t) /\ ValidOK(t) /\ ~Locked(t) /\ ~Guarded(t)
  BY <1>2, <1>4 DEF StageOK, ValidOK, Locked, Guarded
<1>7. MatchOK(t)
  BY <1>4 DEF MatchOK, IndInv, TypeOK, StoresAgree, SnapshotIsDocument
<1> QED
  BY <1>5, <1>6, <1>7, AskStep

LEMMA Step_AskSkill == ASSUME IndInv, NEW r \in Tasks, AskSkill(r) PROVE IndInv'
<1>1. PICK k \in SkillIds :
    \/ \E c \in Contents, a \in {NoAgent} \cup Agents :
         Ask(r, [Blank("create_skill", "lock") EXCEPT !.k = k, !.c = c, !.a = a])
    \/ \E c \in Contents : Ask(r, [Blank("update_skill", "lock") EXCEPT !.k = k, !.c = c])
    \/ Ask(r, [Blank("rollback", "lock") EXCEPT !.k = k])
    \/ Ask(r, [Blank("delete_skill", "lock") EXCEPT !.k = k])
  BY DEF AskSkill
<1>2. ASSUME NEW op \in SkillOps
      PROVE  \E v \in Tasked : v = Blank(op, "lock") /\ v.op = op /\ v.pc = "lock" /\ v.done = <<>> /\ v.c = NoDir
  BY BlankTyped DEF Ops, Pcs, SkillOps
<1>3. ASSUME NEW t \in Tasked, t.pc = "lock", t.op \in SkillOps, t.done = <<>>,
             t.op \in {"create_skill", "update_skill"} => t.c # NoDir, t.op = "delete_skill" => t.c = NoDir,
             Ask(r, t)
      PROVE  IndInv'
  <2>1. StageOK(t) /\ ValidOK(t) /\ ~Locked(t) /\ ~Guarded(t) /\ MatchOK(t)
    BY <1>3 DEF StageOK, ValidOK, Locked, Guarded, MatchOK, SkillOps
  <2> QED
    BY <1>3, <2>1, AskStep
<1>4. CASE \E c \in Contents, a \in {NoAgent} \cup Agents :
             Ask(r, [Blank("create_skill", "lock") EXCEPT !.k = k, !.c = c, !.a = a])
  <2>1. PICK c \in Contents, a \in {NoAgent} \cup Agents :
             Ask(r, [Blank("create_skill", "lock") EXCEPT !.k = k, !.c = c, !.a = a])
    BY <1>4
  <2>2. PICK v \in Tasked : v = Blank("create_skill", "lock") /\ v.op = "create_skill" /\ v.pc = "lock" /\ v.done = <<>>
    BY <1>2 DEF SkillOps
  <2>3. PICK t \in Tasked : t = [v EXCEPT !.k = k, !.c = c, !.a = a] /\ t.op = "create_skill" /\ t.pc = "lock" /\ t.done = <<>> /\ t.c = c
    <3>1. PICK w : w = [v EXCEPT !.k = k, !.c = c, !.a = a]
      OBVIOUS
    <3>2. w \in Tasked
      BY <3>1, <2>2, ConfigAssumption DEF Tasked
    <3>3. w.op = "create_skill" /\ w.pc = "lock" /\ w.done = <<>> /\ w.c = c
      BY <3>1, <2>2, ConfigAssumption DEF Tasked
    <3> QED
      BY <3>1, <3>2, <3>3
  <2>4. Ask(r, t)
    BY <2>1, <2>2, <2>3
  <2> QED
    BY <1>3, <2>3, <2>4, ConfigAssumption DEF SkillOps
<1>5. CASE \E c \in Contents : Ask(r, [Blank("update_skill", "lock") EXCEPT !.k = k, !.c = c])
  <2>1. PICK c \in Contents : Ask(r, [Blank("update_skill", "lock") EXCEPT !.k = k, !.c = c])
    BY <1>5
  <2>2. PICK v \in Tasked : v = Blank("update_skill", "lock") /\ v.op = "update_skill" /\ v.pc = "lock" /\ v.done = <<>>
    BY <1>2 DEF SkillOps
  <2>3. PICK t \in Tasked : t = [v EXCEPT !.k = k, !.c = c] /\ t.op = "update_skill" /\ t.pc = "lock" /\ t.done = <<>> /\ t.c = c
    <3>1. PICK w : w = [v EXCEPT !.k = k, !.c = c]
      OBVIOUS
    <3>2. w \in Tasked
      BY <3>1, <2>2, ConfigAssumption DEF Tasked
    <3>3. w.op = "update_skill" /\ w.pc = "lock" /\ w.done = <<>> /\ w.c = c
      BY <3>1, <2>2, ConfigAssumption DEF Tasked
    <3> QED
      BY <3>1, <3>2, <3>3
  <2>4. Ask(r, t)
    BY <2>1, <2>2, <2>3
  <2> QED
    BY <1>3, <2>3, <2>4, ConfigAssumption DEF SkillOps
<1>6. ASSUME NEW op \in {"rollback", "delete_skill"}, Ask(r, [Blank(op, "lock") EXCEPT !.k = k])
      PROVE  IndInv'
  <2>1. PICK v \in Tasked : v = Blank(op, "lock") /\ v.op = op /\ v.pc = "lock" /\ v.done = <<>> /\ v.c = NoDir
    BY <1>2 DEF SkillOps
  <2>2. PICK t \in Tasked : t = [v EXCEPT !.k = k] /\ t.op = op /\ t.pc = "lock" /\ t.done = <<>> /\ t.c = NoDir
    <3>1. PICK w : w = [v EXCEPT !.k = k]
      OBVIOUS
    <3>2. w \in Tasked
      BY <3>1, <2>1 DEF Tasked
    <3>3. w.op = op /\ w.pc = "lock" /\ w.done = <<>> /\ w.c = NoDir
      BY <3>1, <2>1 DEF Tasked
    <3> QED
      BY <3>1, <3>2, <3>3
  <2>3. Ask(r, t)
    BY <1>6, <2>1, <2>2
  <2> QED
    BY <1>3, <2>2, <2>3 DEF SkillOps
<1> QED
  BY <1>1, <1>4, <1>5, <1>6

LEMMA Step_AskSecret == ASSUME IndInv, NEW r \in Tasks, AskSecret(r) PROVE IndInv'
<1>1. PICK s \in Secrets, op \in {"declare", "undeclare", "set", "clear"} :
        Ask(r, [Blank(op, "secret") EXCEPT !.s = s])
  BY DEF AskSecret
<1>2. PICK v \in Tasked : v = Blank(op, "secret") /\ v.op = op /\ v.pc = "secret" /\ v.done = <<>>
  BY BlankTyped DEF Ops, Pcs
<1>3. PICK t \in Tasked : t = [v EXCEPT !.s = s] /\ t.op = op /\ t.pc = "secret" /\ t.done = <<>> /\ t.s = s
  <2>1. PICK w : w = [v EXCEPT !.s = s]
    OBVIOUS
  <2>2. w \in Tasked
    BY <2>1, <1>2 DEF Tasked
  <2>3. w.op = op /\ w.pc = "secret" /\ w.done = <<>> /\ w.s = s
    BY <2>1, <1>2 DEF Tasked
  <2> QED
    BY <2>1, <2>2, <2>3
<1>4. Ask(r, t)
  BY <1>1, <1>2, <1>3
<1>5. StageOK(t) /\ ValidOK(t) /\ ~Locked(t) /\ ~Guarded(t) /\ MatchOK(t)
  BY <1>3 DEF StageOK, ValidOK, Locked, Guarded, MatchOK, SecretOps
<1> QED
  BY <1>4, <1>5, AskStep

LEMMA Step_AskConnect == ASSUME IndInv, NEW r \in Tasks, AskConnect(r) PROVE IndInv'
<1>1. PICK h \in Conns, s \in {Literal} \cup Secrets :
        Ask(r, [Blank("connect", "secret") EXCEPT !.h = h, !.s = s])
  BY DEF AskConnect
<1>2. PICK v \in Tasked : v = Blank("connect", "secret") /\ v.op = "connect" /\ v.pc = "secret" /\ v.done = <<>>
  BY BlankTyped DEF Ops, Pcs
<1>3. PICK t \in Tasked : t = [v EXCEPT !.h = h, !.s = s] /\ t.op = "connect" /\ t.pc = "secret" /\ t.done = <<>> /\ t.s = s
  <2>1. PICK w : w = [v EXCEPT !.h = h, !.s = s]
    OBVIOUS
  <2>2. w \in Tasked
    BY <2>1, <1>2 DEF Tasked, Holders
  <2>3. w.op = "connect" /\ w.pc = "secret" /\ w.done = <<>> /\ w.s = s
    BY <2>1, <1>2 DEF Tasked, Holders
  <2> QED
    BY <2>1, <2>2, <2>3
<1>4. Ask(r, t)
  BY <1>1, <1>2, <1>3
<1>5. StageOK(t) /\ ValidOK(t) /\ ~Locked(t) /\ ~Guarded(t) /\ MatchOK(t)
  BY <1>3 DEF StageOK, ValidOK, Locked, Guarded, MatchOK, SecretOps
<1> QED
  BY <1>4, <1>5, AskStep

LEMMA Step_AskAgent == ASSUME IndInv, NEW r \in Tasks, AskAgent(r) PROVE IndInv'
<1>1. PICK a \in Agents, n \in AgentRecords :
        Ask(r, [Served("update_agent", "refs") EXCEPT !.a = a, !.rec = n])
  BY DEF AskAgent
<1>2. doc \in Docs
  BY DEF IndInv, TypeOK
<1>3. PICK u \in Tasked : u = Served("update_agent", "refs") /\ u.op = "update_agent" /\ u.pc = "refs" /\ u.done = <<>>
  <2>1. PICK v \in Tasked : v = Blank("update_agent", "refs") /\ v.op = "update_agent" /\ v.pc = "refs" /\ v.done = <<>>
    BY BlankTyped DEF Ops, Pcs
  <2>2. PICK w : w = [v EXCEPT !.seen = doc]
    OBVIOUS
  <2>3. w \in Tasked
    BY <1>2, <2>1, <2>2 DEF Tasked
  <2>4. w.op = v.op /\ w.pc = v.pc /\ w.done = v.done /\ w.seen = doc
    BY <2>1, <2>2 DEF Tasked
  <2> QED
    BY <2>1, <2>2, <2>3, <2>4 DEF Served
<1>4. PICK t \in Tasked : t = [u EXCEPT !.a = a, !.rec = n] /\ t.op = "update_agent" /\ t.pc = "refs" /\ t.done = <<>> /\ t.a = a /\ t.rec = n
  <2>1. PICK w : w = [u EXCEPT !.a = a, !.rec = n]
    OBVIOUS
  <2>2. w \in Tasked
    BY <2>1, <1>3 DEF Tasked
  <2>3. w.op = "update_agent" /\ w.pc = "refs" /\ w.done = <<>> /\ w.a = a /\ w.rec = n
    BY <2>1, <1>3 DEF Tasked
  <2> QED
    BY <2>1, <2>2, <2>3
<1>5. Ask(r, t)
  BY <1>1, <1>3, <1>4
<1>6. StageOK(t) /\ ValidOK(t) /\ ~Locked(t) /\ ~Guarded(t) /\ MatchOK(t)
  BY <1>4 DEF StageOK, ValidOK, Locked, Guarded, MatchOK
<1> QED
  BY <1>5, <1>6, AskStep

\* What the invariant says of one task.
LEMMA OfTask ==
  ASSUME IndInv, NEW r \in Tasks
  PROVE  /\ StageOK(req[r]) /\ ValidOK(req[r]) /\ MatchOK(req[r]) /\ SecretOK(req[r]) /\ HostOK(req[r])
         /\ (applyLock = r <=> Locked(req[r])) /\ (secretOps = r <=> Guarded(req[r]))
BY DEF IndInv, TasksInv, LockInv

\* What a task staged does not depend on where it is.
LEMMA SameStaged ==
  ASSUME NEW t, NEW u, u.op = t.op, u.src = t.src, u.list = t.list, u.done = t.done
  PROVE  /\ Staged(u) = Staged(t) /\ Target(u) = Target(t) /\ Base(u) = Base(t)
         /\ NextCalls(u) = NextCalls(t) /\ (Trusted(u) <=> Trusted(t)) /\ (Restores(t) => Restores(u))
<1>1. Staged(u) = Staged(t) /\ Target(u) = Target(t) /\ Base(u) = Base(t)
  BY DEF Staged, Target, Base
<1>2. ToPut(u) = ToPut(t) /\ ToDrop(u) = ToDrop(t)
  BY <1>1 DEF ToPut, ToDrop
<1>3. NextCalls(u) = NextCalls(t)
  BY <1>1, <1>2 DEF NextCalls
<1>4. Trusted(u) <=> Trusted(t)
  BY DEF Trusted
<1> QED
  BY <1>1, <1>3, <1>4 DEF Restores

\* A handler that goes on, with the locks of its new place.
LEMMA GotoQuiet ==
  ASSUME IndInv, NEW r \in Tasks, NEW t \in Tasked, req' = [req EXCEPT ![r] = t], t.pc # "over",
         UNCHANGED <<configVars, values, hostVars, drift, late, scenario>>,
         faults' \in 0..MaxFaults,
         Locked(req[r]) => Locked(t),
         (applyLock' = applyLock /\ (Locked(t) => Locked(req[r]))) \/ (applyLock = Nobody /\ applyLock' = r /\ Locked(t)),
         \/ secretOps' = secretOps /\ (Guarded(t) <=> Guarded(req[r]))
         \/ secretOps = Nobody /\ secretOps' = r /\ Guarded(t)
         \/ secretOps = r /\ secretOps' = Nobody /\ ~Guarded(t),
         StageOK(t), ValidOK(t), MatchOK(t), SecretOK(t), HostOK(t)
  PROVE  IndInv'
<1>1. Nobody \notin Tasks
  BY ConfigAssumption DEF Tasks
<1>2. applyLock \in Tasks \cup {Nobody} /\ secretOps \in Tasks \cup {Nobody}
  BY DEF IndInv, TypeOK
<1>3. applyLock' = r <=> Locked(t)
  BY OfTask, <1>1
<1>4. secretOps' = r <=> Guarded(t)
  BY OfTask, <1>1
<1>5. ~(applyLock' = Nobody /\ applyLock = r)
  BY <1>1
<1>6. \A q \in Tasks : q # r => (applyLock' = q <=> applyLock = q) /\ (secretOps' = q <=> secretOps = q)
  BY <1>1
<1>7. applyLock' \in Tasks \cup {Nobody} /\ secretOps' \in Tasks \cup {Nobody}
  BY <1>2
<1> QED
  BY <1>3, <1>4, <1>5, <1>6, <1>7, QuietStep

LEMMA FaultTyped == ASSUME IndInv, NEW kind, Fault(kind) \/ NoFault PROVE faults' \in 0..MaxFaults
BY ConfigAssumption DEF Fault, NoFault, IndInv, TypeOK

LEMMA Step_acquire == ASSUME IndInv, NEW r \in Tasks, acquire(r) PROVE IndInv'
<1>0. req[r] \in Tasked /\ req[r].op \in Ops /\ req[r].pc = "lock" /\ StageOK(req[r]) /\ MatchOK(req[r])
  BY Typed, OfTask DEF acquire, At
<1>1. /\ UNCHANGED <<configVars, values, hostVars, drift, late, scenario>> /\ faults' \in 0..MaxFaults
      /\ secretOps' = secretOps /\ applyLock = Nobody
  BY FaultTyped DEF acquire, Rest, NoFault
<1>2. ~Locked(req[r]) /\ ~Guarded(req[r])
  BY <1>0 DEF Locked, Guarded
<1>3. CASE req[r].op = "delete_skill" /\ referenced(req[r].k)
  BY <1>1, <1>2, <1>3, OverQuiet DEF acquire
<1>4. CASE ~(req[r].op = "delete_skill" /\ referenced(req[r].k))
  <2>1. PICK next : next = CASE req[r].op = "apply" -> "prepare"
                             [] req[r].op = "reconcile" -> "list"
                             [] req[r].op = "create_skill" -> "builtins"
                             [] OTHER -> "host"
    OBVIOUS
  <2>2. PICK t : t = [req[r] EXCEPT !.pc = next, !.prev = doc.skills[req[r].k]]
    OBVIOUS
  <2>3. req' = [req EXCEPT ![r] = t] /\ applyLock' = r
    BY <1>4, <2>1, <2>2 DEF acquire, Put
  <2>4. next \in {"prepare", "list", "builtins", "host"} /\ next \in Pcs
        /\ (next = "prepare" <=> req[r].op = "apply") /\ (next = "list" <=> req[r].op = "reconcile")
        /\ (next = "builtins" <=> req[r].op = "create_skill")
    BY <2>1 DEF Pcs
  <2>5. doc.skills[req[r].k] \in Dirs
    BY <1>0 DEF IndInv, TypeOK, Docs, Tasked
  <2>6. t \in Tasked
    BY <1>0, <2>2, <2>4, <2>5 DEF Tasked
  <2>7. /\ t.pc = next /\ t.prev = doc.skills[t.k] /\ t.op = req[r].op /\ t.src = req[r].src /\ t.exp = req[r].exp
        /\ t.seen = req[r].seen /\ t.done = req[r].done /\ t.k = req[r].k /\ t.c = req[r].c
    BY <1>0, <2>2 DEF Tasked
  <2>8. StageOK(t)
    BY <1>0, <2>4, <2>7 DEF StageOK, SkillOps, ListOps
  <2>9. ValidOK(t) /\ MatchOK(t)
    BY <1>0, <2>4, <2>7 DEF ValidOK, MatchOK
  <2>10. Locked(t) /\ ~Guarded(t)
    BY <2>4, <2>7 DEF Locked, Guarded
  <2>11. SecretOK(t)
    BY <2>10, SecretFree
  <2>12. drift = "no" => SameSkills
    BY <1>1 DEF IndInv, HostFollowsDocument, SameSkills, UserIds
  <2>13. HostOK(t)
    BY <2>4, <2>7, <2>12 DEF HostOK
  <2> QED
    BY <1>1, <1>2, <2>3, <2>4, <2>6, <2>7, <2>8, <2>9, <2>10, <2>11, <2>13, GotoQuiet
<1> QED
  BY <1>3, <1>4

LEMMA Step_builtin_skill_ids == ASSUME IndInv, NEW r \in Tasks, builtin_skill_ids(r) PROVE IndInv'
<1>0. req[r] \in Tasked /\ req[r].pc = "builtins" /\ StageOK(req[r]) /\ MatchOK(req[r]) /\ HostOK(req[r])
  BY Typed, OfTask DEF builtin_skill_ids, At
<1>1. PICK known \in {Builtins, {}} :
          /\ IF known = Builtins THEN NoFault ELSE Fault("call")
          /\ CASE req[r].op = "apply" ->
                    Put(r, [req[r] EXCEPT !.pc = "lock", !.known = known]) /\ UNCHANGED applyLock
               [] OTHER ->
                    IF req[r].k \in known \/ (req[r].a # NoAgent /\ doc.agents[req[r].a] = NoAgent)
                    THEN Return(r) ELSE Goto(r, "host") /\ UNCHANGED applyLock
  BY DEF builtin_skill_ids
<1>2. /\ UNCHANGED <<configVars, values, hostVars, drift, late, scenario>> /\ faults' \in 0..MaxFaults
      /\ secretOps' = secretOps
  BY <1>1, FaultTyped DEF builtin_skill_ids, Rest
<1>3. ~Guarded(req[r])
  BY <1>0 DEF Guarded
<1>4. CASE req[r].op = "apply"
  <2>1. PICK t : t = [req[r] EXCEPT !.pc = "lock", !.known = known]
    OBVIOUS
  <2>2. req' = [req EXCEPT ![r] = t] /\ applyLock' = applyLock
    BY <1>1, <1>4, <2>1 DEF Put
  <2>3. known \subseteq SkillIds /\ "lock" \in Pcs
    BY ConfigAssumption DEF Pcs
  <2>4. t \in Tasked
    BY <1>0, <2>1, <2>3 DEF Tasked
  <2>5. /\ t.pc = "lock" /\ t.op = req[r].op /\ t.src = req[r].src /\ t.exp = req[r].exp
        /\ t.seen = req[r].seen /\ t.done = req[r].done /\ t.c = req[r].c
    BY <1>0, <2>1 DEF Tasked
  <2>6. StageOK(t) /\ ValidOK(t) /\ MatchOK(t) /\ ~Locked(t) /\ ~Guarded(t)
    BY <1>0, <1>4, <2>5 DEF StageOK, ValidOK, MatchOK, Locked, Guarded, ListOps
  <2>7. ~Locked(req[r])
    BY <1>0, <1>4 DEF Locked
  <2>8. SecretOK(t) /\ HostOK(t)
    BY <2>6, SecretFree, HostFree
  <2> QED
    BY <1>2, <1>3, <2>2, <2>4, <2>5, <2>6, <2>7, <2>8, GotoQuiet
<1>5. CASE req[r].op # "apply"
  <2>1. req[r].op = "create_skill" /\ Locked(req[r])
    BY <1>0, <1>5 DEF StageOK, Locked
  <2>2. drift = "no" => SameSkills
    BY <1>0, <2>1 DEF HostOK
  <2>3. CASE req[r].k \in known \/ (req[r].a # NoAgent /\ doc.agents[req[r].a] = NoAgent)
    <3>1. Return(r)
      BY <1>1, <1>5, <2>3
    <3> QED
      BY <1>2, <1>3, <2>2, <3>1, ReturnQuiet
  <2>4. CASE ~(req[r].k \in known \/ (req[r].a # NoAgent /\ doc.agents[req[r].a] = NoAgent))
    <3>1. Goto(r, "host") /\ applyLock' = applyLock
      BY <1>1, <1>5, <2>4
    <3>2. PICK t \in Tasked :
           /\ req' = [req EXCEPT ![r] = t] /\ t.pc = "host"
           /\ t.op = req[r].op /\ t.src = req[r].src /\ t.exp = req[r].exp /\ t.seen = req[r].seen
           /\ t.done = req[r].done /\ t.k = req[r].k /\ t.c = req[r].c /\ t.prev = req[r].prev
      BY <3>1, GotoTyped DEF Pcs
    <3>3. StageOK(t) /\ ValidOK(t) /\ MatchOK(t) /\ Locked(t) /\ ~Guarded(t)
      BY <1>0, <2>1, <3>2 DEF StageOK, ValidOK, MatchOK, Locked, Guarded, SkillOps
    <3>4. SecretOK(t)
      BY <3>3, SecretFree
    <3>5. HostOK(t)
      BY <1>0, <2>1, <2>2, <3>2 DEF HostOK
    <3> QED
      BY <1>2, <1>3, <2>1, <3>1, <3>2, <3>3, <3>4, <3>5, GotoQuiet
  <2> QED
    BY <2>3, <2>4
<1> QED
  BY <1>4, <1>5

LEMMA Step_prepare == ASSUME IndInv, NEW r \in Tasks, prepare(r) PROVE IndInv'
<1>0. req[r] \in Tasked /\ req[r].pc = "prepare" /\ StageOK(req[r]) /\ MatchOK(req[r]) /\ HostOK(req[r])
  BY Typed, OfTask DEF prepare, At
<1>1. /\ UNCHANGED <<configVars, values, hostVars, drift, late, scenario>> /\ faults' \in 0..MaxFaults
      /\ secretOps' = secretOps
  BY FaultTyped DEF prepare, Rest
<1>2. ~Guarded(req[r]) /\ Locked(req[r])
  BY <1>0 DEF Guarded, Locked
<1>3. drift = "no" => SameSkills
  BY <1>0, <1>2 DEF HostOK
<1>4. CASE Return(r)
  BY <1>1, <1>2, <1>3, <1>4, ReturnQuiet
<1>5. CASE validate(req[r].src.doc, req[r].known) /\ Goto(r, "list") /\ UNCHANGED applyLock
  <2>1. PICK t \in Tasked :
         /\ req' = [req EXCEPT ![r] = t] /\ t.pc = "list"
         /\ t.op = req[r].op /\ t.src = req[r].src /\ t.exp = req[r].exp /\ t.seen = req[r].seen
         /\ t.done = req[r].done /\ t.k = req[r].k /\ t.c = req[r].c /\ t.known = req[r].known
    BY <1>5, GotoTyped DEF Pcs
  <2>2. StageOK(t) /\ MatchOK(t) /\ Locked(t) /\ ~Guarded(t)
    BY <1>0, <2>1 DEF StageOK, MatchOK, Locked, Guarded, ListOps
  <2>3. ValidOK(t)
    BY <1>5, <2>1 DEF ValidOK
  <2>4. SecretOK(t)
    BY <2>2, SecretFree
  <2>5. HostOK(t)
    BY <1>0, <1>3, <2>1 DEF HostOK
  <2> QED
    BY <1>1, <1>2, <1>5, <2>1, <2>2, <2>3, <2>4, <2>5, GotoQuiet
<1> QED
  BY <1>4, <1>5 DEF prepare

\* A task that staged everything goes on to its commit, or back to take its calls back.
LEMMA StagedGoes ==
  ASSUME IndInv, NEW r \in Tasks, NEW pc \in {"check", "publish", "undo"}, Goto(r, pc),
         req[r].pc \in {"stage", "check", "publish"}, req[r].op = "apply",
         pc # "undo" => NextCalls(req[r]) = {}, pc = "publish" => blocked(req[r].src.doc) = {},
         UNCHANGED <<configVars, values, hostVars, drift, late, scenario>>, faults' \in 0..MaxFaults,
         applyLock' = applyLock,
         \/ secretOps' = secretOps /\ req[r].pc # "publish" /\ pc # "publish"
         \/ secretOps = Nobody /\ secretOps' = r /\ pc = "publish"
         \/ req[r].pc = "publish" /\ secretOps' = Nobody /\ pc # "publish"
  PROVE  IndInv'
<1>1. req[r] \in Tasked /\ StageOK(req[r]) /\ MatchOK(req[r]) /\ ValidOK(req[r]) /\ HostOK(req[r])
      /\ (secretOps = r <=> Guarded(req[r]))
  BY Typed, OfTask
<1>2. PICK t \in Tasked :
       /\ req' = [req EXCEPT ![r] = t] /\ t.pc = pc
       /\ t.op = req[r].op /\ t.src = req[r].src /\ t.exp = req[r].exp /\ t.seen = req[r].seen
       /\ t.done = req[r].done /\ t.list = req[r].list /\ t.c = req[r].c /\ t.known = req[r].known
  BY GotoTyped DEF Pcs
<1>3. StageOK(t) /\ MatchOK(t) /\ ValidOK(t) /\ Locked(t) /\ Locked(req[r])
  BY <1>1, <1>2 DEF StageOK, MatchOK, ValidOK, Locked, ListOps
<1>4. (Guarded(t) <=> pc = "publish") /\ (Guarded(req[r]) <=> req[r].pc = "publish")
  BY <1>2 DEF Guarded
<1>5. SecretOK(t)
  BY <1>2 DEF SecretOK
<1>6. HostOK(t)
  <2>1. /\ Staged(t) = Staged(req[r]) /\ Target(t) = Target(req[r])
        /\ NextCalls(t) = NextCalls(req[r]) /\ (Trusted(t) <=> Trusted(req[r]))
        /\ (Restores(req[r]) => Restores(t))
    BY <1>2, SameStaged
  <2> QED
    BY <1>1, <1>2, <2>1 DEF HostOK
<1> QED
  BY <1>1, <1>2, <1>3, <1>4, <1>5, <1>6, GotoQuiet

LEMMA Step_check_secret_removal == ASSUME IndInv, NEW r \in Tasks, check_secret_removal(r) PROVE IndInv'
<1>0. req[r].pc = "check" /\ StageOK(req[r]) /\ HostOK(req[r])
  BY OfTask DEF check_secret_removal, At
<1>1. /\ UNCHANGED <<configVars, values, hostVars, drift, late, scenario>> /\ faults' \in 0..MaxFaults
      /\ applyLock' = applyLock /\ secretOps = Nobody
  BY FaultTyped DEF check_secret_removal, Rest
<1>2. req[r].op = "apply" /\ NextCalls(req[r]) = {}
  BY <1>0 DEF StageOK, HostOK
<1>3. CASE blocked(req[r].src.doc) = {}
  <2>1. Goto(r, "publish") /\ secretOps' = r
    BY <1>3 DEF check_secret_removal
  <2> QED
    BY <1>0, <1>1, <1>2, <1>3, <2>1, StagedGoes
<1>4. CASE blocked(req[r].src.doc) # {}
  <2>1. Goto(r, "undo") /\ secretOps' = secretOps
    BY <1>4 DEF check_secret_removal
  <2> QED
    BY <1>0, <1>1, <1>2, <2>1, StagedGoes
<1> QED
  BY <1>3, <1>4

LEMMA Step_commit_fails == ASSUME IndInv, NEW r \in Tasks, commit_fails(r) PROVE IndInv'
<1>0. req[r].pc = "publish" /\ StageOK(req[r])
  BY OfTask DEF commit_fails, At
<1>1. /\ UNCHANGED <<configVars, values, hostVars, drift, late, scenario>> /\ faults' \in 0..MaxFaults
      /\ applyLock' = applyLock /\ secretOps' = Nobody /\ Goto(r, "undo")
  BY FaultTyped DEF commit_fails, Rest
<1>2. req[r].op = "apply"
  BY <1>0 DEF StageOK
<1> QED
  BY <1>0, <1>1, <1>2, StagedGoes

LEMMA Step_UndoOver == ASSUME IndInv, NEW r \in Tasks, UndoOver(r) PROVE IndInv'
<1>0. req[r].pc = "undo" /\ HostOK(req[r]) /\ req[r].done = <<>>
  BY OfTask DEF UndoOver, At
<1>1. /\ UNCHANGED <<configVars, values, hostVars, drift, late, scenario>> /\ faults' \in 0..MaxFaults
      /\ secretOps' = secretOps /\ Return(r)
  BY FaultTyped DEF UndoOver, Rest
<1>2. ~Guarded(req[r])
  BY <1>0 DEF Guarded
<1>3. drift = "no" => SameSkills
  <2>1. Restores(req[r])
    BY <1>0 DEF HostOK
  <2>2. Staged(req[r]) = {}
    BY <1>0 DEF Staged
  <2> QED
    BY <2>1, <2>2 DEF Restores, Trusted, SameSkills
<1> QED
  BY <1>1, <1>2, <1>3, ReturnQuiet

LEMMA Step_lock_secret_ops == ASSUME IndInv, NEW r \in Tasks, lock_secret_ops(r) PROVE IndInv'
<1>0. req[r].pc = "secret" /\ StageOK(req[r])
  BY OfTask DEF lock_secret_ops, At
<1>1. /\ UNCHANGED <<configVars, values, hostVars, drift, late, scenario>> /\ faults' \in 0..MaxFaults
      /\ applyLock' = applyLock /\ secretOps = Nobody
  BY FaultTyped DEF lock_secret_ops, Rest
<1>2. ~Guarded(req[r]) /\ ~Locked(req[r])
  BY <1>0 DEF Guarded, Locked
<1>3. CASE Objects(req[r])
  <2>1. Over(r) /\ secretOps' = secretOps
    BY <1>3 DEF lock_secret_ops
  <2> QED
    BY <1>1, <1>2, <2>1, OverQuiet
<1>4. CASE ~Objects(req[r])
  <2>1. Goto(r, "do") /\ secretOps' = r
    BY <1>4 DEF lock_secret_ops
  <2>2. PICK t \in Tasked :
         /\ req' = [req EXCEPT ![r] = t] /\ t.pc = "do" /\ t.op = req[r].op /\ t.s = req[r].s
         /\ t.done = req[r].done /\ t.c = req[r].c
    BY <2>1, GotoTyped DEF Pcs
  <2>3. StageOK(t)
    BY <1>0, <2>2 DEF StageOK, SecretOps
  <2>4. ValidOK(t) /\ MatchOK(t) /\ ~Locked(t) /\ Guarded(t)
    BY <1>0, <2>2 DEF ValidOK, MatchOK, Locked, Guarded, StageOK, SecretOps
  <2>5. SecretOK(t)
    BY <1>0, <1>4, <2>2 DEF SecretOK, Objects
  <2>6. HostOK(t)
    BY <2>4, HostFree
  <2> QED
    BY <1>1, <1>2, <2>1, <2>2, <2>3, <2>4, <2>5, <2>6, GotoQuiet
<1> QED
  BY <1>3, <1>4

LEMMA Step_validate_agent_skill_refs ==
  ASSUME IndInv, NEW r \in Tasks, validate_agent_skill_refs(r) PROVE IndInv'
<1>0. req[r].pc = "refs" /\ StageOK(req[r])
  BY OfTask DEF validate_agent_skill_refs, At
<1>1. /\ UNCHANGED <<configVars, values, hostVars, drift, late, scenario>> /\ faults' \in 0..MaxFaults
      /\ applyLock' = applyLock /\ secretOps' = secretOps
  BY FaultTyped DEF validate_agent_skill_refs, Rest, KeepLocks
<1>2. ~Guarded(req[r]) /\ ~Locked(req[r])
  BY <1>0 DEF Guarded, Locked
<1>3. CASE Over(r)
  BY <1>1, <1>2, <1>3, OverQuiet
<1>4. CASE Goto(r, "write")
  <2>1. PICK t \in Tasked :
         /\ req' = [req EXCEPT ![r] = t] /\ t.pc = "write" /\ t.op = req[r].op /\ t.a = req[r].a
         /\ t.rec = req[r].rec /\ t.done = req[r].done /\ t.c = req[r].c
    BY <1>4, GotoTyped DEF Pcs
  <2>2. StageOK(t)
    BY <1>0, <2>1 DEF StageOK
  <2>3. ValidOK(t) /\ MatchOK(t) /\ ~Locked(t) /\ ~Guarded(t)
    BY <1>0, <2>1 DEF ValidOK, MatchOK, Locked, Guarded, StageOK
  <2>4. SecretOK(t) /\ HostOK(t)
    BY <2>3, HostFree, SecretFree
  <2> QED
    BY <1>1, <1>2, <2>1, <2>2, <2>3, <2>4, GotoQuiet
<1> QED
  BY <1>3, <1>4 DEF validate_agent_skill_refs

\* A skill route whose mutation fails takes back the one call it made.
LEMMA Step_SkillNotWritten == ASSUME IndInv, NEW r \in Tasks, SkillNotWritten(r) PROVE IndInv'
<1>0. req[r] \in Tasked /\ req[r].pc = "doc" /\ StageOK(req[r]) /\ HostOK(req[r])
  BY Typed, OfTask DEF SkillNotWritten, At
<1>1. /\ UNCHANGED <<configVars, values, hostVars, drift, late, scenario>> /\ faults' \in 0..MaxFaults
      /\ applyLock' = applyLock /\ secretOps' = secretOps
  BY FaultTyped DEF SkillNotWritten, mutate_fails, NoFault, Rest, KeepLocks
<1>2. ~Guarded(req[r]) /\ Locked(req[r])
  BY <1>0 DEF Guarded, Locked
<1>3. req[r].op \in SkillOps /\ req[r].k \in UserIds /\ req[r].prev \in Dirs /\ req[r].k \in SkillIds
      /\ req[r].prev = doc.skills[req[r].k]
  BY <1>0 DEF StageOK, HostOK, Tasked
<1>4. PICK und : und = Undoing(req[r])
  OBVIOUS
<1>5. /\ und \in Seq(Calls) /\ Len(und) \in {0, 1}
      /\ Len(und) = 1 => SoundCall(und[1]) /\ und[1].k = req[r].k
      /\ req[r].op = "create_skill" => Len(und) = 1 /\ und[1].call = "delete"
      /\ req[r].op # "create_skill" /\ req[r].prev # NoDir =>
           Len(und) = 1 /\ und[1].call # "delete" /\ und[1].c = req[r].prev
  <2>1. Call("delete", req[r].k, NoDir) \in Calls /\ Call("create", req[r].k, req[r].prev) \in Calls
        /\ Call("update", req[r].k, req[r].prev) \in Calls
    BY <1>3, SkillHostAssumption DEF Call, Calls
  <2>2. CASE req[r].op = "create_skill"
    <3>1. und = <<Call("delete", req[r].k, NoDir)>>
      BY <1>4, <2>2 DEF Undoing
    <3> QED
      BY <2>1, <2>2, <3>1 DEF SoundCall, Call
  <2>3. CASE req[r].op # "create_skill" /\ req[r].prev = NoDir
    <3>1. und = <<>>
      BY <1>4, <2>3 DEF Undoing
    <3> QED
      BY <2>3, <3>1
  <2>4. CASE req[r].op = "delete_skill" /\ req[r].prev # NoDir
    <3>1. und = <<Call("create", req[r].k, req[r].prev)>>
      BY <1>4, <2>4 DEF Undoing
    <3> QED
      BY <2>1, <2>4, <3>1 DEF SoundCall, Call
  <2>5. CASE req[r].op \notin {"create_skill", "delete_skill"} /\ req[r].prev # NoDir
    <3>1. und = <<Call("update", req[r].k, req[r].prev)>>
      BY <1>4, <2>5 DEF Undoing
    <3> QED
      BY <2>1, <2>5, <3>1 DEF SoundCall, Call
  <2> QED
    BY <2>2, <2>3, <2>4, <2>5
<1>6. PICK t : t = [req[r] EXCEPT !.pc = "undo", !.done = und]
  OBVIOUS
<1>7. req' = [req EXCEPT ![r] = t]
  BY <1>4, <1>6 DEF SkillNotWritten, Put
<1>8. t \in Tasked
  <2>1. "undo" \in Pcs
    BY DEF Pcs
  <2> QED
    BY <1>0, <1>5, <1>6, <2>1 DEF Tasked
<1>9. /\ t.pc = "undo" /\ t.op = req[r].op /\ t.done = und /\ t.c = req[r].c /\ t.k = req[r].k /\ t.prev = req[r].prev
  BY <1>0, <1>6 DEF Tasked
<1>10. StageOK(t)
  <2>1. \A i \in 1..Len(t.done) : SoundCall(t.done[i])
    BY <1>5, <1>9
  <2> QED
    BY <1>0, <1>3, <1>9, <2>1 DEF StageOK, SkillOps
<1>11. ValidOK(t) /\ MatchOK(t) /\ Locked(t) /\ ~Guarded(t)
  BY <1>3, <1>9 DEF ValidOK, MatchOK, Locked, Guarded, SkillOps
<1>12. SecretOK(t)
  BY <1>11, SecretFree
<1>13. HostOK(t)
  <2>1. t.op \notin ListOps
    BY <1>3, <1>9 DEF SkillOps, ListOps
  <2>2. Base(t) = doc.skills /\ (Trusted(t) <=> drift = "no")
    BY <2>1 DEF Base, Trusted
  <2>3. \A i \in 1..Len(t.done) : t.done[i].k = t.k
    BY <1>5, <1>9
  <2>4. \A i, j \in 1..Len(t.done) : i = j
    <3>1. PICK n : n = Len(und) /\ n \in {0, 1}
      BY <1>5
    <3>2. \A i, j \in 1..n : i = j
      BY <3>1
    <3> QED
      BY <1>9, <3>1, <3>2
  <2>5. ASSUME drift = "no"
        PROVE  /\ Len(und) = 1 /\ doc.skills[t.k] = (IF und[1].call = "delete" THEN NoDir ELSE und[1].c)
               /\ \A k \in UserIds \ {t.k} : shelf[k] = doc.skills[k]
    <3>1. req[r].prev = NoDir <=> req[r].op = "create_skill"
      BY <1>0, <2>5 DEF HostOK
    <3>2. \A k \in UserIds \ {t.k} : shelf[k] = doc.skills[k]
      BY <1>0, <1>9, <2>5 DEF HostOK
    <3> QED
      BY <1>3, <1>5, <1>9, <3>1, <3>2
  <2>6. drift = "no" => Staged(t) = {t.k}
    <3> SUFFICES ASSUME drift = "no" PROVE Staged(t) = {t.k}
      OBVIOUS
    <3>1. DOMAIN t.done = {1}
      BY <1>5, <1>9, <2>5
    <3>2. t.done[1].k = t.k
      BY <1>5, <1>9, <2>5
    <3> QED
      BY <3>1, <3>2 DEF Staged
  <2>7. Restores(t)
    BY <1>3, <1>9, <2>2, <2>3, <2>4, <2>5, <2>6 DEF Restores
  <2> QED
    BY <1>9, <2>7 DEF HostOK
<1> QED
  BY <1>1, <1>2, <1>7, <1>8, <1>9, <1>10, <1>11, <1>12, <1>13, GotoQuiet

----------------------------------------------------------------------------
(* Calls to agent_host.                                                    *)

\* what a call that succeeds leaves
After(x) == IF x.call = "delete" THEN NoDir ELSE x.c

LEMMA DoFacts ==
  ASSUME HostTypeOK, NEW x, SoundCall(x), Do(x)
  PROVE  /\ HostTypeOK' /\ x.k \in UserIds /\ shelf'[x.k] = After(x)
         /\ \A k \in SkillIds : k # x.k => shelf'[k] = shelf[k]
<1>1. x.k \in SkillIds /\ x.c \in Dirs /\ x.call \in {"create", "update", "delete"} /\ NoDir \in Dirs
      /\ (x.call # "delete" => x.c # NoDir)
  BY SkillHostAssumption DEF SoundCall, Calls
<1>2. x.k \in UserIds
  BY <1>1 DEF Do, Can, UserIds
<1>3. PICK d \in Dirs, h \in SUBSET Entries : Become(x.k, d, h) /\ d = After(x)
  <2>1. CASE x.call = "create" /\ Create(x.k, x.c)
    BY <1>1, <2>1 DEF Create, After, Entries, HostTypeOK
  <2>2. CASE x.call = "update" /\ Update(x.k, x.c)
    <3>1. shelf[x.k] \in Entries /\ past[x.k] \subseteq Entries /\ x.c \in Entries
      BY <1>1, <2>2 DEF Update, Updatable, Entries, HostTypeOK
    <3>2. PICK h : h = past[x.k] \cup {x.c} \cup (IF past[x.k] = {} THEN {shelf[x.k]} ELSE {})
      OBVIOUS
    <3>3. h \in SUBSET Entries /\ Become(x.k, x.c, h)
      BY <2>2, <3>1, <3>2 DEF Update
    <3> QED
      BY <1>1, <2>2, <3>3 DEF After
  <2>3. CASE x.call = "delete" /\ Delete(x.k)
    BY <1>1, <2>3 DEF Delete, After
  <2> QED
    BY <2>1, <2>2, <2>3 DEF Do
<1> QED
  BY <1>1, <1>2, <1>3 DEF Become, HostTypeOK

LEMMA BreakFacts == ASSUME HostTypeOK, NEW x, x.k \in SkillIds, Break(x) PROVE HostTypeOK'
<1>1. CASE FailDelete(x.k)
  BY <1>1 DEF FailDelete, HostTypeOK
<1>2. CASE FailWrite(x.k)
  <2>1. PICK d \in Dirs, new \in AtMostTwo :
          shelf' = [shelf EXCEPT ![x.k] = d] /\ past' = [past EXCEPT ![x.k] = @ \cup new]
    BY <1>2 DEF FailWrite, FailKeeps
  <2>2. new \in SUBSET Entries
    BY DEF AtMostTwo
  <2> QED
    BY <2>1, <2>2 DEF HostTypeOK
<1> QED
  BY <1>1, <1>2 DEF Break

\* A call that fails changes nothing, or its caller has to assume anything.
LEMMA FailsFacts ==
  ASSUME IndInv, NEW x, SoundCall(x), Refused(x) \/ Halfway(x)
  PROVE  /\ HostTypeOK' /\ faults' \in 0..MaxFaults
         /\ Refused(x) => shelf' = shelf /\ past' = past
<1>0. HostTypeOK /\ x.k \in SkillIds
  BY DEF IndInv, TypeOK, SoundCall, Calls
<1>1. CASE Refused(x)
  <2>1. shelf' = shelf /\ past' = past
    BY <1>1 DEF Refused, hostVars
  <2>2. faults' \in 0..MaxFaults
    BY <1>1, FaultTyped DEF Refused
  <2> QED
    BY <1>0, <2>1, <2>2 DEF HostTypeOK
<1>2. CASE Halfway(x) /\ ~Refused(x)
  <2>1. HostTypeOK'
    BY <1>0, <1>2, DoFacts, BreakFacts DEF Halfway
  <2>2. faults' \in 0..MaxFaults
    BY <1>2, FaultTyped DEF Halfway
  <2> QED
    BY <1>2, <2>1, <2>2
<1> QED
  BY <1>1, <1>2

\* A task that holds apply_lock, and a call of its own or one it gave up.
LEMMA HostStep ==
  ASSUME IndInv, NEW r \in Tasks, NEW t \in Tasked, req' = [req EXCEPT ![r] = t],
         UNCHANGED <<configVars, values, scenario>>, HostTypeOK', late' \subseteq Calls, LateInv',
         drift' \in {"no", "before", "since"}, faults' \in 0..MaxFaults,
         secretOps' = secretOps, ~Guarded(req[r]), ~Guarded(t), Locked(req[r]),
         (applyLock' = applyLock /\ Locked(t)) \/ (applyLock' = Nobody /\ ~Locked(t)),
         applyLock' = Nobody /\ drift' = "no" => SameSkills',
         StageOK(t), ValidOK(t), MatchOK(t), HostOK(t)'
  PROVE  IndInv'
<1>1. /\ doc' = doc /\ snaps' = snaps /\ active' = active /\ values' = values /\ scenario' = scenario
  BY DEF configVars
<1>2. Nobody \notin Tasks /\ applyLock = r /\ secretOps # r
  BY ConfigAssumption, OfTask DEF Tasks
<1>3. Grows /\ snaps \in Seq(Bytes)
  BY <1>1 DEF Grows, IndInv, TypeOK
<1>4. MatchOK(t)' /\ SecretOK(t)'
  BY <1>1, <1>3, MatchStays, SecretFreeNext
<1>5. StoresAgree'
  BY <1>1 DEF IndInv, StoresAgree, NoOrphanValue, RefsResolve, SnapshotIsDocument
<1>6. HostFollowsDocument'
  BY DEF HostFollowsDocument, SameSkills, UserIds
<1>7. /\ doc' \in Docs /\ snaps' \in Seq(Bytes) /\ active' \in 0..Len(snaps') /\ values' \subseteq Secrets
  BY <1>1 DEF IndInv, TypeOK
<1>8. applyLock' \in Tasks \cup {Nobody} /\ secretOps' \in Tasks \cup {Nobody}
  BY DEF IndInv, TypeOK
<1>9. /\ applyLock' = r <=> Locked(t)
      /\ secretOps' = r <=> Guarded(t)
      /\ \A q \in Tasks : q # r => (applyLock' = q <=> applyLock = q) /\ (secretOps' = q <=> secretOps = q)
  BY <1>2
<1> QED
  BY <1>1, <1>2, <1>3, <1>4, <1>5, <1>6, <1>7, <1>8, <1>9, TaskStep

LEMMA HostReturn ==
  ASSUME IndInv, NEW r \in Tasks, Return(r),
         UNCHANGED <<configVars, values, scenario>>, HostTypeOK', late' \subseteq Calls, LateInv',
         drift' \in {"no", "before", "since"}, faults' \in 0..MaxFaults,
         secretOps' = secretOps, ~Guarded(req[r]), Locked(req[r]), drift' = "no" => SameSkills'
  PROVE  IndInv'
<1>1. PICK t \in Tasked :
           /\ t = Blank(req[r].op, "over") /\ StageOK(t) /\ ValidOK(t) /\ MatchOK(t)
           /\ HostOK(t)' /\ ~Locked(t) /\ ~Guarded(t)
  BY OverOK, Typed
<1>2. req' = [req EXCEPT ![r] = t] /\ applyLock' = IF applyLock = r THEN Nobody ELSE applyLock
  BY <1>1 DEF Return, Over, Put, Release
<1>3. applyLock' = Nobody
  BY <1>2, OfTask
<1> QED
  BY <1>1, <1>2, <1>3, HostStep

LEMMA LateStays == ASSUME IndInv, late' = late PROVE late' \subseteq Calls /\ LateInv'
BY DEF IndInv, TypeOK, LateInv

----------------------------------------------------------------------------
(* The skill routes.                                                       *)

LEMMA GivenSound ==
  ASSUME IndInv, NEW r \in Tasks, req[r].pc = "host", NEW c \in Given(req[r])
  PROVE  LET x == HostCall(req[r], c)
         IN /\ SoundCall(x) /\ x.k = req[r].k /\ After(x) = c /\ c \in Dirs
            /\ req[r].op = "delete_skill" => c = NoDir
            /\ x.call = "create" <=> req[r].op = "create_skill"
<1>1. req[r] \in Tasked /\ StageOK(req[r]) /\ HostTypeOK /\ req[r].k \in SkillIds /\ NoDir \in Dirs
  BY Typed, OfTask, SkillHostAssumption DEF IndInv, TypeOK, Tasked
<1>2. req[r].op \in SkillOps
  BY <1>1 DEF StageOK
<1>3. c \in Dirs /\ (req[r].op # "delete_skill" => c # NoDir) /\ (req[r].op = "delete_skill" => c = NoDir)
  <2>1. CASE req[r].op = "rollback"
    BY <1>1, <2>1 DEF Given, HostTypeOK, Entries
  <2>2. CASE req[r].op # "rollback"
    BY <1>1, <1>2, <2>2 DEF Given, StageOK, SkillOps, Tasked
  <2> QED
    BY <2>1, <2>2
<1>4. CASE req[r].op = "create_skill"
  <2>1. HostCall(req[r], c) = [k |-> req[r].k, c |-> c, call |-> "create"]
    BY <1>4 DEF HostCall, Call
  <2> QED
    BY <1>1, <1>3, <1>4, <2>1 DEF SoundCall, Calls, After
<1>5. CASE req[r].op = "delete_skill"
  <2>1. HostCall(req[r], c) = [k |-> req[r].k, c |-> NoDir, call |-> "delete"]
    BY <1>5 DEF HostCall, Call
  <2> QED
    BY <1>1, <1>3, <1>5, <2>1 DEF SoundCall, Calls, After
<1>6. CASE req[r].op \in {"update_skill", "rollback"}
  <2>1. HostCall(req[r], c) = [k |-> req[r].k, c |-> c, call |-> "update"]
    BY <1>6 DEF HostCall, Call
  <2> QED
    BY <1>1, <1>3, <1>6, <2>1 DEF SoundCall, Calls, After
<1> QED
  BY <1>2, <1>4, <1>5, <1>6 DEF SkillOps

LEMMA Step_SkillStaged == ASSUME IndInv, NEW r \in Tasks, SkillStaged(r) PROVE IndInv'
<1>0. req[r] \in Tasked /\ req[r].pc = "host" /\ StageOK(req[r]) /\ HostOK(req[r])
  BY Typed, OfTask DEF SkillStaged, At
<1>1. PICK c \in Given(req[r]) : Succeeds(HostCall(req[r], c)) /\ Put(r, [req[r] EXCEPT !.c = c, !.pc = "doc"])
  BY DEF SkillStaged
<1>2. PICK x : x = HostCall(req[r], c)
  OBVIOUS
<1>3. /\ SoundCall(x) /\ x.k = req[r].k /\ After(x) = c /\ c \in Dirs
      /\ req[r].op = "delete_skill" => c = NoDir
      /\ x.call = "create" <=> req[r].op = "create_skill"
  BY <1>0, <1>2, GivenSound
<1>4. Do(x) /\ drift' = drift /\ faults' = faults
  BY <1>1, <1>2 DEF Succeeds
<1>5. /\ HostTypeOK' /\ x.k \in UserIds /\ shelf'[x.k] = c
      /\ \A k \in SkillIds : k # x.k => shelf'[k] = shelf[k]
  BY <1>3, <1>4, DoFacts DEF IndInv, TypeOK
<1>6. PICK t : t = [req[r] EXCEPT !.c = c, !.pc = "doc"]
  OBVIOUS
<1>7. req' = [req EXCEPT ![r] = t]
  BY <1>1, <1>6 DEF Put
<1>8. t \in Tasked
  <2>1. "doc" \in Pcs
    BY DEF Pcs
  <2> QED
    BY <1>0, <1>3, <1>6, <2>1 DEF Tasked
<1>9. t.pc = "doc" /\ t.op = req[r].op /\ t.c = c /\ t.k = req[r].k /\ t.prev = req[r].prev /\ t.done = req[r].done
  BY <1>0, <1>6 DEF Tasked
<1>10. StageOK(t) /\ ValidOK(t) /\ MatchOK(t) /\ Locked(t) /\ ~Guarded(t) /\ Locked(req[r]) /\ ~Guarded(req[r])
  BY <1>0, <1>3, <1>9 DEF StageOK, ValidOK, MatchOK, Locked, Guarded, SkillOps
<1>11. /\ UNCHANGED <<configVars, values, scenario>> /\ secretOps' = secretOps /\ applyLock' = applyLock
       /\ late' = late /\ doc' = doc /\ faults' \in 0..MaxFaults /\ drift' \in {"no", "before", "since"}
  BY <1>4 DEF SkillStaged, KeepLocks, Rest, configVars, IndInv, TypeOK
<1>12. HostOK(t)'
  <2>1. req[r].prev = doc.skills[req[r].k]
    BY <1>0 DEF HostOK
  <2>2. ASSUME drift = "no"
        PROVE  /\ t.prev = NoDir <=> t.op = "create_skill"
               /\ \A k \in UserIds \ {t.k} : shelf'[k] = doc.skills[k]
    <3>1. SameSkills
      BY <1>0, <1>10, <2>2 DEF HostOK
    <3>2. shelf[t.k] = t.prev
      BY <1>3, <1>5, <1>9, <2>1, <3>1 DEF SameSkills
    <3>3. shelf[x.k] = NoDir <=> x.call = "create"
      <4>1. x.call \in {"create", "update", "delete"}
        BY <1>3 DEF SoundCall, Calls
      <4> QED
        BY <1>4, <4>1 DEF Do, Can, Updatable
    <3>4. \A k \in UserIds \ {t.k} : shelf'[k] = doc.skills[k]
      BY <1>3, <1>5, <1>9, <3>1 DEF SameSkills, UserIds
    <3> QED
      BY <1>3, <1>9, <3>2, <3>3, <3>4
  <2> QED
    BY <1>3, <1>4, <1>5, <1>9, <1>11, <2>1, <2>2 DEF HostOK
<1>13. applyLock' # Nobody
  BY <1>10, <1>11, OfTask, ConfigAssumption DEF Tasks
<1> QED
  BY <1>5, <1>7, <1>8, <1>10, <1>11, <1>12, <1>13, LateStays, HostStep

LEMMA Step_SkillRefused == ASSUME IndInv, NEW r \in Tasks, SkillRefused(r) PROVE IndInv'
<1>0. req[r].pc = "host" /\ StageOK(req[r]) /\ HostOK(req[r])
  BY OfTask DEF SkillRefused, At
<1>1. Locked(req[r]) /\ ~Guarded(req[r])
  BY <1>0 DEF Locked, Guarded
<1>2. drift = "no" => SameSkills
  BY <1>0, <1>1 DEF HostOK
<1>3. /\ UNCHANGED <<configVars, values, scenario>> /\ secretOps' = secretOps /\ late' = late /\ Return(r) /\ doc' = doc
  BY DEF SkillRefused, Rest, configVars
<1>4. CASE UNCHANGED <<drift, faults, hostVars>>
  <2>1. faults' \in 0..MaxFaults
    BY <1>4, FaultTyped DEF NoFault
  <2> QED
    BY <1>1, <1>2, <1>3, <1>4, <2>1, ReturnQuiet
<1>5. CASE \E c \in Given(req[r]) : Fails(HostCall(req[r], c))
  <2>0. PICK c \in Given(req[r]) : Fails(HostCall(req[r], c))
    BY <1>5
  <2>1. PICK x : x = HostCall(req[r], c) /\ Fails(x)
    BY <2>0
  <2>2. SoundCall(x)
    BY <1>0, <2>1, GivenSound
  <2>3. HostTypeOK' /\ faults' \in 0..MaxFaults /\ (Refused(x) => shelf' = shelf /\ past' = past)
    BY <2>1, <2>2, FailsFacts DEF Fails
  <2>4. drift' \in {"no", "before", "since"} /\ (drift' = "no" => shelf' = shelf /\ drift = "no")
    BY <2>1, <2>3 DEF Fails, IndInv, TypeOK
  <2>5. drift' = "no" => SameSkills'
    BY <1>2, <1>3, <2>4 DEF SameSkills
  <2> QED
    BY <1>1, <1>3, <2>3, <2>4, <2>5, LateStays, HostReturn
<1> QED
  BY <1>4, <1>5 DEF SkillRefused

----------------------------------------------------------------------------
(* Staging and taking back.                                                *)

LEMMA NextCallSound ==
  ASSUME IndInv, NEW r \in Tasks, req[r].pc = "stage", NEW x \in NextCalls(req[r])
  PROVE  /\ SoundCall(x) /\ x.k \in SkillIds \ Staged(req[r]) /\ After(x) = Target(req[r])[x.k]
         /\ x.call = "create" <=> req[r].list[x.k] = NoDir
<1>1. req[r] \in Tasked /\ StageOK(req[r]) /\ doc \in Docs /\ NoDir \in Dirs
  BY Typed, OfTask, SkillHostAssumption DEF IndInv, TypeOK
<1>2. Target(req[r]) \in [SkillIds -> Dirs]
  BY <1>1 DEF StageOK, Target, Bytes, Docs
<1>3. CASE ToPut(req[r]) # {}
  <2>1. PICK k \in ToPut(req[r]) :
          x = Call(IF req[r].list[k] = NoDir THEN "create" ELSE "update", k, Target(req[r])[k])
    BY <1>3 DEF NextCalls
  <2>2. k \in SkillIds \ Staged(req[r]) /\ Target(req[r])[k] # NoDir /\ Target(req[r])[k] \in Dirs
    BY <1>2 DEF ToPut
  <2>3. /\ x.k = k /\ x.c = Target(req[r])[k] /\ x \in Calls
        /\ x.call = IF req[r].list[k] = NoDir THEN "create" ELSE "update"
    BY <2>1, <2>2 DEF Call, Calls
  <2> QED
    BY <2>2, <2>3 DEF SoundCall, After
<1>4. CASE ToPut(req[r]) = {}
  <2>1. PICK k \in ToDrop(req[r]) : x = Call("delete", k, NoDir)
    BY <1>4 DEF NextCalls
  <2>2. k \in SkillIds \ Staged(req[r]) /\ Target(req[r])[k] = NoDir /\ req[r].list[k] # NoDir
    BY DEF ToDrop
  <2>3. x.k = k /\ x.c = NoDir /\ x.call = "delete" /\ x \in Calls
    BY <1>1, <2>1, <2>2 DEF Call, Calls
  <2> QED
    BY <2>2, <2>3 DEF SoundCall, After
<1> QED
  BY <1>3, <1>4

\* A task with nothing left to stage has brought agent_host to its document.
LEMMA AllStaged ==
  ASSUME IndInv, NEW t \in Tasked, t.pc \in {"stage", "check", "publish"}, t.op \in ListOps, HostOK(t), Trusted(t),
         NextCalls(t) = {}
  PROVE  \A k \in UserIds : shelf[k] = Target(t)[k]
<1>1. ToPut(t) = {} /\ ToDrop(t) = {}
  BY DEF NextCalls
<1>2. \A k \in SkillIds \ Staged(t) : t.list[k] = Target(t)[k]
  BY <1>1 DEF ToPut, ToDrop
<1>3. \A k \in UserIds \ Staged(t) : shelf[k] = t.list[k]
  BY DEF HostOK, Restores, Base
<1>4. \A k \in UserIds \cap Staged(t) : shelf[k] = Target(t)[k]
  BY DEF HostOK
<1> QED
  BY <1>2, <1>3, <1>4 DEF UserIds

LEMMA Step_agent_host_user_skills == ASSUME IndInv, NEW r \in Tasks, agent_host_user_skills(r) PROVE IndInv'
<1>0. req[r] \in Tasked /\ req[r].pc = "list" /\ StageOK(req[r]) /\ HostOK(req[r]) /\ MatchOK(req[r]) /\ ValidOK(req[r])
  BY Typed, OfTask DEF agent_host_user_skills, At
<1>1. Locked(req[r]) /\ ~Guarded(req[r]) /\ req[r].op \in ListOps /\ req[r].done = <<>>
  BY <1>0 DEF Locked, Guarded, StageOK
<1>2. drift = "no" => SameSkills
  BY <1>0, <1>1 DEF HostOK
<1>3. /\ UNCHANGED <<configVars, values, scenario, hostVars>> /\ secretOps' = secretOps /\ late' = late
      /\ doc' = doc /\ shelf' = shelf /\ past' = past
  BY DEF agent_host_user_skills, Rest, configVars, hostVars
<1>4. CASE Fault("call") /\ Return(r) /\ UNCHANGED drift
  <2>1. faults' \in 0..MaxFaults
    BY <1>4, FaultTyped
  <2> QED
    BY <1>1, <1>2, <1>3, <1>4, <2>1, ReturnQuiet
<1>5. CASE /\ Put(r, [req[r] EXCEPT !.pc = "stage",
                      !.list = [k \in SkillIds |-> IF k \in Builtins THEN NoDir ELSE shelf[k]]])
           /\ drift' = IF drift = "since" THEN "before" ELSE drift
           /\ UNCHANGED applyLock /\ NoFault
  <2>1. PICK l : l = [k \in SkillIds |-> IF k \in Builtins THEN NoDir ELSE shelf[k]]
    OBVIOUS
  <2>2. l \in [SkillIds -> Dirs] /\ \A k \in UserIds : l[k] = shelf[k]
    BY <2>1, SkillHostAssumption DEF IndInv, TypeOK, HostTypeOK, UserIds
  <2>3. PICK t : t = [req[r] EXCEPT !.pc = "stage", !.list = l]
    OBVIOUS
  <2>4. req' = [req EXCEPT ![r] = t]
    BY <1>5, <2>1, <2>3 DEF Put
  <2>5. t \in Tasked
    <3>1. "stage" \in Pcs
      BY DEF Pcs
    <3> QED
      BY <1>0, <2>2, <2>3, <3>1 DEF Tasked
  <2>6. /\ t.pc = "stage" /\ t.op = req[r].op /\ t.list = l /\ t.done = <<>> /\ t.src = req[r].src /\ t.exp = req[r].exp
        /\ t.seen = req[r].seen /\ t.known = req[r].known /\ t.c = req[r].c
    BY <1>0, <1>1, <2>3 DEF Tasked
  <2>7. StageOK(t) /\ ValidOK(t) /\ MatchOK(t) /\ Locked(t) /\ ~Guarded(t)
    BY <1>0, <1>1, <2>6 DEF StageOK, ValidOK, MatchOK, Locked, Guarded
  <2>8. drift' \in {"no", "before", "since"} /\ (drift' = "no" => drift = "no")
    BY <1>5 DEF IndInv, TypeOK
  <2>9. HostOK(t)'
    <3>1. Staged(t) = {} /\ Base(t)' = l
      BY <1>1, <2>6 DEF Staged, Base
    <3>2. drift' = "no" => \A k \in UserIds : l[k] = doc.skills[k]
      BY <1>2, <2>2, <2>8 DEF SameSkills
    <3>3. Restores(t)'
      BY <1>3, <2>2, <2>6, <3>1, <3>2 DEF Restores
    <3> QED
      BY <2>6, <3>1, <3>3 DEF HostOK
  <2>10. faults' \in 0..MaxFaults /\ applyLock' = applyLock /\ applyLock' # Nobody /\ HostTypeOK'
    <3>1. applyLock' = r /\ applyLock' = applyLock
      BY <1>1, <1>5, OfTask
    <3>2. faults' \in 0..MaxFaults
      BY <1>5, FaultTyped
    <3>3. HostTypeOK'
      BY <1>3 DEF HostTypeOK, IndInv, TypeOK
    <3> QED
      BY <3>1, <3>2, <3>3, ConfigAssumption DEF Tasks
  <2> QED
    BY <1>1, <1>3, <2>4, <2>5, <2>7, <2>8, <2>9, <2>10, LateStays, HostStep
<1> QED
  BY <1>4, <1>5 DEF agent_host_user_skills

LEMMA Step_StageOver == ASSUME IndInv, NEW r \in Tasks, StageOver(r) PROVE IndInv'
<1>0. req[r] \in Tasked /\ req[r].pc = "stage" /\ StageOK(req[r]) /\ HostOK(req[r]) /\ NextCalls(req[r]) = {}
  BY Typed, OfTask DEF StageOver, At
<1>1. Locked(req[r]) /\ ~Guarded(req[r]) /\ req[r].op \in ListOps
  BY <1>0 DEF Locked, Guarded, StageOK
<1>2. /\ UNCHANGED <<configVars, values, scenario, hostVars>> /\ secretOps' = secretOps /\ late' = late
      /\ doc' = doc /\ shelf' = shelf /\ past' = past /\ faults' \in 0..MaxFaults
  BY FaultTyped DEF StageOver, Rest, configVars, hostVars
<1>3. CASE req[r].op = "apply"
  <2>1. Goto(r, "check") /\ applyLock' = applyLock /\ drift' = drift
    BY <1>3 DEF StageOver
  <2> QED
    BY <1>0, <1>2, <1>3, <2>1, StagedGoes
<1>4. CASE req[r].op # "apply"
  <2>1. Return(r) /\ drift' = IF drift = "before" THEN "no" ELSE drift
    BY <1>4 DEF StageOver, Known
  <2>2. drift' = "no" => SameSkills'
    <3> SUFFICES ASSUME drift' = "no" PROVE SameSkills'
      OBVIOUS
    <3>1. Trusted(req[r])
      BY <1>1, <2>1 DEF Trusted
    <3>2. Target(req[r]) = doc.skills
      BY <1>4 DEF Target
    <3> QED
      BY <1>0, <1>1, <1>2, <3>1, <3>2, AllStaged DEF SameSkills
  <2>3. drift' \in {"no", "before", "since"} /\ HostTypeOK'
    BY <1>2, <2>1 DEF IndInv, TypeOK, HostTypeOK
  <2> QED
    BY <1>1, <1>2, <2>1, <2>2, <2>3, LateStays, HostReturn
<1> QED
  BY <1>3, <1>4

LEMMA Step_stage_skills == ASSUME IndInv, NEW r \in Tasks, stage_skills(r) PROVE IndInv'
<1>0. req[r] \in Tasked /\ req[r].pc = "stage" /\ StageOK(req[r]) /\ HostOK(req[r]) /\ ValidOK(req[r]) /\ MatchOK(req[r])
  BY Typed, OfTask DEF stage_skills, At
<1>1. Locked(req[r]) /\ ~Guarded(req[r]) /\ req[r].op \in ListOps
  BY <1>0 DEF Locked, Guarded, StageOK
<1>2. PICK x \in NextCalls(req[r]) :
          \/ Succeeds(x) /\ Put(r, [req[r] EXCEPT !.done = Append(@, Inverse(req[r], x))])
          \/ Fails(x) /\ Goto(r, "undo")
  BY DEF stage_skills
<1>3. /\ SoundCall(x) /\ x.k \in SkillIds \ Staged(req[r]) /\ After(x) = Target(req[r])[x.k]
      /\ x.call = "create" <=> req[r].list[x.k] = NoDir
  BY <1>0, <1>2, NextCallSound
<1>4. /\ UNCHANGED <<configVars, values, scenario>> /\ secretOps' = secretOps /\ applyLock' = applyLock
      /\ late' = late /\ doc' = doc
  BY DEF stage_skills, KeepLocks, Rest, configVars
<1>5. applyLock' # Nobody
  BY <1>1, <1>4, OfTask, ConfigAssumption DEF Tasks
<1>6. CASE Succeeds(x) /\ Put(r, [req[r] EXCEPT !.done = Append(@, Inverse(req[r], x))])
  <2>1. Do(x) /\ drift' = drift /\ faults' = faults
    BY <1>6 DEF Succeeds
  <2>2. /\ HostTypeOK' /\ x.k \in UserIds /\ shelf'[x.k] = After(x)
        /\ \A k \in SkillIds : k # x.k => shelf'[k] = shelf[k]
    BY <1>3, <2>1, DoFacts DEF IndInv, TypeOK
  <2>3. PICK y : y = Inverse(req[r], x)
    OBVIOUS
  <2>4. /\ SoundCall(y) /\ y.k = x.k
        /\ req[r].list[x.k] = IF y.call = "delete" THEN NoDir ELSE y.c
    <3>1. req[r].list[x.k] \in Dirs /\ x.k \in SkillIds /\ NoDir \in Dirs
      BY <1>0, <1>3, SkillHostAssumption DEF Tasked
    <3>2. x.call \in {"create", "update", "delete"}
      BY <1>3 DEF SoundCall, Calls
    <3>3. CASE x.call = "create"
      <4>1. y = [k |-> x.k, c |-> NoDir, call |-> "delete"]
        BY <2>3, <3>3 DEF Inverse, Call
      <4> QED
        BY <1>3, <3>1, <3>3, <4>1 DEF SoundCall, Calls
    <3>4. CASE x.call = "update"
      <4>1. y = [k |-> x.k, c |-> req[r].list[x.k], call |-> "update"]
        BY <2>3, <3>4 DEF Inverse, Call
      <4> QED
        BY <1>3, <3>1, <3>4, <4>1 DEF SoundCall, Calls
    <3>5. CASE x.call = "delete"
      <4>1. y = [k |-> x.k, c |-> req[r].list[x.k], call |-> "create"]
        BY <2>3, <3>5 DEF Inverse, Call
      <4> QED
        BY <1>3, <3>1, <3>5, <4>1 DEF SoundCall, Calls
    <3> QED
      BY <3>2, <3>3, <3>4, <3>5
  <2>5. PICK t : t = [req[r] EXCEPT !.done = Append(@, y)]
    OBVIOUS
  <2>6. req' = [req EXCEPT ![r] = t]
    BY <1>6, <2>3, <2>5 DEF Put
  <2>7. req[r].done \in Seq(Calls) /\ y \in Calls
    BY <1>0, <2>4 DEF Tasked, SoundCall
  <2>8. t \in Tasked
    <3>1. Append(req[r].done, y) \in Seq(Calls)
      BY <2>7
    <3> QED
      BY <1>0, <2>5, <3>1 DEF Tasked
  <2>9. /\ t.pc = "stage" /\ t.op = req[r].op /\ t.list = req[r].list /\ t.src = req[r].src /\ t.exp = req[r].exp
        /\ t.seen = req[r].seen /\ t.known = req[r].known /\ t.c = req[r].c /\ t.done = Append(req[r].done, y)
    BY <1>0, <2>5 DEF Tasked
  <2>10. PICK n \in Nat : n = Len(req[r].done)
    BY <2>7
  <2>11. /\ Len(t.done) = n + 1 /\ t.done[n + 1] = y /\ \A i \in 1..n : t.done[i] = req[r].done[i]
    BY <2>7, <2>9, <2>10
  <2>12. StageOK(t)
    <3>1. \A i \in 1..n : SoundCall(t.done[i])
      BY <1>0, <2>10, <2>11 DEF StageOK
    <3>2. \A i \in 1..Len(t.done) : SoundCall(t.done[i])
      <4>1. \A i : i \in 1..(n + 1) <=> i \in 1..n \/ i = n + 1
        BY <2>10
      <4> QED
        BY <2>4, <2>11, <3>1, <4>1
    <3> QED
      BY <1>0, <1>1, <2>9, <3>2 DEF StageOK
  <2>13. ValidOK(t) /\ MatchOK(t) /\ Locked(t) /\ ~Guarded(t)
    BY <1>0, <2>9 DEF ValidOK, MatchOK, Locked, Guarded
  <2>14. Staged(t) = Staged(req[r]) \cup {x.k}
    <3>1. DOMAIN t.done = 1..(n + 1) /\ DOMAIN req[r].done = 1..n
      BY <2>7, <2>8, <2>10, <2>11 DEF Tasked
    <3>2. ASSUME NEW k PROVE (\E i \in 1..(n + 1) : k = t.done[i].k) <=> ((\E i \in 1..n : k = req[r].done[i].k) \/ k = x.k)
      <4>1. \A i : i \in 1..(n + 1) <=> i \in 1..n \/ i = n + 1
        BY <2>10
      <4> QED
        BY <2>4, <2>11, <4>1
    <3>3. Staged(t) = {t.done[i].k : i \in 1..(n + 1)} /\ Staged(req[r]) = {req[r].done[i].k : i \in 1..n}
      BY <3>1 DEF Staged
    <3>4. ASSUME NEW k PROVE k \in Staged(t) <=> k \in Staged(req[r]) \cup {x.k}
      BY <3>2, <3>3
    <3> QED
      BY <3>4
  <2>15. HostOK(t)'
    <3>0. Restores(req[r]) /\ Base(req[r]) = req[r].list /\ Base(t)' = req[r].list
      BY <1>0, <1>1, <2>9 DEF HostOK, Base
    <3>1. (Trusted(t)' <=> Trusted(req[r])) /\ Target(t)' = Target(req[r])
      BY <1>4, <2>1, <2>9 DEF Trusted, Target
    <3>2. \A i \in 1..n : req[r].done[i].k \in Staged(req[r])
      BY <2>7, <2>10 DEF Staged
    <3>3. \A i \in 1..Len(t.done) :
            /\ t.done[i].k \in UserIds
            /\ \A j \in 1..Len(t.done) : t.done[i].k = t.done[j].k => i = j
      <4>1. \A i \in 1..n : /\ t.done[i].k \in UserIds /\ t.done[i].k # x.k
                            /\ \A j \in 1..n : t.done[i].k = t.done[j].k => i = j
        BY <1>3, <2>10, <2>11, <3>0, <3>2 DEF Restores
      <4>2. \A i : i \in 1..(n + 1) <=> i \in 1..n \/ i = n + 1
        BY <2>10
      <4> QED
        BY <2>2, <2>4, <2>11, <4>1, <4>2
    <3>4. ASSUME Trusted(req[r])
          PROVE  /\ \A k \in UserIds \ Staged(t) : shelf'[k] = req[r].list[k]
                 /\ \A i \in 1..Len(t.done) :
                      req[r].list[t.done[i].k] = IF t.done[i].call = "delete" THEN NoDir ELSE t.done[i].c
                 /\ \A k \in UserIds \cap Staged(t) : shelf'[k] = Target(req[r])[k]
      <4>1. \A k \in UserIds \ Staged(req[r]) : shelf[k] = req[r].list[k]
        BY <3>0, <3>4 DEF Restores
      <4>2. \A k \in UserIds \ Staged(t) : shelf'[k] = req[r].list[k]
        BY <2>2, <2>14, <4>1 DEF UserIds
      <4>3. \A i \in 1..n : req[r].list[t.done[i].k] = IF t.done[i].call = "delete" THEN NoDir ELSE t.done[i].c
        BY <2>10, <2>11, <3>0, <3>4 DEF Restores
      <4>4. \A i : i \in 1..(n + 1) <=> i \in 1..n \/ i = n + 1
        BY <2>10
      <4>5. \A i \in 1..Len(t.done) :
              req[r].list[t.done[i].k] = IF t.done[i].call = "delete" THEN NoDir ELSE t.done[i].c
        BY <2>4, <2>11, <4>3, <4>4
      <4>6. \A k \in UserIds \cap Staged(req[r]) : shelf[k] = Target(req[r])[k]
        BY <1>0, <3>4 DEF HostOK
      <4>7. \A k \in UserIds \cap Staged(t) : shelf'[k] = Target(req[r])[k]
        BY <1>3, <2>2, <2>14, <4>6 DEF UserIds
      <4> QED
        BY <4>2, <4>5, <4>7
    <3>5. drift' = "no" => \A k \in UserIds : req[r].list[k] = doc'.skills[k]
      BY <1>4, <2>1, <3>0 DEF Restores
    <3>6. Restores(t)'
      <4>1. Trusted(t)' =>
              /\ \A k \in UserIds \ Staged(t) : shelf'[k] = req[r].list[k]
              /\ \A i \in 1..Len(t.done) :
                      req[r].list[t.done[i].k] = IF t.done[i].call = "delete" THEN NoDir ELSE t.done[i].c
        BY <3>1, <3>4
      <4> QED
        BY <3>0, <3>3, <3>5, <4>1 DEF Restores
    <3> QED
      BY <2>9, <3>1, <3>4, <3>6 DEF HostOK
  <2>16. faults' \in 0..MaxFaults /\ drift' \in {"no", "before", "since"}
    BY <2>1 DEF IndInv, TypeOK
  <2> QED
    BY <1>1, <1>4, <1>5, <2>2, <2>6, <2>8, <2>12, <2>13, <2>15, <2>16, LateStays, HostStep
<1>7. CASE Fails(x) /\ Goto(r, "undo")
  <2>1. HostTypeOK' /\ faults' \in 0..MaxFaults /\ (Refused(x) => shelf' = shelf /\ past' = past)
    BY <1>3, <1>7, FailsFacts DEF Fails
  <2>2. drift' \in {"no", "before", "since"} /\ (drift' # "since" => shelf' = shelf /\ drift' = drift)
    BY <1>7, <2>1 DEF Fails, IndInv, TypeOK
  <2>3. PICK t \in Tasked :
         /\ req' = [req EXCEPT ![r] = t] /\ t.pc = "undo"
         /\ t.op = req[r].op /\ t.src = req[r].src /\ t.exp = req[r].exp /\ t.seen = req[r].seen
         /\ t.done = req[r].done /\ t.list = req[r].list /\ t.c = req[r].c /\ t.known = req[r].known
    BY <1>7, GotoTyped DEF Pcs
  <2>4. StageOK(t) /\ MatchOK(t) /\ ValidOK(t) /\ Locked(t) /\ ~Guarded(t)
    BY <1>0, <1>1, <2>3 DEF StageOK, MatchOK, ValidOK, Locked, Guarded
  <2>5. HostOK(t)'
    <3>1. Restores(req[r])
      BY <1>0 DEF HostOK
    <3>2. Staged(t) = Staged(req[r]) /\ (Restores(req[r]) => Restores(t))
      BY <2>3, SameStaged
    <3>3. Restores(t)'
      BY <1>4, <2>2, <3>1, <3>2 DEF Restores, Trusted, Base
    <3> QED
      BY <2>3, <3>3 DEF HostOK
  <2> QED
    BY <1>1, <1>4, <1>5, <2>1, <2>2, <2>3, <2>4, <2>5, LateStays, HostStep
<1> QED
  BY <1>2, <1>6, <1>7

LEMMA Step_compensate_skills == ASSUME IndInv, NEW r \in Tasks, compensate_skills(r) PROVE IndInv'
<1>0. req[r] \in Tasked /\ req[r].pc = "undo" /\ StageOK(req[r]) /\ HostOK(req[r]) /\ ValidOK(req[r]) /\ MatchOK(req[r])
  BY Typed, OfTask DEF compensate_skills, At
<1>1. Locked(req[r]) /\ ~Guarded(req[r]) /\ req[r].op \in ListOps \cup SkillOps /\ Restores(req[r])
  BY <1>0 DEF Locked, Guarded, StageOK, HostOK
<1>2. req[r].done \in Seq(Calls)
  BY <1>0 DEF Tasked
<1>3. PICK n \in Nat : n = Len(req[r].done) /\ n > 0
  BY <1>2 DEF compensate_skills
<1>4. PICK x : x = req[r].done[n]
  OBVIOUS
<1>5. /\ SoundCall(x) /\ x.k \in UserIds
      /\ \A i \in 1..n : req[r].done[i].k = x.k => i = n
  <2>1. n \in 1..Len(req[r].done)
    BY <1>3
  <2> QED
    BY <1>0, <1>1, <1>3, <1>4, <2>1 DEF StageOK, Restores
<1>6. /\ UNCHANGED <<configVars, values, scenario>> /\ secretOps' = secretOps /\ applyLock' = applyLock
      /\ late' = late /\ doc' = doc
  BY DEF compensate_skills, KeepLocks, Rest, configVars
<1>7. applyLock' # Nobody
  BY <1>1, <1>6, OfTask, ConfigAssumption DEF Tasks
<1>8. Succeeds(x) \/ ((Refused(x) \/ Halfway(x)) /\ drift' = "since")
  BY <1>3, <1>4 DEF compensate_skills
<1>9. /\ HostTypeOK' /\ faults' \in 0..MaxFaults /\ drift' \in {"no", "before", "since"}
      /\ drift' # "since" => /\ drift' = drift /\ shelf'[x.k] = After(x)
                             /\ \A k \in SkillIds : k # x.k => shelf'[k] = shelf[k]
  <2>1. CASE Succeeds(x)
    <3>1. Do(x) /\ drift' = drift /\ faults' = faults /\ HostTypeOK /\ drift \in {"no", "before", "since"}
          /\ faults \in 0..MaxFaults
      BY <2>1 DEF Succeeds, IndInv, TypeOK
    <3> QED
      BY <1>5, <3>1, DoFacts
  <2>2. CASE (Refused(x) \/ Halfway(x)) /\ drift' = "since"
    BY <1>5, <2>2, FailsFacts
  <2> QED
    BY <1>8, <2>1, <2>2
<1>10. PICK s : s = SubSeq(req[r].done, 1, n - 1)
  OBVIOUS
<1>11. s \in Seq(Calls) /\ Len(s) = n - 1 /\ \A i \in 1..(n - 1) : s[i] = req[r].done[i]
  BY <1>2, <1>3, <1>10
<1>12. PICK t : t = [req[r] EXCEPT !.done = s]
  OBVIOUS
<1>13. req' = [req EXCEPT ![r] = t]
  BY <1>3, <1>10, <1>12 DEF compensate_skills, Put
<1>14. t \in Tasked
  BY <1>0, <1>11, <1>12 DEF Tasked
<1>15. /\ t.pc = "undo" /\ t.op = req[r].op /\ t.list = req[r].list /\ t.src = req[r].src /\ t.exp = req[r].exp
       /\ t.seen = req[r].seen /\ t.known = req[r].known /\ t.c = req[r].c /\ t.done = s
  BY <1>0, <1>12 DEF Tasked
<1>16. \A i \in 1..(n - 1) : i \in 1..n /\ i # n
  BY <1>3
<1>17. StageOK(t)
  <2>1. \A i \in 1..Len(t.done) : SoundCall(t.done[i])
    BY <1>0, <1>3, <1>11, <1>15, <1>16 DEF StageOK
  <2> QED
    BY <1>0, <1>1, <1>15, <2>1 DEF StageOK
<1>18. ValidOK(t) /\ MatchOK(t) /\ Locked(t) /\ ~Guarded(t)
  BY <1>0, <1>15 DEF ValidOK, MatchOK, Locked, Guarded
<1>19. \A k : k \in Staged(req[r]) => k \in Staged(t) \/ k = x.k
  <2>1. DOMAIN req[r].done = 1..n /\ DOMAIN s = 1..(n - 1)
    BY <1>2, <1>3, <1>11
  <2>2. \A i \in 1..n : i \in 1..(n - 1) \/ i = n
    BY <1>3
  <2>3. ASSUME NEW i \in 1..n PROVE req[r].done[i].k \in Staged(t) \/ req[r].done[i].k = x.k
    <3>1. CASE i \in 1..(n - 1)
      BY <1>11, <1>15, <2>1, <3>1 DEF Staged
    <3>2. CASE i = n
      BY <1>4, <3>2
    <3> QED
      BY <2>2, <3>1, <3>2
  <2> QED
    BY <2>1, <2>3 DEF Staged
<1>20. x.k \in Staged(req[r])
  BY <1>2, <1>3, <1>4 DEF Staged
<1>21. HostOK(t)'
  <2>1. Base(t)' = Base(req[r])
    BY <1>6, <1>15 DEF Base
  <2>2. \A i \in 1..Len(t.done) :
          /\ t.done[i].k \in UserIds
          /\ \A j \in 1..Len(t.done) : t.done[i].k = t.done[j].k => i = j
    BY <1>1, <1>3, <1>11, <1>15, <1>16 DEF Restores
  <2>3. ASSUME Trusted(t)'
        PROVE  /\ \A k \in UserIds \ Staged(t) : shelf'[k] = Base(req[r])[k]
               /\ \A i \in 1..Len(t.done) :
                    Base(req[r])[t.done[i].k] = IF t.done[i].call = "delete" THEN NoDir ELSE t.done[i].c
    <3>1. drift' # "since" /\ Trusted(req[r])
      BY <1>9, <1>15, <2>3 DEF Trusted
    <3>2. /\ \A k \in UserIds \ Staged(req[r]) : shelf[k] = Base(req[r])[k]
          /\ \A i \in 1..n : Base(req[r])[req[r].done[i].k] =
                               IF req[r].done[i].call = "delete" THEN NoDir ELSE req[r].done[i].c
      BY <1>1, <1>3, <3>1 DEF Restores
    <3>3. shelf'[x.k] = Base(req[r])[x.k]
      <4>1. n \in 1..n
        BY <1>3
      <4> QED
        BY <1>4, <1>9, <3>1, <3>2, <4>1 DEF After
    <3>4. \A k \in UserIds \ Staged(t) : shelf'[k] = Base(req[r])[k]
      BY <1>9, <1>19, <1>20, <3>1, <3>2, <3>3 DEF UserIds
    <3>5. \A i \in 1..Len(t.done) :
            Base(req[r])[t.done[i].k] = IF t.done[i].call = "delete" THEN NoDir ELSE t.done[i].c
      BY <1>11, <1>15, <1>16, <3>2
    <3> QED
      BY <3>4, <3>5
  <2>4. drift' = "no" => \A k \in UserIds : Base(req[r])[k] = doc'.skills[k]
    BY <1>1, <1>6, <1>9 DEF Restores
  <2>5. Restores(t)'
    BY <2>1, <2>2, <2>3, <2>4 DEF Restores
  <2> QED
    BY <1>15, <2>5 DEF HostOK
<1> QED
  BY <1>1, <1>6, <1>7, <1>9, <1>13, <1>14, <1>17, <1>18, <1>21, LateStays, HostStep

----------------------------------------------------------------------------
(* Clients that hang up, calls that land late, and a crash.                *)

LEMMA PendingSound ==
  ASSUME IndInv, NEW r \in Tasks, NEW x \in Pending(r), NEW y \in x
  PROVE  SoundCall(y)
<1>1. y \in InFlight(req[r])
  BY DEF Pending
<1>2. StageOK(req[r]) /\ req[r] \in Tasked
  BY OfTask, Typed
<1>3. CASE req[r].pc = "stage"
  BY <1>1, <1>3, NextCallSound DEF InFlight
<1>4. CASE req[r].pc = "undo"
  <2>1. req[r].done # <<>> /\ y = req[r].done[Len(req[r].done)]
    BY <1>1, <1>4 DEF InFlight
  <2>2. Len(req[r].done) \in 1..Len(req[r].done)
    BY <1>2, <2>1 DEF Tasked
  <2> QED
    BY <1>2, <2>1, <2>2 DEF StageOK
<1>5. CASE req[r].pc = "host"
  <2>1. PICK c \in Given(req[r]) : y = HostCall(req[r], c)
    BY <1>1, <1>5 DEF InFlight
  <2> QED
    BY <1>5, <2>1, GivenSound
<1>6. CASE req[r].pc \notin {"stage", "undo", "host"}
  <2>1. InFlight(req[r]) = {}
    BY <1>6 DEF InFlight
  <2> QED
    BY <1>1, <2>1
<1> QED
  BY <1>3, <1>4, <1>5, <1>6

LEMMA Step_Abandon == ASSUME IndInv, NEW r \in Tasks, Abandon(r) PROVE IndInv'
<1>0. req[r].pc \in {"builtins", "lock", "list", "refs", "stage", "host", "undo"} /\ HostOK(req[r])
      /\ (applyLock = r <=> Locked(req[r]))
  BY OfTask DEF Abandon, Working
<1>1. /\ UNCHANGED <<configVars, values, scenario, hostVars>> /\ secretOps' = secretOps /\ Return(r)
      /\ doc' = doc /\ shelf' = shelf /\ past' = past /\ faults' \in 0..MaxFaults
  BY FaultTyped DEF Abandon, configVars, hostVars
<1>2. ~Guarded(req[r])
  BY <1>0 DEF Guarded
<1>3. late' \subseteq Calls /\ LateInv'
  <2>1. PICK x \in Pending(r) : late' = late \cup x
    BY DEF Abandon
  <2>2. \A y \in x : SoundCall(y)
    BY PendingSound
  <2> QED
    BY <2>1, <2>2 DEF IndInv, LateInv, SoundCall
<1>4. HostTypeOK' /\ drift' \in {"no", "before", "since"}
  BY <1>1 DEF Abandon, IndInv, TypeOK, HostTypeOK
<1>5. CASE Locked(req[r])
  <2>1. drift' = "no" => SameSkills'
    <3> SUFFICES ASSUME drift' = "no" PROVE SameSkills'
      OBVIOUS
    <3>1. req[r].pc \in {"builtins", "list"} /\ drift = "no"
      BY <1>0, <1>5 DEF Abandon, Working, Locked
    <3>2. SameSkills
      BY <1>0, <1>5, <3>1 DEF HostOK
    <3> QED
      BY <1>1, <3>2 DEF SameSkills
  <2> QED
    BY <1>1, <1>2, <1>3, <1>4, <1>5, <2>1, HostReturn
<1>6. CASE ~Locked(req[r])
  <2>1. req[r].pc \notin {"stage", "host", "undo"}
    BY <1>6 DEF Locked
  <2>2. InFlight(req[r]) = {} /\ drift' = drift
    BY <2>1 DEF InFlight, Abandon, Working
  <2>3. late' = late
    BY <2>2 DEF Abandon, Pending
  <2> QED
    BY <1>1, <1>2, <1>6, <2>2, <2>3, ReturnQuiet
<1> QED
  BY <1>5, <1>6

\* With drift nobody relies on the shelf.
LEMMA HostDrifts ==
  ASSUME NEW t, HostOK(t), doc' = doc, drift' = "since"
  PROVE  HostOK(t)'
<1>1. Target(t)' = Target(t) /\ Base(t)' = Base(t) /\ ~Trusted(t)'
  BY DEF Target, Base, Trusted
<1>2. ToPut(t)' = ToPut(t) /\ ToDrop(t)' = ToDrop(t)
  BY <1>1 DEF ToPut, ToDrop
<1>3. NextCalls(t)' = NextCalls(t)
  BY <1>1, <1>2 DEF NextCalls
<1>4. Restores(t) => Restores(t)'
  BY <1>1 DEF Restores
<1> QED
  BY <1>1, <1>3, <1>4 DEF HostOK

LEMMA Step_LateCall == ASSUME IndInv, LateCall PROVE IndInv'
<1>1. PICK x \in late :
        /\ late' = late \ {x}
        /\ \/ Do(x) /\ drift' = "since"
           \/ ~Can(x) /\ UNCHANGED <<hostVars, drift>>
        /\ UNCHANGED <<configVars, values, applyLock, secretOps, req, scenario, faults>>
  BY DEF LateCall
<1>2. /\ doc' = doc /\ snaps' = snaps /\ active' = active /\ values' = values /\ applyLock' = applyLock
      /\ secretOps' = secretOps /\ req' = req /\ scenario' = scenario /\ faults' = faults
  BY <1>1 DEF configVars
<1>3. HostTypeOK' /\ drift' \in {"no", "before", "since"} /\ (drift' # "since" => drift' = drift /\ shelf' = shelf)
      /\ (drift' = "since" \/ (drift' = drift /\ shelf' = shelf))
  <2>1. CASE Do(x) /\ drift' = "since"
    <3>1. SoundCall(x) /\ HostTypeOK
      BY DEF IndInv, LateInv, TypeOK
    <3> QED
      BY <2>1, <3>1, DoFacts
  <2>2. CASE UNCHANGED <<hostVars, drift>>
    BY <2>2 DEF hostVars, IndInv, TypeOK, HostTypeOK
  <2> QED
    BY <1>1, <2>1, <2>2
<1>4. TypeOK'
  BY <1>1, <1>2, <1>3 DEF IndInv, TypeOK
<1>5. LateInv' /\ LockInv' /\ StoresAgree'
  <2>1. LateInv'
    BY <1>1 DEF IndInv, LateInv
  <2>2. LockInv'
    BY <1>2 DEF IndInv, LockInv
  <2>3. StoresAgree'
    BY <1>2 DEF IndInv, StoresAgree, NoOrphanValue, RefsResolve, SnapshotIsDocument
  <2> QED
    BY <2>1, <2>2, <2>3
<1>6. HostFollowsDocument'
  BY <1>2, <1>3 DEF IndInv, HostFollowsDocument
<1>7. ASSUME NEW q \in Tasks
      PROVE  StageOK(req'[q]) /\ ValidOK(req'[q]) /\ (MatchOK(req[q]))' /\ (SecretOK(req[q]))' /\ (HostOK(req[q]))'
  <2>1. PICK u : u = req[q] /\ u = req'[q]
    BY <1>2
  <2>2. StageOK(u) /\ ValidOK(u) /\ MatchOK(u) /\ SecretOK(u) /\ HostOK(u)
    BY <2>1, OfTask
  <2>3. MatchOK(u)'
    BY <1>2, <2>2 DEF MatchOK
  <2>4. SecretOK(u)'
    BY <1>2, <2>2, SecretStays
  <2>5. HostOK(u)'
    BY <1>2, <1>3, <2>2, HostDrifts, HostStays
  <2>6. MatchOK(u)' => (MatchOK(req[q]))'
    BY <2>1 DEF MatchOK
  <2>7. SecretOK(u)' => (SecretOK(req[q]))'
    BY <2>1 DEF SecretOK, blocked
  <2>8. HostOK(u)' => (HostOK(req[q]))'
    BY <2>1, Zenon
  <2> QED
    BY <2>1, <2>2, <2>3, <2>4, <2>5, <2>6, <2>7, <2>8
<1>8. TasksInv'
  BY <1>7 DEF TasksInv
<1> QED
  BY <1>4, <1>5, <1>6, <1>8 DEF IndInv

LEMMA Step_Crash == ASSUME IndInv, Crash PROVE IndInv'
<1>1. /\ snaps' = snaps /\ active' = active /\ values' = values /\ scenario' = scenario /\ shelf' = shelf /\ past' = past
      /\ applyLock' = Nobody /\ secretOps' = Nobody /\ faults' \in 0..MaxFaults
      /\ drift' = IF applyLock = Nobody THEN drift ELSE "since"
  BY FaultTyped DEF Crash, hostVars
<1>2. doc' = doc
  BY DEF Crash, IndInv, StoresAgree, SnapshotIsDocument
<1>3. ASSUME NEW q \in Tasks
      PROVE  /\ req'[q] \in Tasked /\ req'[q].pc \in {"lock", "idle", "over"}
             /\ StageOK(req'[q]) /\ (req'[q].pc = "lock" => req'[q].op = "reconcile")
  <2>1. CASE q = Startup
    <3>1. PICK t \in Tasked : t = Blank("reconcile", "lock") /\ t.op = "reconcile" /\ t.pc = "lock" /\ t.done = <<>>
      BY BlankTyped DEF Ops, Pcs
    <3>2. StageOK(t)
      BY <3>1 DEF StageOK, ListOps
    <3>3. req'[q] = t
      BY <2>1, <3>1 DEF Crash
    <3> QED
      BY <3>1, <3>2, <3>3
  <2>2. CASE q # Startup /\ At(q, "idle")
    <3>1. req'[q] = req[q]
      BY <2>2 DEF Crash
    <3> QED
      BY <2>2, <3>1, OfTask, Typed DEF At
  <2>3. CASE q # Startup /\ ~At(q, "idle")
    <3>1. PICK t \in Tasked : t = Blank(req[q].op, "over") /\ t.pc = "over" /\ StageOK(t)
      BY Typed, OverOK
    <3>2. req'[q] = t
      BY <2>3, <3>1 DEF Crash
    <3> QED
      BY <3>1, <3>2
  <2> QED
    BY <2>1, <2>2, <2>3
<1>4. req' \in [Tasks -> Tasked]
  <2>1. req' = [q \in Tasks |-> req'[q]]
    BY DEF Crash
  <2> QED
    BY <1>3, <2>1
<1>5. late' \subseteq Calls /\ LateInv'
  <2>1. PICK x \in {{}} \cup UNION {Pending(q) : q \in Tasks} : late' = late \cup x
    BY DEF Crash
  <2>2. \A y \in x : SoundCall(y)
    BY PendingSound
  <2> QED
    BY <2>1, <2>2 DEF IndInv, LateInv, SoundCall
<1>6. TypeOK'
  BY <1>1, <1>2, <1>4, <1>5 DEF IndInv, TypeOK, HostTypeOK
<1>7. StoresAgree'
  BY <1>1, <1>2 DEF IndInv, StoresAgree, NoOrphanValue, RefsResolve, SnapshotIsDocument
<1>8. HostFollowsDocument'
  BY <1>1, <1>2 DEF IndInv, HostFollowsDocument
<1>9. LockInv'
  <2>1. Nobody \notin Tasks
    BY ConfigAssumption DEF Tasks
  <2>2. \A q \in Tasks : ~Locked(req'[q]) /\ ~Guarded(req'[q])
    BY <1>3 DEF Locked, Guarded
  <2> QED
    BY <1>1, <2>1, <2>2 DEF LockInv
<1>10. ASSUME NEW q \in Tasks
       PROVE  StageOK(req'[q]) /\ ValidOK(req'[q]) /\ (MatchOK(req[q]))' /\ (SecretOK(req[q]))' /\ (HostOK(req[q]))'
  <2>1. PICK u : u = req'[q]
    OBVIOUS
  <2>2. u.pc \in {"lock", "idle", "over"} /\ StageOK(u) /\ (u.pc = "lock" => u.op = "reconcile")
    BY <1>3, <2>1
  <2>3. ValidOK(u) /\ MatchOK(u)' /\ ~Locked(u) /\ ~Guarded(u)
    BY <2>2 DEF ValidOK, MatchOK, Locked, Guarded
  <2>4. SecretOK(u)' /\ HostOK(u)'
    BY <2>3, SecretFreeNext, HostFreeNext
  <2>5. MatchOK(u)' => (MatchOK(req[q]))'
    BY <2>1 DEF MatchOK
  <2>6. SecretOK(u)' => (SecretOK(req[q]))'
    BY <2>1 DEF SecretOK, blocked
  <2>7. HostOK(u)' => (HostOK(req[q]))'
    BY <2>1, Zenon
  <2> QED
    BY <2>1, <2>2, <2>3, <2>4, <2>5, <2>6, <2>7
<1>11. TasksInv'
  BY <1>10 DEF TasksInv
<1> QED
  BY <1>5, <1>6, <1>7, <1>8, <1>9, <1>11 DEF IndInv

----------------------------------------------------------------------------
(* Steps that change the document.                                         *)

\* what publishing leaves of the stores
Published(d) ==
  /\ doc' = d /\ d \in Docs /\ snaps' \in Seq(Bytes) /\ active' \in 0..Len(snaps')
  /\ Grows /\ RefsResolve' /\ SnapshotIsDocument'

LEMMA PublishFacts ==
  ASSUME IndInv, NEW b \in Bytes, validate_mutation(b.doc), Publish(b)
  PROVE  Published(b.doc)
<1>0. snaps \in Seq(Bytes) /\ Len(snaps) \in Nat
  BY DEF IndInv, TypeOK
<1>1. doc' = b.doc /\ b.doc \in Docs
  BY DEF Publish, Bytes
<1>2. RefsResolve'
  BY <1>1 DEF RefsResolve
<1>3. /\ snaps' \in Seq(Bytes) /\ active' \in 1..Len(snaps') /\ Grows /\ snaps'[active'] = b
  <2>1. CASE \E g \in 1..Len(snaps) : snaps[g] = b /\ active' = g /\ UNCHANGED snaps
    BY <1>0, <2>1 DEF Grows
  <2>2. CASE snaps' = Append(snaps, b) /\ active' = Len(snaps) + 1
    BY <1>0, <2>2 DEF Grows
  <2> QED
    BY <2>1, <2>2 DEF Publish, insert_and_activate
<1>4. SnapshotIsDocument' /\ active' \in 0..Len(snaps')
  BY <1>1, <1>3 DEF SnapshotIsDocument
<1> QED
  BY <1>1, <1>2, <1>3, <1>4 DEF Published

LEMMA UnpublishedFacts == ASSUME IndInv, UNCHANGED configVars PROVE Published(doc)
<1>1. doc' = doc /\ snaps' = snaps /\ active' = active
  BY DEF configVars
<1>2. RefsResolve' /\ SnapshotIsDocument'
  BY <1>1 DEF IndInv, StoresAgree, RefsResolve, SnapshotIsDocument
<1> QED
  BY <1>1, <1>2 DEF Published, Grows, IndInv, TypeOK

LEMMA MutateFacts == ASSUME IndInv, NEW d \in Docs, mutate(d) PROVE Published(d)
<1>1. CASE d = doc
  BY <1>1, UnpublishedFacts DEF mutate
<1>2. CASE d # doc
  <2>1. PICK b : b = [doc |-> d, form |-> "canonical"]
    OBVIOUS
  <2>2. b \in Bytes /\ b.doc = d
    BY <2>1 DEF Bytes
  <2>3. validate_mutation(b.doc) /\ Publish(b)
    BY <1>2, <2>1, <2>2 DEF mutate
  <2> QED
    BY <2>2, <2>3, PublishFacts
<1> QED
  BY <1>1, <1>2

LEMMA ValidIsMutation == ASSUME NEW d, NEW known, validate(d, known) PROVE validate_mutation(d)
BY DEF validate, validate_mutation, validate_inner, validate_agents

\* A handler ends with a mutation that leaves the skills alone.
LEMMA DocStep ==
  ASSUME IndInv, NEW r \in Tasks, NEW op \in Ops, req' = [req EXCEPT ![r] = Blank(op, "over")],
         NEW d, Published(d), d.skills = doc.skills,
         UNCHANGED <<hostVars, drift, late, scenario>>, faults' \in 0..MaxFaults,
         values' \subseteq Secrets, values' \subseteq d.secrets,
         (d.secrets = doc.secrets /\ values' = values) \/ secretOps = r,
         applyLock' = (IF applyLock = r THEN Nobody ELSE applyLock),
         secretOps' = (IF secretOps = r THEN Nobody ELSE secretOps),
         Locked(req[r]) /\ drift = "no" => SameSkills
  PROVE  IndInv'
<1>1. PICK t \in Tasked :
           /\ t = Blank(op, "over") /\ StageOK(t) /\ ValidOK(t) /\ MatchOK(t)'
           /\ SecretOK(t)' /\ HostOK(t)' /\ ~Locked(t) /\ ~Guarded(t)
  BY OverOK
<1>2. shelf' = shelf /\ past' = past /\ drift' = drift /\ late' = late /\ scenario' = scenario
  BY DEF hostVars
<1>3. doc' = d /\ doc' \in Docs /\ snaps' \in Seq(Bytes) /\ active' \in 0..Len(snaps') /\ Grows
  BY DEF Published
<1>4. StoresAgree'
  BY <1>3 DEF StoresAgree, NoOrphanValue, Published
<1>5. Nobody \notin Tasks /\ applyLock \in Tasks \cup {Nobody} /\ secretOps \in Tasks \cup {Nobody}
      /\ (applyLock = r <=> Locked(req[r]))
  BY ConfigAssumption, OfTask DEF Tasks, IndInv, TypeOK
<1>6. HostFollowsDocument'
  <2>1. applyLock' = Nobody /\ drift = "no" => SameSkills
    BY <1>5 DEF IndInv, HostFollowsDocument, SameSkills, UserIds
  <2> QED
    BY <1>2, <1>3, <2>1 DEF HostFollowsDocument, SameSkills, UserIds
<1>7. /\ applyLock' = r <=> Locked(t)
      /\ secretOps' = r <=> Guarded(t)
      /\ \A q \in Tasks : q # r => (applyLock' = q <=> applyLock = q) /\ (secretOps' = q <=> secretOps = q)
      /\ applyLock' \in Tasks \cup {Nobody} /\ secretOps' \in Tasks \cup {Nobody}
  BY <1>1, <1>5
<1>8. HostTypeOK' /\ drift' \in {"no", "before", "since"}
  BY <1>2 DEF IndInv, TypeOK, HostTypeOK
<1>9. secretOps = r \/ (doc'.secrets = doc.secrets /\ values' = values)
  BY <1>3
<1>10. shelf' = shelf /\ doc'.skills = doc.skills /\ drift' = drift
  BY <1>2, <1>3
<1> QED
  BY <1>1, <1>2, <1>3, <1>4, <1>6, <1>7, <1>8, <1>9, <1>10, LateStays, TaskStep

\* Documents that differ from the active one in one place.
LEMMA AgentTyped ==
  ASSUME NEW d \in Docs, NEW a \in Agents, NEW n \in {NoAgent} \cup AgentRecords
  PROVE  WithAgent(d, a, n) \in Docs /\ WithAgent(d, a, n).skills = d.skills /\ WithAgent(d, a, n).secrets = d.secrets
BY DEF WithAgent, Docs

LEMMA HoldTyped ==
  ASSUME NEW d \in Docs, NEW h \in Holders, NEW s \in {Absent, Literal} \cup Secrets
  PROVE  LET e == [d EXCEPT !.holds[h] = s] IN e \in Docs /\ e.skills = d.skills /\ e.secrets = d.secrets
BY DEF Docs

LEMMA GatewayTyped ==
  ASSUME NEW d \in Docs, NEW g \in Gateways, NEW a \in {Absent} \cup Agents
  PROVE  LET e == [d EXCEPT !.gateways[g] = a] IN e \in Docs /\ e.skills = d.skills /\ e.secrets = d.secrets
BY DEF Docs

LEMMA SkillTyped ==
  ASSUME NEW d \in Docs, NEW k \in SkillIds, NEW c \in Dirs
  PROVE  LET e == WithSkill(d, k, c)
         IN e \in Docs /\ e.secrets = d.secrets /\ e.skills[k] = c /\ \A j \in SkillIds : j # k => e.skills[j] = d.skills[j]
BY DEF WithSkill, Docs

\* A mutation that succeeds, or fails and changes nothing.
LEMMA OnceStep ==
  ASSUME IndInv, NEW r \in Tasks, NEW op \in Ops, NEW d \in Docs, Once(r, op, d),
         d.skills = doc.skills, d.secrets = doc.secrets
  PROVE  IndInv'
<1>1. /\ req' = [req EXCEPT ![r] = Blank(op, "over")] /\ UNCHANGED <<hostVars, drift, late, scenario>>
      /\ values' = values /\ applyLock' = applyLock /\ secretOps' = secretOps /\ faults' \in 0..MaxFaults
  BY FaultTyped DEF Once, Put, Rest, mutate_fails, NoFault
<1>2. ~Locked(req[r]) /\ ~Guarded(req[r])
  BY DEF Once, At, Locked, Guarded
<1>3. applyLock # r /\ secretOps # r
  BY <1>2, OfTask
<1>4. values \subseteq Secrets /\ values \subseteq doc.secrets
  BY DEF IndInv, TypeOK, StoresAgree, NoOrphanValue
<1>5. CASE mutate(d)
  <2>1. Published(d)
    BY <1>5, MutateFacts
  <2> QED
    BY <1>1, <1>2, <1>3, <1>4, <2>1, DocStep
<1>6. CASE mutate_fails(d)
  <2>1. Published(doc)
    BY <1>6, UnpublishedFacts DEF mutate_fails
  <2> QED
    BY <1>1, <1>2, <1>3, <1>4, <2>1, DocStep
<1> QED
  BY <1>5, <1>6 DEF Once

LEMMA Step_Once ==
  ASSUME IndInv, NEW r \in Tasks,
         delete_connection(r) \/ write_kernel_config(r) \/ delete_agent(r) \/ write_gateway(r)
  PROVE  IndInv'
<1>0. doc \in Docs
  BY DEF IndInv, TypeOK
<1>1. CASE delete_connection(r)
  <2>1. PICK h \in Conns : Once(r, "disconnect", [doc EXCEPT !.holds[h] = Absent])
    BY <1>1 DEF delete_connection
  <2>2. PICK d : d = [doc EXCEPT !.holds[h] = Absent]
    OBVIOUS
  <2>3. d \in Docs /\ d.skills = doc.skills /\ d.secrets = doc.secrets
    BY <1>0, <2>2, HoldTyped DEF Holders
  <2> QED
    BY <2>1, <2>2, <2>3, OnceStep DEF Ops
<1>2. CASE write_kernel_config(r)
  <2>1. PICK h \in Kernels, s \in {Absent, Literal} \cup Secrets : Once(r, "kernel", [doc EXCEPT !.holds[h] = s])
    BY <1>2 DEF write_kernel_config
  <2>2. PICK d : d = [doc EXCEPT !.holds[h] = s]
    OBVIOUS
  <2>3. d \in Docs /\ d.skills = doc.skills /\ d.secrets = doc.secrets
    BY <1>0, <2>2, HoldTyped DEF Holders
  <2> QED
    BY <2>1, <2>2, <2>3, OnceStep DEF Ops
<1>3. CASE delete_agent(r)
  <2>1. PICK a \in Agents : Once(r, "delete_agent", WithAgent(doc, a, NoAgent))
    BY <1>3 DEF delete_agent
  <2>2. PICK d : d = WithAgent(doc, a, NoAgent)
    OBVIOUS
  <2>3. d \in Docs /\ d.skills = doc.skills /\ d.secrets = doc.secrets
    BY <1>0, <2>2, AgentTyped
  <2> QED
    BY <2>1, <2>2, <2>3, OnceStep DEF Ops
<1>4. CASE write_gateway(r)
  <2>1. PICK g \in Gateways, a \in {Absent} \cup Agents : Once(r, "gateway", [doc EXCEPT !.gateways[g] = a])
    BY <1>4 DEF write_gateway
  <2>2. PICK d : d = [doc EXCEPT !.gateways[g] = a]
    OBVIOUS
  <2>3. d \in Docs /\ d.skills = doc.skills /\ d.secrets = doc.secrets
    BY <1>0, <2>2, GatewayTyped
  <2> QED
    BY <2>1, <2>2, <2>3, OnceStep DEF Ops
<1> QED
  BY <1>1, <1>2, <1>3, <1>4

LEMMA Step_update_agent == ASSUME IndInv, NEW r \in Tasks, update_agent(r) PROVE IndInv'
<1>0. doc \in Docs /\ req[r].op \in Ops /\ req[r].pc = "write" /\ req[r].a \in Agents /\ req[r].rec \in AgentRecords
  BY Typed, OfTask DEF IndInv, TypeOK, update_agent, At, StageOK
<1>1. /\ req' = [req EXCEPT ![r] = Blank(req[r].op, "over")] /\ UNCHANGED <<hostVars, drift, late, scenario>>
      /\ values' = values /\ applyLock' = applyLock /\ secretOps' = secretOps /\ faults' \in 0..MaxFaults
  BY FaultTyped DEF update_agent, Returns, Over, Put, Rest, mutate_fails, NoFault
<1>2. ~Locked(req[r]) /\ ~Guarded(req[r])
  BY <1>0 DEF Locked, Guarded
<1>3. applyLock # r /\ secretOps # r
  BY <1>2, OfTask
<1>4. values \subseteq Secrets /\ values \subseteq doc.secrets
  BY DEF IndInv, TypeOK, StoresAgree, NoOrphanValue
<1>5. PICK d : d = WithAgent(doc, req[r].a, req[r].rec)
  OBVIOUS
<1>6. d \in Docs /\ d.skills = doc.skills /\ d.secrets = doc.secrets
  BY <1>0, <1>5, AgentTyped
<1>7. CASE mutate(d)
  <2>1. Published(d)
    BY <1>6, <1>7, MutateFacts
  <2> QED
    BY <1>0, <1>1, <1>2, <1>3, <1>4, <1>6, <2>1, DocStep
<1>8. CASE UNCHANGED configVars
  <2>1. Published(doc)
    BY <1>8, UnpublishedFacts
  <2> QED
    BY <1>0, <1>1, <1>2, <1>3, <1>4, <2>1, DocStep
<1> QED
  BY <1>5, <1>7, <1>8 DEF update_agent, mutate_fails

LEMMA Step_add_agent_skill == ASSUME IndInv, NEW r \in Tasks, add_agent_skill(r) PROVE IndInv'
<1>0. doc \in Docs /\ req[r].op \in Ops /\ req[r].pc = "enable" /\ req[r].a \in Agents /\ HostOK(req[r])
      /\ req[r].k \in SkillIds
  BY Typed, OfTask DEF IndInv, TypeOK, add_agent_skill, At, StageOK, Tasked
<1>1. /\ req' = [req EXCEPT ![r] = Blank(req[r].op, "over")] /\ UNCHANGED <<hostVars, drift, late, scenario>>
      /\ values' = values /\ secretOps' = secretOps /\ faults' \in 0..MaxFaults
      /\ applyLock' = (IF applyLock = r THEN Nobody ELSE applyLock)
  BY FaultTyped DEF add_agent_skill, Return, Over, Release, Put, Rest, mutate_fails, NoFault
<1>2. Locked(req[r]) /\ ~Guarded(req[r])
  BY <1>0 DEF Locked, Guarded
<1>3. secretOps # r /\ (drift = "no" => SameSkills)
  BY <1>0, <1>2, OfTask DEF HostOK
<1>4. values \subseteq Secrets /\ values \subseteq doc.secrets
  BY DEF IndInv, TypeOK, StoresAgree, NoOrphanValue
<1>5. PICK d : d = Enabled(req[r].a, req[r].k)
  OBVIOUS
<1>6. CASE doc.agents[req[r].a] # NoAgent /\ mutate(d)
  <2>1. PICK n : n = [doc.agents[req[r].a] EXCEPT !.skills = @ \cup {req[r].k}]
    OBVIOUS
  <2>2. n \in AgentRecords
    BY <1>0, <1>6, <2>1 DEF Docs, AgentRecords
  <2>3. d = WithAgent(doc, req[r].a, n)
    BY <1>5, <2>1 DEF Enabled
  <2>4. d \in Docs /\ d.skills = doc.skills /\ d.secrets = doc.secrets
    BY <1>0, <2>2, <2>3, AgentTyped
  <2>5. Published(d)
    BY <1>6, <2>4, MutateFacts
  <2> QED
    BY <1>0, <1>1, <1>2, <1>3, <1>4, <2>4, <2>5, DocStep
<1>7. CASE UNCHANGED configVars
  <2>1. Published(doc)
    BY <1>7, UnpublishedFacts
  <2> QED
    BY <1>0, <1>1, <1>2, <1>3, <1>4, <2>1, DocStep
<1> QED
  BY <1>5, <1>6, <1>7 DEF add_agent_skill, mutate_fails

\* The routes of secrets end with the document and the values in step, whichever they change.
LEMMA Step_Secret == ASSUME IndInv, NEW r \in Tasks, SecretDone(r) \/ SecretFails(r) PROVE IndInv'
<1>0. /\ doc \in Docs /\ req[r] \in Tasked /\ req[r].op \in Ops /\ req[r].pc = "do" /\ StageOK(req[r]) /\ SecretOK(req[r])
      /\ values \subseteq Secrets /\ values \subseteq doc.secrets
  BY Typed, OfTask DEF IndInv, TypeOK, StoresAgree, NoOrphanValue, SecretDone, SecretFails, At
<1>1. /\ req' = [req EXCEPT ![r] = Blank(req[r].op, "over")] /\ UNCHANGED <<hostVars, drift, late, scenario>>
      /\ applyLock' = applyLock /\ secretOps' = Nobody /\ faults' \in 0..MaxFaults
  BY FaultTyped DEF SecretDone, SecretFails, Returns, Over, Put, Rest, mutate_fails, NoFault
<1>2. ~Locked(req[r]) /\ Guarded(req[r])
  BY <1>0 DEF Locked, Guarded
<1>3. applyLock # r /\ secretOps = r
  BY <1>2, OfTask
<1>4. CASE SecretFails(r)
  <2>1. UNCHANGED configVars /\ values' = values
    BY <1>4 DEF SecretFails, mutate_fails
  <2>2. Published(doc)
    BY <2>1, UnpublishedFacts
  <2> QED
    BY <1>0, <1>1, <1>2, <1>3, <2>1, <2>2, DocStep
<1>5. CASE SecretDone(r)
  <2>1. PICK d : d = SecretDoc(req[r]) /\ mutate(d)
    BY <1>5 DEF SecretDone
  <2>2. values' = SecretValues(req[r])
    BY <1>5 DEF SecretDone
  <2>3. req[r].op \in SecretOps
    BY <1>0 DEF StageOK
  <2>4. d \in Docs /\ d.skills = doc.skills /\ values' \subseteq Secrets /\ values' \subseteq d.secrets
    <3>1. CASE req[r].op = "declare"
      <4>1. d = [doc EXCEPT !.secrets = @ \cup {req[r].s}] /\ values' = values /\ req[r].s \in Secrets
        BY <1>0, <2>1, <2>2, <3>1 DEF SecretDoc, SecretValues, StageOK
      <4> QED
        BY <1>0, <4>1 DEF Docs
    <3>2. CASE req[r].op = "undeclare"
      <4>1. d = [doc EXCEPT !.secrets = @ \ {req[r].s}] /\ values' = values /\ req[r].s \notin values
        BY <1>0, <2>1, <2>2, <3>2 DEF SecretDoc, SecretValues, SecretOK
      <4> QED
        BY <1>0, <4>1 DEF Docs
    <3>3. CASE req[r].op = "connect"
      <4>1. d = [doc EXCEPT !.holds[req[r].h] = req[r].s] /\ values' = values
        BY <2>1, <2>2, <3>3 DEF SecretDoc, SecretValues
      <4>2. req[r].h \in Holders /\ req[r].s \in {Absent, Literal} \cup Secrets
        BY <1>0 DEF Tasked
      <4> QED
        BY <1>0, <4>1, <4>2, HoldTyped
    <3>4. CASE req[r].op = "set"
      <4>1. d = doc /\ values' = values \cup {req[r].s} /\ req[r].s \in Secrets /\ req[r].s \in doc.secrets
        BY <1>0, <2>1, <2>2, <3>4 DEF SecretDoc, SecretValues, StageOK, SecretOK
      <4> QED
        BY <1>0, <4>1
    <3>5. CASE req[r].op = "clear"
      <4>1. d = doc /\ values' = values \ {req[r].s}
        BY <2>1, <2>2, <3>5 DEF SecretDoc, SecretValues
      <4> QED
        BY <1>0, <4>1
    <3> QED
      BY <2>3, <3>1, <3>2, <3>3, <3>4, <3>5 DEF SecretOps
  <2>5. Published(d)
    BY <2>1, <2>4, MutateFacts
  <2> QED
    BY <1>0, <1>1, <1>2, <1>3, <2>4, <2>5, DocStep
<1> QED
  BY <1>4, <1>5

\* A task that holds apply_lock publishes a document: what is left to show is that
\* the skills it declares are on the shelf.
LEMMA PublishStep ==
  ASSUME IndInv, NEW r \in Tasks, NEW t \in Tasked, req' = [req EXCEPT ![r] = t],
         NEW d, Published(d), Locked(req[r]), ~Guarded(t),
         shelf' = shelf, past' = past, late' = late, scenario' = scenario, values' = values,
         faults' \in 0..MaxFaults, drift' \in {"no", "before", "since"},
         values \subseteq d.secrets, d.secrets = doc.secrets \/ Guarded(req[r]),
         drift' = "no" => \A k \in UserIds : shelf[k] = d.skills[k],
         (applyLock' = applyLock /\ Locked(t)) \/ (applyLock' = Nobody /\ ~Locked(t)),
         secretOps' = (IF secretOps = r THEN Nobody ELSE secretOps),
         StageOK(t), ValidOK(t), MatchOK(t)', HostOK(t)'
  PROVE  IndInv'
<1>1. doc' = d /\ doc' \in Docs /\ snaps' \in Seq(Bytes) /\ active' \in 0..Len(snaps') /\ Grows
  BY DEF Published
<1>2. StoresAgree'
  BY <1>1 DEF StoresAgree, NoOrphanValue, Published
<1>3. Nobody \notin Tasks /\ applyLock = r /\ secretOps \in Tasks \cup {Nobody} /\ (secretOps = r <=> Guarded(req[r]))
      /\ values \subseteq Secrets
  BY ConfigAssumption, OfTask DEF Tasks, IndInv, TypeOK
<1>4. HostFollowsDocument'
  BY <1>1 DEF HostFollowsDocument, UserIds
<1>5. /\ applyLock' = r <=> Locked(t)
      /\ secretOps' = r <=> Guarded(t)
      /\ \A q \in Tasks : q # r => (applyLock' = q <=> applyLock = q) /\ (secretOps' = q <=> secretOps = q)
      /\ applyLock' \in Tasks \cup {Nobody} /\ secretOps' \in Tasks \cup {Nobody}
  BY <1>3
<1>6. HostTypeOK'
  BY DEF IndInv, TypeOK, HostTypeOK
<1>7. SecretOK(t)'
  BY SecretFreeNext
<1>8. secretOps = r \/ (doc'.secrets = doc.secrets /\ values' = values)
  BY <1>1, <1>3
<1> QED
  BY <1>1, <1>2, <1>3, <1>4, <1>5, <1>6, <1>7, <1>8, LateStays, TaskStep

LEMMA Step_commit == ASSUME IndInv, NEW r \in Tasks, commit(r) PROVE IndInv'
<1>0. /\ req[r] \in Tasked /\ req[r].op \in Ops /\ req[r].pc = "publish" /\ StageOK(req[r]) /\ ValidOK(req[r])
      /\ SecretOK(req[r]) /\ HostOK(req[r]) /\ (applyLock = r <=> Locked(req[r])) /\ (secretOps = r <=> Guarded(req[r]))
  BY Typed, OfTask DEF commit, At
<1>1. req[r].op = "apply" /\ req[r].src \in Bytes /\ Locked(req[r]) /\ Guarded(req[r])
  BY <1>0 DEF StageOK, Locked, Guarded
<1>2. PICK d : d = req[r].src.doc
  OBVIOUS
<1>3. Published(d)
  <2>1. validate_mutation(req[r].src.doc)
    BY <1>0, <1>1, ValidIsMutation DEF ValidOK
  <2> QED
    BY <1>1, <1>2, <2>1, PublishFacts DEF commit
<1>4. PICK t \in Tasked :
           /\ t = Blank(req[r].op, "over") /\ StageOK(t) /\ ValidOK(t) /\ MatchOK(t)'
           /\ HostOK(t)' /\ ~Locked(t) /\ ~Guarded(t)
  BY <1>0, OverOK
<1>5. /\ req' = [req EXCEPT ![r] = t] /\ applyLock' = Nobody /\ secretOps' = Nobody
      /\ shelf' = shelf /\ past' = past /\ late' = late /\ scenario' = scenario /\ values' = values
      /\ drift' = IF drift = "before" THEN "no" ELSE drift
  BY <1>0, <1>1, <1>4 DEF commit, Return, Over, Put, Release, Rest, Known, hostVars
<1>6. faults' \in 0..MaxFaults /\ drift' \in {"no", "before", "since"}
  BY <1>5, FaultTyped DEF commit, IndInv, TypeOK
<1>7. values \subseteq d.secrets
  <2>1. blocked(d) = {} /\ values \subseteq doc.secrets
    BY <1>0, <1>2 DEF SecretOK, IndInv, StoresAgree, NoOrphanValue
  <2> QED
    BY <2>1 DEF blocked
<1>8. drift' = "no" => \A k \in UserIds : shelf[k] = d.skills[k]
  <2> SUFFICES ASSUME drift' = "no" PROVE \A k \in UserIds : shelf[k] = d.skills[k]
    OBVIOUS
  <2>1. Trusted(req[r]) /\ req[r].op \in ListOps
    BY <1>1, <1>5 DEF Trusted, ListOps
  <2>2. Target(req[r]) = d.skills
    BY <1>1, <1>2 DEF Target
  <2>3. NextCalls(req[r]) = {}
    BY <1>0 DEF HostOK
  <2> QED
    BY <1>0, <2>1, <2>2, <2>3, AllStaged
<1>9. secretOps' = (IF secretOps = r THEN Nobody ELSE secretOps)
  BY <1>0, <1>1, <1>5
<1> QED
  BY <1>1, <1>3, <1>4, <1>5, <1>6, <1>7, <1>8, <1>9, PublishStep

LEMMA Step_SkillWritten == ASSUME IndInv, NEW r \in Tasks, SkillWritten(r) PROVE IndInv'
<1>0. /\ req[r] \in Tasked /\ req[r].op \in Ops /\ req[r].pc = "doc" /\ StageOK(req[r]) /\ HostOK(req[r])
      /\ (applyLock = r <=> Locked(req[r])) /\ (secretOps = r <=> Guarded(req[r])) /\ doc \in Docs
  BY Typed, OfTask DEF SkillWritten, At, IndInv, TypeOK
<1>1. Locked(req[r]) /\ ~Guarded(req[r]) /\ req[r].k \in UserIds /\ req[r].k \in SkillIds /\ req[r].c \in Dirs
  BY <1>0 DEF Locked, Guarded, HostOK, Tasked
<1>2. PICK d : d = NewDoc(req[r]) /\ mutate(d)
  BY DEF SkillWritten
<1>3. d \in Docs /\ d.secrets = doc.secrets
  BY <1>0, <1>1, <1>2, SkillTyped DEF NewDoc
<1>4. Published(d)
  BY <1>2, <1>3, MutateFacts
<1>5. drift = "no" => \A k \in UserIds : shelf[k] = d.skills[k]
  <2> SUFFICES ASSUME drift = "no" PROVE \A k \in UserIds : shelf[k] = d.skills[k]
    OBVIOUS
  <2>1. /\ shelf[req[r].k] = req[r].c /\ (req[r].prev = NoDir <=> req[r].op = "create_skill")
        /\ \A k \in UserIds \ {req[r].k} : shelf[k] = doc.skills[k]
    BY <1>0 DEF HostOK
  <2>2. d = WithSkill(doc, req[r].k, req[r].c)
    BY <1>2, <2>1 DEF NewDoc
  <2>3. d.skills[req[r].k] = req[r].c /\ \A j \in SkillIds : j # req[r].k => d.skills[j] = doc.skills[j]
    BY <1>0, <1>1, <2>2, SkillTyped
  <2> QED
    BY <2>1, <2>3 DEF UserIds
<1>6. /\ shelf' = shelf /\ past' = past /\ late' = late /\ scenario' = scenario /\ values' = values
      /\ drift' = drift /\ faults' \in 0..MaxFaults /\ secretOps' = secretOps /\ drift' \in {"no", "before", "since"}
      /\ values \subseteq doc.secrets
  BY FaultTyped DEF SkillWritten, Rest, hostVars, IndInv, TypeOK, StoresAgree, NoOrphanValue
<1>7. secretOps' = (IF secretOps = r THEN Nobody ELSE secretOps)
  BY <1>0, <1>1, <1>6
<1>8. CASE Return(r)
  <2>1. PICK t \in Tasked :
             /\ t = Blank(req[r].op, "over") /\ StageOK(t) /\ ValidOK(t) /\ MatchOK(t)'
             /\ HostOK(t)' /\ ~Locked(t) /\ ~Guarded(t)
    BY <1>0, OverOK
  <2>2. req' = [req EXCEPT ![r] = t] /\ applyLock' = Nobody
    BY <1>0, <1>1, <1>8, <2>1 DEF Return, Over, Put, Release
  <2> QED
    BY <1>1, <1>3, <1>4, <1>5, <1>6, <1>7, <2>1, <2>2, PublishStep
<1>9. CASE req[r].op = "create_skill" /\ req[r].a # NoAgent /\ Goto(r, "enable") /\ UNCHANGED applyLock
  <2>1. PICK t \in Tasked :
         /\ req' = [req EXCEPT ![r] = t] /\ t.pc = "enable" /\ t.op = req[r].op /\ t.a = req[r].a
         /\ t.done = req[r].done /\ t.c = req[r].c
    BY <1>9, GotoTyped DEF Pcs
  <2>2. t.a \in Agents
    BY <1>0, <1>9, <2>1 DEF Tasked
  <2>3. StageOK(t)
    BY <1>0, <1>9, <2>1, <2>2 DEF StageOK
  <2>4. ValidOK(t) /\ MatchOK(t)' /\ Locked(t) /\ ~Guarded(t)
    BY <1>9, <2>1 DEF ValidOK, MatchOK, Locked, Guarded
  <2>5. HostOK(t)'
    <3>1. drift' = "no" => SameSkills'
      BY <1>4, <1>5, <1>6 DEF SameSkills, Published
    <3> QED
      BY <2>1, <3>1 DEF HostOK
  <2> QED
    BY <1>1, <1>3, <1>4, <1>5, <1>6, <1>7, <1>9, <2>1, <2>3, <2>4, <2>5, PublishStep
<1> QED
  BY <1>8, <1>9 DEF SkillWritten

----------------------------------------------------------------------------
(* The theorems.                                                           *)

LEMMA InitInv == ASSUME Init PROVE IndInv
<1>1. doc \in FirstDocs /\ doc \in Docs /\ validate_mutation(doc)
  BY ConfigAssumption, FirstDocsValid DEF Init
<1>2. ASSUME NEW q \in Tasks
      PROVE  /\ req[q] \in Tasked /\ req[q].op = "reconcile" /\ req[q].pc \in {"lock", "idle"}
             /\ req[q].done = <<>>
  <2>1. req[q] = Blank("reconcile", "lock") \/ req[q] = Blank("reconcile", "idle")
    BY DEF Init
  <2>2. "reconcile" \in Ops /\ "lock" \in Pcs /\ "idle" \in Pcs
    BY DEF Ops, Pcs
  <2> QED
    BY <2>1, <2>2, BlankTyped
<1>3. TypeOK
  <2>1. req \in [Tasks -> Tasked]
    <3>1. req = [q \in Tasks |-> req[q]]
      BY DEF Init
    <3> QED
      BY <1>2, <3>1
  <2>2. snaps \in Seq(Bytes) /\ Len(snaps) = 1
    <3>1. [doc |-> doc, form |-> "canonical"] \in Bytes
      BY <1>1 DEF Bytes
    <3> QED
      BY <3>1 DEF Init
  <2>3. HostTypeOK
    BY ConfigAssumption DEF Init, HostTypeOK
  <2>4. values \subseteq Secrets
    BY <1>1 DEF Init, Docs
  <2>5. /\ active \in 0..Len(snaps) /\ late \subseteq Calls /\ drift \in {"no", "before", "since"}
        /\ scenario \in Scenarios /\ faults \in 0..MaxFaults
        /\ applyLock \in Tasks \cup {Nobody} /\ secretOps \in Tasks \cup {Nobody}
    BY <2>2, ConfigAssumption DEF Init
  <2> QED
    BY <1>1, <2>1, <2>2, <2>3, <2>4, <2>5 DEF TypeOK
<1>4. \A q \in Tasks : ~Locked(req[q]) /\ ~Guarded(req[q])
  BY <1>2 DEF Locked, Guarded
<1>5. TasksInv
  <2>1. ASSUME NEW q \in Tasks
        PROVE  StageOK(req[q]) /\ ValidOK(req[q]) /\ MatchOK(req[q]) /\ SecretOK(req[q]) /\ HostOK(req[q])
    <3>1. StageOK(req[q])
      BY <1>2 DEF StageOK, ListOps
    <3>2. ValidOK(req[q]) /\ MatchOK(req[q])
      BY <1>2 DEF ValidOK, MatchOK
    <3>3. SecretOK(req[q]) /\ HostOK(req[q])
      BY <1>4, SecretFree, HostFree
    <3> QED
      BY <3>1, <3>2, <3>3
  <2> QED
    BY <2>1 DEF TasksInv
<1>6. LockInv
  <2>1. Nobody \notin Tasks
    BY ConfigAssumption DEF Tasks
  <2> QED
    BY <1>4, <2>1 DEF LockInv, Init
<1>7. LateInv /\ HostFollowsDocument
  BY DEF Init, LateInv, HostFollowsDocument
<1>8. StoresAgree
  <2>1. NoOrphanValue /\ SnapshotIsDocument
    BY DEF Init, NoOrphanValue, SnapshotIsDocument
  <2> QED
    BY <1>1, <2>1 DEF StoresAgree, RefsResolve
<1> QED
  BY <1>3, <1>5, <1>6, <1>7, <1>8 DEF IndInv

LEMMA NextInv == ASSUME IndInv, [Next]_vars PROVE IndInv'
<1>1. ASSUME NEW r \in Tasks, Reconciling(r) PROVE IndInv'
  BY <1>1, Step_acquire, Step_agent_host_user_skills, Step_stage_skills, Step_StageOver, Step_compensate_skills,
     Step_UndoOver DEF Reconciling
<1>2. ASSUME NEW r \in Requests, Serving(r) PROVE IndInv'
  <2>1. r \in Tasks
    BY DEF Tasks
  <2>2. CASE AskApply(r) \/ AskSkill(r) \/ AskSecret(r) \/ AskConnect(r) \/ AskAgent(r)
    BY <2>1, <2>2, Step_AskApply, Step_AskSkill, Step_AskSecret, Step_AskConnect, Step_AskAgent
  <2>3. CASE \/ builtin_skill_ids(r) \/ SkillStaged(r) \/ SkillRefused(r) \/ SkillWritten(r)
             \/ SkillNotWritten(r) \/ add_agent_skill(r)
    BY <2>1, <2>3, Step_builtin_skill_ids, Step_SkillStaged, Step_SkillRefused, Step_SkillWritten,
       Step_SkillNotWritten, Step_add_agent_skill
  <2>4. CASE prepare(r) \/ check_secret_removal(r) \/ commit(r) \/ commit_fails(r)
    BY <2>1, <2>4, Step_prepare, Step_check_secret_removal, Step_commit, Step_commit_fails
  <2>5. CASE lock_secret_ops(r) \/ SecretDone(r) \/ SecretFails(r) \/ validate_agent_skill_refs(r)
             \/ update_agent(r) \/ Abandon(r)
    BY <2>1, <2>5, Step_lock_secret_ops, Step_Secret, Step_validate_agent_skill_refs, Step_update_agent,
       Step_Abandon
  <2>6. CASE delete_connection(r) \/ write_kernel_config(r) \/ delete_agent(r) \/ write_gateway(r)
    BY <2>1, <2>6, Step_Once
  <2> QED
    BY <1>2, <2>2, <2>3, <2>4, <2>5, <2>6 DEF Serving
<1>3. CASE UNCHANGED vars
  <2>1. /\ doc' = doc /\ snaps' = snaps /\ active' = active /\ values' = values /\ applyLock' = applyLock
        /\ secretOps' = secretOps /\ req' = req /\ late' = late /\ drift' = drift /\ scenario' = scenario
        /\ faults' = faults /\ shelf' = shelf /\ past' = past
    BY <1>3 DEF vars, configVars, hostVars
  <2>2. CASE \E q : q \in Tasks
    <3>1. PICK q : q \in Tasks
      BY <2>2
    <3>2. PICK t \in Tasked : t = req[q]
      BY <3>1, Typed
    <3>3. req' = [req EXCEPT ![q] = t]
      BY <2>1, <3>1, <3>2 DEF IndInv, TypeOK
    <3>4. UNCHANGED <<configVars, values, hostVars, drift, late, scenario>> /\ faults' \in 0..MaxFaults
          /\ applyLock' \in Tasks \cup {Nobody} /\ secretOps' \in Tasks \cup {Nobody}
      BY <2>1 DEF configVars, hostVars, IndInv, TypeOK
    <3>5. StageOK(t) /\ ValidOK(t) /\ MatchOK(t) /\ SecretOK(t) /\ HostOK(t)
          /\ (applyLock = q <=> Locked(t)) /\ (secretOps = q <=> Guarded(t))
      BY <3>1, <3>2, OfTask
    <3>6. Nobody \notin Tasks
      BY ConfigAssumption DEF Tasks
    <3> QED
      BY <2>1, <3>1, <3>3, <3>4, <3>5, <3>6, QuietStep
  <2> QED
    BY <2>2 DEF Tasks
<1> QED
  BY <1>1, <1>2, <1>3, Step_LateCall, Step_Crash DEF Next

\* The invariant holds in every reachable state.
THEOREM ConfigInvariant == Spec => []IndInv
<1>1. Init => IndInv
  BY InitInv
<1>2. IndInv /\ [Next]_vars => IndInv'
  BY NextInv
<1> QED
  BY <1>1, <1>2, PTL DEF Spec

\* The variables of the configuration service keep their types, whatever requests, start-up
\* and late calls to agent_host do (state.rs, api.rs).
THEOREM ConfigTypeCorrect == Spec => []TypeOK
<1>1. IndInv => TypeOK
  BY DEF IndInv
<1> QED
  BY <1>1, ConfigInvariant, PTL

\* Every stored secret value is declared, every reference of the active document resolves, and
\* the document in memory is the one the database would restore (state.rs: mutate, commit_apply;
\* api.rs: the secret routes), for any number of requests and any documents.
THEOREM StoresStayInStep == Spec => []StoresAgree
<1>1. IndInv => StoresAgree
  BY DEF IndInv
<1> QED
  BY <1>1, ConfigInvariant, PTL

\* Whenever apply_lock is free and every call to agent_host was answered, the user skills of
\* agent_host are those of the document (api.rs: stage_skills, compensate_skills and the skill
\* routes), for any number of requests, skills and faults.
THEOREM SkillsFollowDocument == Spec => []HostFollowsDocument
<1>1. IndInv => HostFollowsDocument
  BY DEF IndInv
<1> QED
  BY <1>1, ConfigInvariant, PTL

\* An apply that quoted a generation replaces the document its client saw and no other
\* (api.rs, commit: the generation is checked again under the lock).
THEOREM ApplyClobbersNothing == Spec => IfMatchNotClobbered
<1>1. ASSUME IndInv, NEW r \in Requests, commit(r), req[r].exp # 0
      PROVE  doc = req[r].seen
  <2>1. r \in Tasks
    BY DEF Tasks
  <2>2. StageOK(req[r]) /\ MatchOK(req[r]) /\ req[r].pc = "publish" /\ active = req[r].exp
    BY <1>1, <2>1, OfTask DEF commit, At, conflict
  <2>3. snaps[req[r].exp].doc = req[r].seen
    BY <1>1, <2>2 DEF StageOK, MatchOK
  <2> QED
    BY <1>1, <2>2, <2>3 DEF IndInv, StoresAgree, SnapshotIsDocument
<1>2. IndInv /\ [Next]_vars => [\A r \in Requests : commit(r) /\ req[r].exp # 0 => doc = req[r].seen]_vars
  BY <1>1
<1> QED
  BY <1>2, ConfigInvariant, PTL DEF Spec, IfMatchNotClobbered
=============================================================================
