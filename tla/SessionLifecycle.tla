-------------------------- MODULE SessionLifecycle --------------------------
(***************************************************************************)
(* The life of a Chat session's runtime, across three parties:             *)
(*                                                                         *)
(*  - client_service keeps the durable session row and serialises the      *)
(*    handlers of one session with SessionLifecycleLocks: a gate (RwLock)  *)
(*    that every handler reads and that runtime cleanup writes, and one    *)
(*    mutex per session;                                                   *)
(*  - agent_host runs one job per upstream HTTP call.  Its registry is     *)
(*    in memory; only create_session takes its create_lock;                *)
(*  - Docker keeps containers and volumes under truncated names, each      *)
(*    labelled with the full session id.                                   *)
(*                                                                         *)
(* A slot h of Requests is one HTTP request of a browser.  pc[h] is where  *)
(* its client_service handler is, step[h] where the agent_host job of its  *)
(* upstream call is.  A handler that times out, or whose browser           *)
(* disconnects, ends while its job goes on: pc[h] = "idle" and step[h] #   *)
(* "none" is a detached job.                                               *)
(***************************************************************************)
EXTENDS Naturals, FiniteSets

CONSTANTS
  Sessions,     \* session ids (UUIDv7, never reused)
  Requests,     \* slots for requests in flight
  Names,        \* Docker names: the first 12 characters of a session id
  ShortName,    \* the name of each session's container and volume
  NoSession,    \* no session; also the label of a volume without labels
  NoRequest,    \* a lock nobody holds
  NoVolume,     \* there is no volume of that name
  Ops,          \* the operations browsers ask for in this instance
  FaultKinds,   \* the faults that may happen in this instance
  MaxFaults     \* bound on the number of faults

LockedOps == {"create", "ensure", "reset", "delete"}
AllOps == LockedOps \cup {"kill", "dry_run", "cleanup"}

\* config: the agent or a secret of the session is gone;  store: SQLite refuses
\* a write;  call: a Docker or kernel call fails;  exit: a kernel container
\* stops;  restart: agent_host restarts;  giveup: a handler stops waiting
AllFaults == {"config", "store", "call", "exit", "restart", "giveup"}

ASSUME ConstantsAssumption ==
  /\ ShortName \in [Sessions -> Names]
  /\ NoSession \notin Sessions
  /\ NoRequest \notin Requests
  /\ NoVolume \notin Sessions \cup {NoSession}
  /\ Ops \subseteq AllOps
  /\ FaultKinds \subseteq AllFaults
  /\ MaxFaults \in Nat

VARIABLES
  row,          \* client_service: the status of the durable session row
  op, target, pc,                   \* client_service: each handler
  gateReaders, gateWriter, mutex,   \* client_service: SessionLifecycleLocks
  kind, subject, step,              \* agent_host: each job, its session, its next step
  recovery,     \* agent_host: the request's env has AGENTSPACE_RUNTIME_RECOVERY
  owned, plan, pick,                \* agent_host: inputs and cursor of a job that deletes
  reply,        \* the response in flight to the handler
  reg,          \* agent_host: SessionRegistry, with the recovery flag of record.env
  createLock,   \* agent_host: SessionRegistry::create_lock
  cont, vol,    \* Docker: containers and workspace volumes by name
  report,       \* owners named by the dry-run reports delivered so far
  faults        \* faults so far

lockVars   == <<gateReaders, gateWriter, mutex>>
clientVars == <<row, op, target, pc>>
jobVars    == <<kind, subject, step, recovery, owned, plan, pick>>
dockerVars == <<cont, vol>>
vars == <<clientVars, lockVars, jobVars, reply, reg, createLock, dockerVars,
          report, faults>>

RowStatus == {"never", "starting", "live", "error", "dead", "deleted"}
PcStates  == {"idle", "gate", "mutex", "locked", "await", "await_reset",
              "await_compensation", "kill_call", "kill_mark", "cleanup_gate",
              "cleanup_list"}
Awaiting  == {"await", "await_reset", "await_compensation"}
CreateSteps  == {"c_volume", "c_mkvolume", "c_container", "c_replace", "c_run", "c_start",
                 "c_ready", "c_insert"}
DestroySteps == {"d_read", "d_inspect", "d_container", "d_volume", "d_forget",
                 "d_list", "i_container", "i_volume"}
CleanupSteps == {"l_containers", "l_volumes", "x_next", "x_remove"}
Steps == {"none", "c_lock", "r_read"} \cup CreateSteps \cup DestroySteps \cup CleanupSteps

Resource   == [kind : {"container", "volume"}, owner : Sessions]
NoResource == [kind |-> "none", owner |-> NoSession]
NoContainer == [state |-> "none", owner |-> NoSession]

\* store.get(session_id) finds a row
Present(s) == row[s] \notin {"never", "deleted"}

\* a slot whose handler has returned and whose job has ended
Free(h) == pc[h] = "idle" /\ step[h] = "none" /\ reply[h] = "none"

\* Docker's list filtered by the agentspace.session_id label
HasContainer(s) == \E n \in Names : cont[n].state # "none" /\ cont[n].owner = s
HasVolume(s) == \E n \in Names : vol[n] = s
Exists(r) == IF r.kind = "container" THEN HasContainer(r.owner) ELSE HasVolume(r.owner)

Fault(f) ==
  /\ f \in FaultKinds
  /\ faults < MaxFaults
  /\ faults' = faults + 1

----------------------------------------------------------------------------
(* client_service: SessionLifecycleLocks                                   *)

BeginLocked(h, o, s) ==
  /\ Free(h)
  /\ o \in Ops \cap LockedOps
  /\ o = "create" => row[s] = "never" /\ \A g \in Requests : target[g] # s
  /\ o = "ensure" => Present(s)
  /\ o \in {"reset", "delete"} => row[s] # "never"
  /\ op' = [op EXCEPT ![h] = o]
  /\ target' = [target EXCEPT ![h] = s]
  /\ pc' = [pc EXCEPT ![h] = "gate"]
  /\ UNCHANGED <<row, lockVars, jobVars, reply, reg, createLock, dockerVars, report, faults>>

LockGate(h) ==
  /\ pc[h] = "gate"
  /\ gateWriter = NoRequest
  /\ gateReaders' = gateReaders \cup {h}
  /\ pc' = [pc EXCEPT ![h] = "mutex"]
  /\ UNCHANGED <<row, op, target, gateWriter, mutex, jobVars, reply, reg, createLock,
                 dockerVars, report, faults>>

\* Mutant: the per-session mutex is not taken
LockSessionAnyway(h) ==
  /\ pc[h] = "mutex"
  /\ pc' = [pc EXCEPT ![h] = "locked"]
  /\ UNCHANGED <<row, op, target, lockVars, jobVars, reply, reg, createLock,
                 dockerVars, report, faults>>

LockSession(h) ==
  /\ pc[h] = "mutex"
  /\ mutex[target[h]] = NoRequest
  /\ mutex' = [mutex EXCEPT ![target[h]] = h]
  /\ pc' = [pc EXCEPT ![h] = "locked"]
  /\ UNCHANGED <<row, op, target, gateReaders, gateWriter, jobVars, reply, reg, createLock,
                 dockerVars, report, faults>>

\* Mutant: cleanup does not wait for the handlers that hold the gate
LockCleanupAnyway(h) ==
  /\ pc[h] = "cleanup_gate"
  /\ gateWriter = NoRequest
  /\ gateWriter' = h
  /\ pc' = [pc EXCEPT ![h] = "cleanup_list"]
  /\ UNCHANGED <<row, op, target, gateReaders, mutex, jobVars, reply, reg, createLock,
                 dockerVars, report, faults>>

LockCleanup(h) ==
  /\ pc[h] = "cleanup_gate"
  /\ gateWriter = NoRequest
  /\ gateReaders = {}
  /\ gateWriter' = h
  /\ pc' = [pc EXCEPT ![h] = "cleanup_list"]
  /\ UNCHANGED <<row, op, target, gateReaders, mutex, jobVars, reply, reg, createLock,
                 dockerVars, report, faults>>

\* the handler returns: its guards are dropped
Return(h) ==
  /\ pc' = [pc EXCEPT ![h] = "idle"]
  /\ op' = [op EXCEPT ![h] = "none"]
  /\ target' = [target EXCEPT ![h] = NoSession]
  /\ gateReaders' = gateReaders \ {h}
  /\ gateWriter' = IF gateWriter = h THEN NoRequest ELSE gateWriter
  /\ mutex' = [s \in Sessions |-> IF mutex[s] = h THEN NoRequest ELSE mutex[s]]

----------------------------------------------------------------------------
(* client_service: the handlers                                            *)

\* an upstream call: the job starts and the handler waits at w for its reply
Call(h, k, s, st, rec, own, pl, w) ==
  /\ kind' = [kind EXCEPT ![h] = k]
  /\ subject' = [subject EXCEPT ![h] = s]
  /\ step' = [step EXCEPT ![h] = st]
  /\ recovery' = [recovery EXCEPT ![h] = rec]
  /\ owned' = [owned EXCEPT ![h] = own]
  /\ plan' = [plan EXCEPT ![h] = pl]
  /\ pc' = [pc EXCEPT ![h] = w]
  /\ UNCHANGED pick

\* create_session: the row is inserted before any runtime work
InsertRow(h) ==
  /\ pc[h] = "locked" /\ op[h] = "create"
  /\ row' = [row EXCEPT ![target[h]] = "starting"]
  /\ Call(h, "create", target[h], "c_lock", FALSE, {}, {}, "await")
  /\ UNCHANGED <<op, target, lockVars, reply, reg, createLock, dockerVars, report, faults>>

\* ensure_chat_runtime and reset_session re-read the row under the lock
EnsureCall(h) ==
  /\ pc[h] = "locked" /\ op[h] \in {"ensure", "reset"}
  /\ Present(target[h])
  /\ Call(h, "create", target[h], "c_lock", TRUE, {}, {}, "await")
  /\ UNCHANGED <<row, op, target, lockVars, reply, reg, createLock, dockerVars, report, faults>>

\* the agent is gone or one of its secrets is unset: mark_runtime_error
ConfigMissing(h) ==
  /\ pc[h] = "locked"
  /\ \/ op[h] = "create"
     \/ op[h] \in {"ensure", "reset"} /\ Present(target[h])
  /\ Fault("config")
  /\ row' = [row EXCEPT ![target[h]] = "error"]
  /\ Return(h)
  /\ UNCHANGED <<jobVars, reply, reg, createLock, dockerVars, report>>

DeleteCall(h) ==
  /\ pc[h] = "locked" /\ op[h] = "delete"
  /\ Present(target[h])
  /\ Call(h, "destroy", target[h], "d_read", FALSE, {}, {}, "await")
  /\ UNCHANGED <<row, op, target, lockVars, reply, reg, createLock, dockerVars, report, faults>>

\* require_session fails under the lock: 404
RowGone(h) ==
  /\ pc[h] = "locked" /\ op[h] # "create"
  /\ ~Present(target[h])
  /\ Return(h)
  /\ UNCHANGED <<row, jobVars, reply, reg, createLock, dockerVars, report, faults>>

TakeReply(h) == reply' = [reply EXCEPT ![h] = "none"]

\* the ensured runtime is persisted; reset_session goes on to the reset call
EnsureDone(h) ==
  /\ pc[h] = "await" /\ op[h] \in {"create", "ensure", "reset"} /\ reply[h] = "ok"
  /\ TakeReply(h)
  /\ row' = [row EXCEPT ![target[h]] = "live"]
  /\ IF op[h] = "reset"
       THEN /\ Call(h, "reset", target[h], "r_read", FALSE, {}, {}, "await_reset")
            /\ UNCHANGED <<op, target, lockVars>>
       ELSE Return(h) /\ UNCHANGED jobVars
  /\ UNCHANGED <<reg, createLock, dockerVars, report, faults>>

\* persist_chat_runtime: the store refuses the update, the runtime is destroyed again
PersistFails(h) ==
  /\ pc[h] = "await" /\ op[h] \in {"create", "ensure", "reset"} /\ reply[h] = "ok"
  /\ Fault("store")
  /\ TakeReply(h)
  /\ Call(h, "destroy", target[h], "d_read", FALSE, {}, {}, "await_compensation")
  /\ UNCHANGED <<row, op, target, lockVars, reg, createLock, dockerVars, report>>

CompensationDone(h) ==
  /\ pc[h] = "await_compensation" /\ reply[h] # "none"
  /\ TakeReply(h)
  /\ Return(h)
  /\ UNCHANGED <<row, jobVars, reg, createLock, dockerVars, report, faults>>

\* the create or ensure call failed: mark_runtime_error
RuntimeError(h) ==
  /\ pc[h] = "await" /\ op[h] \in {"create", "ensure", "reset"}
  /\ reply[h] \in {"err", "not_found"}
  /\ TakeReply(h)
  /\ row' = [row EXCEPT ![target[h]] = "error"]
  /\ Return(h)
  /\ UNCHANGED <<jobVars, reg, createLock, dockerVars, report, faults>>

\* the reset call is answered; mark_runtime_error if it failed
ResetDone(h) ==
  /\ pc[h] = "await_reset" /\ reply[h] # "none"
  /\ TakeReply(h)
  /\ row' = [row EXCEPT ![target[h]] = IF reply[h] = "ok" THEN "live" ELSE "error"]
  /\ Return(h)
  /\ UNCHANGED <<jobVars, reg, createLock, dockerVars, report, faults>>

\* Mutant: the row goes whatever became of the runtime
DeleteDoneAnyway(h) ==
  /\ pc[h] = "await" /\ op[h] = "delete" /\ reply[h] # "none"
  /\ TakeReply(h)
  /\ row' = [row EXCEPT ![target[h]] = "deleted"]
  /\ Return(h)
  /\ UNCHANGED <<jobVars, reg, createLock, dockerVars, report, faults>>

\* delete_session keeps the row when the destroy failed; a 404 counts as destroyed
DeleteDone(h) ==
  /\ pc[h] = "await" /\ op[h] = "delete" /\ reply[h] # "none"
  /\ TakeReply(h)
  /\ row' = IF reply[h] = "err" THEN row ELSE [row EXCEPT ![target[h]] = "deleted"]
  /\ Return(h)
  /\ UNCHANGED <<jobVars, reg, createLock, dockerVars, report, faults>>

\* kill_kernel takes no lifecycle lock: require_kernel, destroy, then mark the row
BeginKill(h, s) ==
  /\ Free(h)
  /\ "kill" \in Ops
  /\ reg[s] # "none"
  /\ op' = [op EXCEPT ![h] = "kill"]
  /\ target' = [target EXCEPT ![h] = s]
  /\ pc' = [pc EXCEPT ![h] = "kill_call"]
  /\ UNCHANGED <<row, lockVars, jobVars, reply, reg, createLock, dockerVars, report, faults>>

KillCall(h) ==
  /\ pc[h] = "kill_call"
  /\ Call(h, "destroy", target[h], "d_read", FALSE, {}, {}, "await")
  /\ UNCHANGED <<row, op, target, lockVars, reply, reg, createLock, dockerVars, report, faults>>

KillDone(h) ==
  /\ pc[h] = "await" /\ op[h] = "kill" /\ reply[h] # "none"
  /\ TakeReply(h)
  /\ IF reply[h] # "err" /\ Present(target[h])
       THEN pc' = [pc EXCEPT ![h] = "kill_mark"] /\ UNCHANGED <<op, target, lockVars>>
       ELSE Return(h)
  /\ UNCHANGED <<row, jobVars, reg, createLock, dockerVars, report, faults>>

\* the listed row is written back as dead, unless it was deleted meanwhile
KillMark(h) ==
  /\ pc[h] = "kill_mark"
  /\ row' = IF Present(target[h]) THEN [row EXCEPT ![target[h]] = "dead"] ELSE row
  /\ Return(h)
  /\ UNCHANGED <<jobVars, reply, reg, createLock, dockerVars, report, faults>>

\* cleanup_runtime: a dry run, or the deletion of resources the operator reviewed
BeginCleanup(h, o, reviewed) ==
  /\ Free(h)
  /\ o \in Ops \cap {"dry_run", "cleanup"}
  /\ \A r \in reviewed : Exists(r)
  /\ op' = [op EXCEPT ![h] = o]
  /\ plan' = [plan EXCEPT ![h] = reviewed]
  /\ pc' = [pc EXCEPT ![h] = "cleanup_gate"]
  /\ UNCHANGED <<row, target, lockVars, kind, subject, step, recovery, owned, pick, reply, reg,
                 createLock, dockerVars, report, faults>>

\* the owned ids are read from the store under the write gate
CleanupCall(h) ==
  /\ pc[h] = "cleanup_list"
  /\ LET own == {s \in Sessions : Present(s)}
     IN IF op[h] = "dry_run"
          THEN Call(h, "list", NoSession, "l_containers", FALSE, own, {}, "await")
          ELSE Call(h, "delete", NoSession, "x_next", FALSE, own, plan[h], "await")
  /\ UNCHANGED <<row, op, target, lockVars, reply, reg, createLock, dockerVars, report, faults>>

CleanupDone(h) ==
  /\ pc[h] = "await" /\ op[h] \in {"dry_run", "cleanup"} /\ reply[h] # "none"
  /\ TakeReply(h)
  /\ Return(h)
  /\ UNCHANGED <<row, jobVars, reg, createLock, dockerVars, report, faults>>

\* SQLite refuses the handler's insert, update or delete: it returns the error
StoreFails(h) ==
  /\ \/ pc[h] = "locked" /\ op[h] = "create"
     \/ pc[h] = "await" /\ op[h] \in {"create", "ensure", "reset"} /\ reply[h] \in {"err", "not_found"}
     \/ pc[h] = "await" /\ op[h] = "delete" /\ reply[h] \in {"ok", "not_found"}
     \/ pc[h] = "await_reset" /\ reply[h] # "none"
     \/ pc[h] = "kill_mark"
  /\ Fault("store")
  /\ TakeReply(h)
  /\ Return(h)
  /\ UNCHANGED <<row, jobVars, reg, createLock, dockerVars, report>>

\* the reqwest timeout: the handler fails as if the call had, the job goes on
TimeOut(h) ==
  /\ pc[h] \in Awaiting /\ reply[h] = "none"
  /\ Fault("giveup")
  /\ row' = IF pc[h] # "await_compensation" /\ op[h] \in {"create", "ensure", "reset"}
              THEN [row EXCEPT ![target[h]] = "error"] ELSE row
  /\ Return(h)
  /\ UNCHANGED <<jobVars, reply, reg, createLock, dockerVars, report>>

\* the browser disconnects: axum drops the handler's future at its await
Disconnect(h) ==
  /\ pc[h] # "idle"
  /\ Fault("giveup")
  /\ TakeReply(h)
  /\ Return(h)
  /\ UNCHANGED <<row, jobVars, reg, createLock, dockerVars, report>>

----------------------------------------------------------------------------
(* agent_host: jobs                                                        *)

\* Mutant: an error return keeps create_lock
EndKeepingLock(h, r) ==
  /\ kind' = [kind EXCEPT ![h] = "none"]
  /\ subject' = [subject EXCEPT ![h] = NoSession]
  /\ step' = [step EXCEPT ![h] = "none"]
  /\ recovery' = [recovery EXCEPT ![h] = FALSE]
  /\ owned' = [owned EXCEPT ![h] = {}]
  /\ plan' = [plan EXCEPT ![h] = {}]
  /\ pick' = [pick EXCEPT ![h] = NoResource]
  /\ reply' = IF pc[h] = "idle" THEN reply ELSE [reply EXCEPT ![h] = r]
  /\ createLock' = IF createLock = h /\ r = "ok" THEN NoRequest ELSE createLock

\* the job ends; a detached job has nobody to answer
End(h, r) ==
  /\ kind' = [kind EXCEPT ![h] = "none"]
  /\ subject' = [subject EXCEPT ![h] = NoSession]
  /\ step' = [step EXCEPT ![h] = "none"]
  /\ recovery' = [recovery EXCEPT ![h] = FALSE]
  /\ owned' = [owned EXCEPT ![h] = {}]
  /\ plan' = [plan EXCEPT ![h] = {}]
  /\ pick' = [pick EXCEPT ![h] = NoResource]
  /\ reply' = IF pc[h] = "idle" THEN reply ELSE [reply EXCEPT ![h] = r]
  /\ createLock' = IF createLock = h THEN NoRequest ELSE createLock

Goto(h, st) ==
  /\ step' = [step EXCEPT ![h] = st]
  /\ UNCHANGED <<kind, subject, recovery, owned, plan, pick, reply, createLock>>

\* the Docker name of the session the job is about
NameOf(h) == ShortName[subject[h]]

\* SessionRegistry::create_session holds create_lock to its end
CreateLock(h) ==
  /\ step[h] = "c_lock"
  /\ createLock = NoRequest
  /\ createLock' = h
  /\ step' = [step EXCEPT ![h] = "c_volume"]
  /\ UNCHANGED <<clientVars, lockVars, kind, subject, recovery, owned, plan, pick, reply, reg,
                 dockerVars, report, faults>>

\* Mutant: recovery goes on without the workspace it should find
CheckVolumeTrusting(h) ==
  /\ step[h] = "c_volume"
  /\ LET v == vol[NameOf(h)]
     IN \/ v = subject[h] /\ Goto(h, "c_container")
        \/ v = NoVolume /\ Goto(h, IF recovery[h] THEN "c_container" ELSE "c_mkvolume")
        \/ v \notin {subject[h], NoVolume} /\ End(h, "err")
  /\ UNCHANGED <<clientVars, lockVars, reg, dockerVars, report, faults>>

\* ensure_session_workspace_volume: reuse by label, refuse a foreign name, and
\* refuse to make a new volume when the session is being recovered
CheckVolume(h) ==
  /\ step[h] = "c_volume"
  /\ LET v == vol[NameOf(h)]
     IN \/ v = subject[h] /\ Goto(h, "c_container")
        \/ v = NoVolume /\ ~recovery[h] /\ Goto(h, "c_mkvolume")
        \/ /\ v # subject[h] /\ (v = NoVolume => recovery[h])
           /\ End(h, "err")
  /\ UNCHANGED <<clientVars, lockVars, reg, dockerVars, report, faults>>

\* ensure_volume, then the labels of what has the name now
MakeVolume(h) ==
  /\ step[h] = "c_mkvolume"
  /\ vol' = IF vol[NameOf(h)] = NoVolume THEN [vol EXCEPT ![NameOf(h)] = subject[h]] ELSE vol
  /\ IF vol[NameOf(h)] \in {NoVolume, subject[h]} THEN Goto(h, "c_container") ELSE End(h, "err")
  /\ UNCHANGED <<clientVars, lockVars, reg, cont, report, faults>>

\* matching_kernel_container: refuse a foreign name, adopt a running container,
\* replace one that never started
MatchContainer(h) ==
  /\ step[h] = "c_container"
  /\ LET c == cont[NameOf(h)]
     IN \/ c.state = "none" /\ Goto(h, "c_run")
        \/ c.state = "running" /\ c.owner = subject[h] /\ Goto(h, "c_ready")
        \/ c.state = "created" /\ c.owner = subject[h] /\ Goto(h, "c_replace")
        \/ c.state # "none" /\ c.owner # subject[h] /\ End(h, "err")
  /\ UNCHANGED <<clientVars, lockVars, reg, dockerVars, report, faults>>

\* Docker refuses a name in use and makes a missing named volume, without labels
RunContainer(h) ==
  /\ step[h] = "c_run"
  /\ IF cont[NameOf(h)].state = "none"
       THEN /\ cont' = [cont EXCEPT ![NameOf(h)] = [state |-> "created", owner |-> subject[h]]]
            /\ vol' = IF vol[NameOf(h)] = NoVolume
                        THEN [vol EXCEPT ![NameOf(h)] = NoSession] ELSE vol
            /\ Goto(h, "c_start")
       ELSE End(h, "err") /\ UNCHANGED dockerVars
  /\ UNCHANGED <<clientVars, lockVars, reg, report, faults>>

StartContainer(h) ==
  /\ step[h] = "c_start"
  /\ IF cont[NameOf(h)].state # "none"
       THEN /\ cont' = [cont EXCEPT ![NameOf(h)] = [state |-> "running", owner |-> @.owner]]
            /\ Goto(h, "c_ready")
       ELSE End(h, "err") /\ UNCHANGED cont
  /\ UNCHANGED <<clientVars, lockVars, reg, vol, report, faults>>

\* wait_until_ready has a deadline
WaitReady(h) ==
  /\ step[h] = "c_ready"
  /\ IF cont[NameOf(h)].state = "running" THEN Goto(h, "c_insert") ELSE End(h, "err")
  /\ UNCHANGED <<clientVars, lockVars, reg, dockerVars, report, faults>>

\* the record keeps the env of the request, its recovery flag included
InsertRecord(h) ==
  /\ step[h] = "c_insert"
  /\ reg' = [reg EXCEPT ![subject[h]] = IF recovery[h] THEN "recovery" ELSE "fresh"]
  /\ End(h, "ok")
  /\ UNCHANGED <<clientVars, lockVars, dockerVars, report, faults>>

\* SessionRegistry::reset_session: the record's env is used for the new runtime
ReadForReset(h) ==
  /\ step[h] = "r_read"
  /\ IF reg[subject[h]] = "none"
       THEN End(h, "not_found")
       ELSE /\ recovery' = [recovery EXCEPT ![h] = (reg[subject[h]] = "recovery")]
            /\ step' = [step EXCEPT ![h] = "d_read"]
            /\ UNCHANGED <<kind, subject, owned, plan, pick, reply, createLock>>
  /\ UNCHANGED <<clientVars, lockVars, reg, dockerVars, report, faults>>

\* SessionRegistry::destroy_session: by the record, or by labels without one
ReadForDestroy(h) ==
  /\ step[h] = "d_read"
  /\ Goto(h, IF reg[subject[h]] = "none" THEN "d_list" ELSE "d_inspect")
  /\ UNCHANGED <<clientVars, lockVars, reg, dockerVars, report, faults>>

\* the labels are inspected here, the removals below go by name
InspectLabels(h) ==
  /\ step[h] = "d_inspect"
  /\ LET c == cont[NameOf(h)]
         v == vol[NameOf(h)]
     IN IF (c.state # "none" /\ c.owner # subject[h]) \/ v \notin {NoVolume, subject[h]}
          THEN End(h, "err") ELSE Goto(h, "d_container")
  /\ UNCHANGED <<clientVars, lockVars, reg, dockerVars, report, faults>>

\* Mutant: the resources are found by their truncated name
ListNames(h) ==
  /\ step[h] = "d_list"
  /\ LET found == {r \in Resource : r.owner = subject[h] /\
                     IF r.kind = "container" THEN cont[NameOf(h)] # NoContainer
                                             ELSE vol[NameOf(h)] # NoVolume}
     IN IF found = {}
          THEN End(h, "not_found")
          ELSE /\ plan' = [plan EXCEPT ![h] = found]
               /\ step' = [step EXCEPT ![h] = "i_container"]
               /\ UNCHANGED <<kind, subject, recovery, owned, pick, reply, createLock>>
  /\ UNCHANGED <<clientVars, lockVars, reg, dockerVars, report, faults>>

\* destroy_session_by_id finds the session's resources by label
ListLabels(h) ==
  /\ step[h] = "d_list"
  /\ LET found == {r \in Resource : r.owner = subject[h] /\ Exists(r)}
     IN IF found = {}
          THEN End(h, "not_found")
          ELSE /\ plan' = [plan EXCEPT ![h] = found]
               /\ step' = [step EXCEPT ![h] = "i_container"]
               /\ UNCHANGED <<kind, subject, recovery, owned, pick, reply, createLock>>
  /\ UNCHANGED <<clientVars, lockVars, reg, dockerVars, report, faults>>

\* remove_container forces the removal of whatever has the name; 404 is fine
RemoveContainer(h) ==
  /\ \/ step[h] = "d_container" /\ Goto(h, "d_volume")
     \/ step[h] = "i_container" /\ Goto(h, "i_volume")
     \/ step[h] = "c_replace" /\ Goto(h, "c_run")
  /\ cont' = IF step[h] = "i_container" /\ [kind |-> "container", owner |-> subject[h]] \notin plan[h]
               THEN cont ELSE [cont EXCEPT ![NameOf(h)] = NoContainer]
  /\ UNCHANGED <<clientVars, lockVars, reg, vol, report, faults>>

\* what follows the last removal: the record goes, a reset creates anew
Destroyed(h) == IF kind[h] = "reset" THEN Goto(h, "c_lock") ELSE End(h, "ok")

\* remove_volume goes by name too; Docker refuses a volume a container uses
RemoveVolume(h) ==
  /\ step[h] \in {"d_volume", "i_volume"}
  /\ IF step[h] = "i_volume" /\ [kind |-> "volume", owner |-> subject[h]] \notin plan[h]
       THEN Destroyed(h) /\ UNCHANGED vol
       ELSE IF cont[NameOf(h)].state # "none" /\ vol[NameOf(h)] # NoVolume
              THEN End(h, "err") /\ UNCHANGED vol
              ELSE /\ vol' = [vol EXCEPT ![NameOf(h)] = NoVolume]
                   /\ IF step[h] = "i_volume" THEN Destroyed(h) ELSE Goto(h, "d_forget")
  /\ UNCHANGED <<clientVars, lockVars, reg, cont, report, faults>>

ForgetRecord(h) ==
  /\ step[h] = "d_forget"
  /\ reg' = [reg EXCEPT ![subject[h]] = "none"]
  /\ Destroyed(h)
  /\ UNCHANGED <<clientVars, lockVars, dockerVars, report, faults>>

\* cleanup_orphans, dry run: managed resources whose label is not an owned id
ListContainers(h) ==
  /\ step[h] = "l_containers"
  /\ plan' = [plan EXCEPT ![h] = {r \in Resource :
                  r.kind = "container" /\ Exists(r) /\ r.owner \notin owned[h]}]
  /\ step' = [step EXCEPT ![h] = "l_volumes"]
  /\ UNCHANGED <<clientVars, lockVars, kind, subject, recovery, owned, pick, reply, createLock,
                 reg, dockerVars, report, faults>>

ListVolumes(h) ==
  /\ step[h] = "l_volumes"
  /\ LET found == plan[h] \cup {r \in Resource :
                  r.kind = "volume" /\ Exists(r) /\ r.owner \notin owned[h]}
     IN report' = IF pc[h] = "idle" THEN report ELSE report \cup {r.owner : r \in found}
  /\ End(h, "ok")
  /\ UNCHANGED <<clientVars, lockVars, reg, dockerVars, faults>>

\* Mutant: the review is trusted, whoever owns the resource now
ReviewNextUnowned(h) ==
  /\ step[h] = "x_next"
  /\ IF plan[h] = {}
       THEN End(h, "ok")
       ELSE \E r \in plan[h] :
              /\ plan' = [plan EXCEPT ![h] = @ \ {r}]
              /\ pick' = [pick EXCEPT ![h] = r]
              /\ step' = [step EXCEPT ![h] = "x_remove"]
              /\ UNCHANGED <<kind, subject, recovery, owned, reply, createLock>>
  /\ UNCHANGED <<clientVars, lockVars, reg, dockerVars, report, faults>>

\* delete_reviewed_orphans: skip what is owned or no longer carries the label
ReviewNext(h) ==
  /\ step[h] = "x_next"
  /\ IF plan[h] = {}
       THEN End(h, "ok")
       ELSE \E r \in plan[h] :
              /\ plan' = [plan EXCEPT ![h] = @ \ {r}]
              /\ IF r.owner \in owned[h] \/ ~Exists(r)
                   THEN UNCHANGED <<step, pick>>
                   ELSE /\ pick' = [pick EXCEPT ![h] = r]
                        /\ step' = [step EXCEPT ![h] = "x_remove"]
              /\ UNCHANGED <<kind, subject, recovery, owned, reply, createLock>>
  /\ UNCHANGED <<clientVars, lockVars, reg, dockerVars, report, faults>>

\* ... and remove the rest by name; a refused removal is only reported
ReviewRemove(h) ==
  /\ step[h] = "x_remove"
  /\ LET n == ShortName[pick[h].owner]
     IN \/ /\ pick[h].kind = "container"
           /\ cont' = [cont EXCEPT ![n] = NoContainer]
           /\ UNCHANGED <<vol, faults>>
        \/ /\ pick[h].kind = "volume"
           /\ vol' = IF cont[n].state = "none" THEN [vol EXCEPT ![n] = NoVolume] ELSE vol
           /\ UNCHANGED <<cont, faults>>
        \/ Fault("call") /\ UNCHANGED dockerVars
  /\ step' = [step EXCEPT ![h] = "x_next"]
  /\ pick' = [pick EXCEPT ![h] = NoResource]
  /\ UNCHANGED <<clientVars, lockVars, kind, subject, recovery, owned, plan, reply, createLock,
                 reg, report>>

\* a Docker call or the kernel's summary fails: the job returns the error
JobFails(h) ==
  /\ step[h] \in (CreateSteps \cup DestroySteps \cup CleanupSteps)
                 \ {"d_read", "d_forget", "c_insert", "x_remove"}
  /\ Fault("call")
  /\ End(h, "err")
  /\ UNCHANGED <<clientVars, lockVars, reg, dockerVars, report>>

\* hyper drops the handler of a connection its client has closed, at any await
JobDropped(h) ==
  /\ pc[h] = "idle" /\ step[h] # "none"
  /\ End(h, "err")
  /\ UNCHANGED <<clientVars, lockVars, reg, dockerVars, report, faults>>

----------------------------------------------------------------------------
(* The environment                                                         *)

\* a kernel container runs with auto_remove
ContainerExits(n) ==
  /\ cont[n].state = "running"
  /\ Fault("exit")
  /\ cont' = [cont EXCEPT ![n] = NoContainer]
  /\ UNCHANGED <<clientVars, lockVars, jobVars, reply, reg, createLock, vol, report>>

\* agent_host restarts: registry and jobs are lost, Docker's state is not
HostRestart ==
  /\ Fault("restart")
  /\ reg' = [s \in Sessions |-> "none"]
  /\ kind' = [h \in Requests |-> "none"]
  /\ subject' = [h \in Requests |-> NoSession]
  /\ step' = [h \in Requests |-> "none"]
  /\ recovery' = [h \in Requests |-> FALSE]
  /\ owned' = [h \in Requests |-> {}]
  /\ plan' = [h \in Requests |-> IF step[h] = "none" THEN plan[h] ELSE {}]
  /\ pick' = [h \in Requests |-> NoResource]
  /\ reply' = [h \in Requests |-> IF step[h] # "none" /\ pc[h] # "idle" THEN "err" ELSE reply[h]]
  /\ createLock' = NoRequest
  /\ UNCHANGED <<clientVars, lockVars, dockerVars, report>>

----------------------------------------------------------------------------

Init ==
  /\ row = [s \in Sessions |-> "never"]
  /\ op = [h \in Requests |-> "none"]
  /\ target = [h \in Requests |-> NoSession]
  /\ pc = [h \in Requests |-> "idle"]
  /\ gateReaders = {}
  /\ gateWriter = NoRequest
  /\ mutex = [s \in Sessions |-> NoRequest]
  /\ kind = [h \in Requests |-> "none"]
  /\ subject = [h \in Requests |-> NoSession]
  /\ step = [h \in Requests |-> "none"]
  /\ recovery = [h \in Requests |-> FALSE]
  /\ owned = [h \in Requests |-> {}]
  /\ plan = [h \in Requests |-> {}]
  /\ pick = [h \in Requests |-> NoResource]
  /\ reply = [h \in Requests |-> "none"]
  /\ reg = [s \in Sessions |-> "none"]
  /\ createLock = NoRequest
  /\ cont = [n \in Names |-> NoContainer]
  /\ vol = [n \in Names |-> NoVolume]
  /\ report = {}
  /\ faults = 0

Begin(h) ==
  \/ \E o \in LockedOps, s \in Sessions : BeginLocked(h, o, s)
  \/ \E s \in Sessions : BeginKill(h, s)
  \/ BeginCleanup(h, "dry_run", {})
  \/ \E reviewed \in SUBSET Resource : BeginCleanup(h, "cleanup", reviewed)

Acquire(h) == LockGate(h) \/ LockSession(h) \/ LockCleanup(h) \/ CreateLock(h)

Handle(h) ==
  \/ InsertRow(h) \/ EnsureCall(h) \/ DeleteCall(h) \/ RowGone(h) \/ EnsureDone(h)
  \/ CompensationDone(h) \/ RuntimeError(h) \/ ResetDone(h) \/ DeleteDone(h)
  \/ KillCall(h) \/ KillDone(h) \/ KillMark(h) \/ CleanupCall(h) \/ CleanupDone(h)

HandleFault(h) ==
  ConfigMissing(h) \/ PersistFails(h) \/ StoreFails(h) \/ TimeOut(h) \/ Disconnect(h)

Work(h) ==
  \/ CheckVolume(h) \/ MakeVolume(h) \/ MatchContainer(h) \/ RunContainer(h)
  \/ StartContainer(h) \/ WaitReady(h) \/ InsertRecord(h) \/ ReadForReset(h)
  \/ ReadForDestroy(h) \/ InspectLabels(h) \/ ListLabels(h) \/ RemoveContainer(h)
  \/ RemoveVolume(h) \/ ForgetRecord(h) \/ ListContainers(h) \/ ListVolumes(h)
  \/ ReviewNext(h) \/ ReviewRemove(h)

WorkFault(h) == JobFails(h) \/ JobDropped(h)

Next ==
  \/ \E h \in Requests : \/ Begin(h) \/ Acquire(h) \/ Handle(h) \/ HandleFault(h)
                          \/ Work(h) \/ WorkFault(h)
  \/ \E n \in Names : ContainerExits(n)
  \/ HostRestart

Spec == Init /\ [][Next]_vars

\* tokio's mutexes and RwLock queue their waiters first in first out, so a
\* waiter that can be served again and again is served (a request waits for one
\* lock at a time); every other await ends, by its timeout if nothing else
Fairness ==
  \A h \in Requests :
    /\ WF_vars(Handle(h) \/ Work(h))
    /\ SF_vars(Acquire(h))

FairSpec == Spec /\ Fairness

----------------------------------------------------------------------------
(* Properties                                                              *)

HandlerTypes ==
  /\ op \in [Requests -> AllOps \cup {"none"}]
  /\ target \in [Requests -> Sessions \cup {NoSession}]
  /\ pc \in [Requests -> PcStates]
  /\ gateReaders \in SUBSET Requests
  /\ gateWriter \in Requests \cup {NoRequest}
  /\ mutex \in [Sessions -> Requests \cup {NoRequest}]

JobTypes ==
  /\ kind \in [Requests -> {"none", "create", "destroy", "reset", "list", "delete"}]
  /\ subject \in [Requests -> Sessions \cup {NoSession}]
  /\ step \in [Requests -> Steps]
  /\ recovery \in [Requests -> BOOLEAN]
  /\ owned \in [Requests -> SUBSET Sessions]
  /\ plan \in [Requests -> SUBSET Resource]
  /\ pick \in [Requests -> Resource \cup {NoResource}]
  /\ reply \in [Requests -> {"none", "ok", "err", "not_found"}]
  /\ createLock \in Requests \cup {NoRequest}

StoreTypes ==
  /\ row \in [Sessions -> RowStatus]
  /\ reg \in [Sessions -> {"none", "fresh", "recovery"}]
  /\ cont \in [Names -> [state : {"created", "running"}, owner : Sessions] \cup {NoContainer}]
  /\ vol \in [Names -> Sessions \cup {NoSession, NoVolume}]
  /\ report \in SUBSET Sessions
  /\ faults \in 0..MaxFaults

\* The variables hold what the code's types allow: rows and registry entries
\* are one of their states, a lock is held by a request or nobody, a resource
\* is labelled with a session or (a volume Docker made itself) not at all, and
\* every kernel container is labelled.
TypeOK == HandlerTypes /\ JobTypes /\ StoreTypes

\* a job that a handler under SessionLifecycleLocks still waits for
LockedJob(h) == step[h] # "none" /\ op[h] \in AllOps \ {"kill"}

\* SessionLifecycleLocks serialises agent_host: two jobs whose handlers hold it
\* are about different sessions, and a cleanup job is alone.
JobsSerialised ==
  \A g, h \in Requests :
    g # h /\ LockedJob(g) /\ LockedJob(h) => /\ subject[g] # subject[h]
                                             /\ NoSession \notin {subject[g], subject[h]}

\* Destructive cleanup never takes the last container or volume of a session
\* that still has its row: what it removes belongs to a deleted session, even
\* when sessions are created and deleted while the operator reviews the report
\* and while jobs of abandoned requests are still at work.
CleanupSparesOwned ==
  [][\A h \in Requests, s \in Sessions :
        /\ step[h] = "x_remove" /\ step'[h] = "x_next"
        /\ \/ HasContainer(s) /\ ~HasContainer(s)'
           \/ HasVolume(s) /\ ~HasVolume(s)'
        => row[s] = "deleted"]_vars

\* A dry-run report names only resources of deleted sessions: a session that is
\* being created while the report is made is never offered for deletion.
ReportSound == \A s \in report : row[s] = "deleted"

\* When delete_session has removed the row, nothing labelled with the session is
\* left in Docker, unless a job on that session is still at work.
DeleteLeavesNothing ==
  \A s \in Sessions :
    row[s] = "deleted" /\ (\A h \in Requests : subject[h] # s)
      => ~HasContainer(s) /\ ~HasVolume(s)

\* A running kernel has the workspace volume of its own session mounted, never
\* one that Docker made up because the labelled volume was gone.
RunningMountsOwnWorkspace ==
  \A n \in Names : cont[n].state = "running" => vol[n] = cont[n].owner

\* Truncated names are never sufficient for deletion: a job on a session removes
\* no container and no volume that carries another session's label.
RemovesOnlyOwn ==
  \A h \in Requests, n \in Names :
    /\ RemoveContainer(h) => cont'[n] = cont[n] \/ cont[n].owner = subject[h]
    /\ RemoveVolume(h) => vol'[n] = vol[n] \/ vol[n] = subject[h]

NeverRemovesForeign == [][RemovesOnlyOwn]_vars

\* Reset destroys the kernel of a session and spawns a fresh one: without a
\* fault, the reset call is answered with success.
ResetSucceeds ==
  \A h \in Requests : pc[h] = "await_reset" => reply[h] # "err"

\* Every request is answered: no handler waits for ever on the gate, a session's
\* mutex, the registry's create_lock or a call that never returns.
EveryRequestReturns ==
  \A h \in Requests : pc[h] # "idle" ~> pc[h] = "idle"

=============================================================================
