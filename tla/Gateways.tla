------------------------------ MODULE Gateways ------------------------------
(***************************************************************************)
(* Gateway processes (a Discord bot, an echo gateway) of the config        *)
(* document, across client_service, agent_host's GatewayHost and Docker.   *)
(*                                                                         *)
(*  - client_service changes the document (doc) and then brings the        *)
(*    runtime in line with it, one gateway after the other.  apply_config  *)
(*    and the reconciliation at start-up hold apply_lock; the interactive  *)
(*    handlers hold nothing;                                               *)
(*  - GatewayHost keeps its records in memory.  create_gateway holds the   *)
(*    records mutex until the container is ready; destroy_gateway takes    *)
(*    the record out first and removes the container without the mutex;    *)
(*  - Docker keeps one container per gateway id.                           *)
(*                                                                         *)
(* A process p is an interactive request or the start-up task.  A job is   *)
(* one call served by GatewayHost; the job of a call whose client gave up  *)
(* has by = Nobody and goes on.                                            *)
(***************************************************************************)
EXTENDS Naturals, FiniteSets

CONSTANTS
  GatewayIds,   \* ids of gateways
  Requests,     \* slots for interactive requests and applies
  Startup,      \* the task that runs reconcile_on_startup
  Nobody,       \* no process, nobody holds apply_lock
  Confs,        \* the settings a gateway's container is run with
  NoConf,       \* no record, no container
  NoGateway,    \* no gateway
  Ops,          \* the operations of this instance
  Concurrent,   \* whether requests arrive while other processes are at work
  Attempts,     \* GATEWAY_AUTOSTART_ATTEMPTS (5 in the code)
  FaultKinds,   \* the faults of this instance
  MaxFaults     \* bound on the number of faults

InteractiveOps == {"create", "update", "delete", "start", "stop"}

\* call: a Docker call fails or the container does not become ready;  config: a
\* secret is unset;  giveup: a call times out;  restart: agent_host restarts;
\* reboot: client_service restarts
AllFaults == {"call", "config", "giveup", "restart", "reboot"}

Procs == Requests \cup {Startup}

ASSUME GatewayAssumption ==
  /\ Startup \notin Requests
  /\ Nobody \notin Procs
  /\ NoConf \notin Confs
  /\ NoGateway \notin GatewayIds
  /\ Ops \subseteq InteractiveOps \cup {"apply"}
  /\ Concurrent \in BOOLEAN
  /\ Attempts \in Nat \ {0}
  /\ FaultKinds \subseteq AllFaults
  /\ MaxFaults \in Nat

VARIABLES
  doc,          \* client_service: the gateways of the active ConfigDocument
  status,       \* client_service: the observed runtime status of each gateway
  op, pc,       \* client_service: each process
  want,         \* the gateways of the document a reconciliation works for
  todo,         \* what the process still has to do
  cur,          \* the gateway it works on, and the settings resolved to start it
  tries,        \* attempts made on cur
  failed,       \* an attempt of this reconciliation failed for good
  applyLock,    \* client_service: AppState::apply_lock
  jobs,         \* agent_host: the calls being served
  reply,        \* the response in flight to a process
  rec,          \* agent_host: GatewayHost::records
  cont,         \* Docker: the container of each gateway
  faults        \* faults so far

procVars == <<op, pc, want, todo, cur, tries, failed>>
vars == <<doc, status, procVars, applyLock, jobs, reply, rec, cont, faults>>

Settings == [enabled : BOOLEAN, conf : Confs]
Absent   == [enabled |-> FALSE, conf |-> NoConf]
NoWork   == [g |-> NoGateway, conf |-> NoConf]
Task     == [do : {"start", "stop", "destroy"}, g : GatewayIds]
PcStates == {"idle", "lock", "list", "work", "delete", "await_create", "await_replace",
             "await_recreate", "await_stop", "await_destroy", "await_delete"}
Awaiting == {"await_create", "await_replace", "await_recreate", "await_stop",
             "await_destroy", "await_delete"}

\* the records mutex is held from the check for a duplicate to the insertion
CreateSteps == {"remove", "run", "ready"}
Job == [by : Procs \cup {Nobody}, step : {"create", "status", "take", "drop"} \cup CreateSteps,
        g : GatewayIds, conf : Confs \cup {NoConf}]
RecordsFree == \A j \in jobs : j.step \notin CreateSteps

\* what a gateway is found to be when it is asked
Reports == {"running", "starting", "error"}

Declared(g) == doc[g] # Absent

Fault(f) ==
  /\ f \in FaultKinds
  /\ faults < MaxFaults
  /\ faults' = faults + 1

----------------------------------------------------------------------------
(* client_service: handlers, apply and start-up reconciliation             *)

\* an upstream call for w.g; p waits for its reply at pc = at
Call(p, st, w, at) ==
  /\ jobs' = jobs \cup {[by |-> p, step |-> st, g |-> w.g, conf |-> w.conf]}
  /\ pc' = [pc EXCEPT ![p] = at]

TakeReply(p) == reply' = [reply EXCEPT ![p] = "none"]

\* p turns to its tasks, beginning with an upstream list if it reconciles
Plan(p, o, where, tasks, ids) ==
  /\ op' = [op EXCEPT ![p] = o]
  /\ pc' = [pc EXCEPT ![p] = where]
  /\ todo' = [todo EXCEPT ![p] = tasks]
  /\ want' = [want EXCEPT ![p] = ids]
  /\ cur' = [cur EXCEPT ![p] = NoWork]
  /\ tries' = [tries EXCEPT ![p] = 0]
  /\ failed' = [failed EXCEPT ![p] = FALSE]

\* create_gateway: the gateway enters the document, then starts if enabled
CreateGateway(p, g, s) ==
  /\ pc[p] = "idle" /\ p \in Requests /\ "create" \in Ops
  /\ ~Declared(g)
  /\ doc' = [doc EXCEPT ![g] = s]
  /\ status' = [status EXCEPT ![g] = "stopped"]
  /\ Plan(p, "create", "work", IF s.enabled THEN {[do |-> "start", g |-> g]} ELSE {}, {})
  /\ UNCHANGED <<applyLock, jobs, reply, rec, cont, faults>>

\* Mutant: a changed configuration does not restart a running gateway
UpdateGatewayNoRestart(p, g, s) ==
  /\ pc[p] = "idle" /\ p \in Requests /\ "update" \in Ops
  /\ Declared(g) /\ s # doc[g]
  /\ doc' = [doc EXCEPT ![g] = s]
  /\ LET tasks == CASE s.enabled /\ ~doc[g].enabled -> {"start"}
                    [] ~s.enabled /\ doc[g].enabled -> {"stop"}
                    [] OTHER -> {}
     IN Plan(p, "update", "work", {[do |-> d, g |-> g] : d \in tasks}, {})
  /\ UNCHANGED <<status, applyLock, jobs, reply, rec, cont, faults>>

\* update_gateway: a change of enabled starts or stops, a change of the
\* configuration restarts a running gateway
UpdateGateway(p, g, s) ==
  /\ pc[p] = "idle" /\ p \in Requests /\ "update" \in Ops
  /\ Declared(g) /\ s # doc[g]
  /\ doc' = [doc EXCEPT ![g] = s]
  /\ LET tasks == CASE s.enabled /\ ~doc[g].enabled -> {"start"}
                    [] ~s.enabled /\ doc[g].enabled -> {"stop"}
                    [] OTHER -> IF s.conf # doc[g].conf /\ status[g] = "running"
                                  THEN {"stop", "start"} ELSE {}
     IN Plan(p, "update", "work", {[do |-> d, g |-> g] : d \in tasks}, {})
  /\ UNCHANGED <<status, applyLock, jobs, reply, rec, cont, faults>>

\* delete_gateway destroys upstream unless the status says there is nothing
DeleteGateway(p, g) ==
  /\ pc[p] = "idle" /\ p \in Requests /\ "delete" \in Ops
  /\ Declared(g)
  /\ op' = [op EXCEPT ![p] = "delete"]
  /\ cur' = [cur EXCEPT ![p] = [g |-> g, conf |-> NoConf]]
  /\ IF status[g] \in {"stopped", "error"}
       THEN pc' = [pc EXCEPT ![p] = "delete"] /\ UNCHANGED jobs
       ELSE Call(p, "take", cur'[p], "await_delete")
  /\ UNCHANGED <<doc, status, want, todo, tries, failed, applyLock, reply, rec, cont, faults>>

\* the upstream result is ignored
DeleteReply(p) ==
  /\ pc[p] = "await_delete" /\ reply[p] # "none"
  /\ TakeReply(p)
  /\ pc' = [pc EXCEPT ![p] = "delete"]
  /\ UNCHANGED <<doc, status, op, want, todo, cur, tries, failed, applyLock, jobs, rec, cont,
                 faults>>

DeleteDone(p) ==
  /\ pc[p] = "delete"
  /\ doc' = [doc EXCEPT ![cur[p].g] = Absent]
  /\ status' = IF Declared(cur[p].g) THEN [status EXCEPT ![cur[p].g] = "stopped"] ELSE status
  /\ op' = [op EXCEPT ![p] = "none"]
  /\ pc' = [pc EXCEPT ![p] = "idle"]
  /\ cur' = [cur EXCEPT ![p] = NoWork]
  /\ UNCHANGED <<want, todo, tries, failed, applyLock, jobs, reply, rec, cont, faults>>

\* start_gateway and stop_gateway
StartOrStop(p, o, g) ==
  /\ pc[p] = "idle" /\ p \in Requests /\ o \in Ops \cap {"start", "stop"}
  /\ Declared(g)
  /\ Plan(p, o, "work", {[do |-> o, g |-> g]}, {})
  /\ UNCHANGED <<doc, status, applyLock, jobs, reply, rec, cont, faults>>

BeginApply(p) ==
  /\ pc[p] = "idle" /\ p \in Requests /\ "apply" \in Ops
  /\ op' = [op EXCEPT ![p] = "apply"]
  /\ pc' = [pc EXCEPT ![p] = "lock"]
  /\ UNCHANGED <<doc, status, want, todo, cur, tries, failed, applyLock, jobs, reply, rec, cont,
                 faults>>

StartOrStopTask(d, g) == [do |-> IF d[g].enabled THEN "start" ELSE "stop", g |-> g]

\* apply_config under apply_lock: the document is replaced, the changed
\* gateways of the plan are to be started or stopped
Commit(p, new) ==
  /\ pc[p] = "lock" /\ op[p] = "apply"
  /\ applyLock = Nobody
  /\ applyLock' = p
  /\ doc' = new
  /\ LET ids == {g \in GatewayIds : new[g] # Absent}
     IN Plan(p, "apply", "list", {StartOrStopTask(new, g) : g \in {i \in ids : new[i] # doc[i]}},
             ids)
  /\ UNCHANGED <<status, jobs, reply, rec, cont, faults>>

\* Mutant: the start-up task does not take apply_lock
StartupUnlocked ==
  /\ pc[Startup] = "lock"
  /\ LET ids == {g \in GatewayIds : Declared(g)}
     IN Plan(Startup, "startup", "list", {StartOrStopTask(doc, g) : g \in ids}, ids)
  /\ UNCHANGED <<doc, status, applyLock, jobs, reply, rec, cont, faults>>

\* reconcile_gateways_locked lists the desired gateways
StartupDesired ==
  /\ pc[Startup] = "lock"
  /\ applyLock = Nobody
  /\ applyLock' = Startup
  /\ LET ids == {g \in GatewayIds : Declared(g)}
     IN Plan(Startup, "startup", "list", {StartOrStopTask(doc, g) : g \in ids}, ids)
  /\ UNCHANGED <<doc, status, jobs, reply, rec, cont, faults>>

\* Mutant: orphans are not looked for
ListUpstreamKeepingOrphans(p) ==
  /\ pc[p] = "list"
  /\ RecordsFree
  /\ todo' = [todo EXCEPT ![p] = {t \in @ : t.do = "start" \/ rec[t.g] # NoConf}]
  /\ pc' = [pc EXCEPT ![p] = "work"]
  /\ UNCHANGED <<doc, status, op, want, cur, tries, failed, applyLock, jobs, reply, rec, cont,
                 faults>>

\* ... and then the observed ones: a disabled gateway is stopped only if it was
\* observed, an observed one that is not desired is destroyed
ListUpstream(p) ==
  /\ pc[p] = "list"
  /\ RecordsFree
  /\ LET seen == {g \in GatewayIds : rec[g] # NoConf}
     IN todo' = [todo EXCEPT ![p] =
                   {t \in @ : t.do = "start" \/ t.g \in seen}
                     \cup {[do |-> "destroy", g |-> g] : g \in seen \ want[p]}]
  /\ pc' = [pc EXCEPT ![p] = "work"]
  /\ UNCHANGED <<doc, status, op, want, cur, tries, failed, applyLock, jobs, reply, rec, cont,
                 faults>>

\* nothing can be stopped or destroyed when the upstream state is unknown
ListFails(p) ==
  /\ pc[p] = "list"
  /\ Fault("giveup")
  /\ todo' = [todo EXCEPT ![p] = {t \in @ : t.do = "start"}]
  /\ failed' = [failed EXCEPT ![p] = TRUE]
  /\ pc' = [pc EXCEPT ![p] = "work"]
  /\ UNCHANGED <<doc, status, op, want, cur, tries, applyLock, jobs, reply, rec, cont>>

\* apply destroys first, the start-up task last; update stops before it starts
Rank(o, t) == CASE t.do = "destroy" -> IF o = "startup" THEN 2 ELSE 0
                [] o = "update" -> IF t.do = "stop" THEN 0 ELSE 1
                [] OTHER -> 1

IsNext(p, t) ==
  /\ t \in todo[p]
  /\ cur[p].g \in {NoGateway, t.g}
  /\ \A u \in todo[p] : Rank(op[p], t) <= Rank(op[p], u)

\* the task is over
NextTask(p, t) ==
  /\ todo' = [todo EXCEPT ![p] = @ \ {t}]
  /\ tries' = [tries EXCEPT ![p] = 0]
  /\ cur' = [cur EXCEPT ![p] = NoWork]
  /\ pc' = [pc EXCEPT ![p] = "work"]
  /\ UNCHANGED <<op, want>>

\* start_gateway_by_id: the settings are read and the status set before the call
StartCall(p, t) ==
  /\ pc[p] = "work" /\ IsNext(p, t) /\ t.do = "start"
  /\ Declared(t.g)
  /\ status' = [status EXCEPT ![t.g] = "starting"]
  /\ cur' = [cur EXCEPT ![p] = [g |-> t.g, conf |-> doc[t.g].conf]]
  /\ Call(p, "create", cur'[p], "await_create")
  /\ UNCHANGED <<doc, op, want, todo, tries, failed, applyLock, reply, rec, cont, faults>>

StopCall(p, t) ==
  /\ pc[p] = "work" /\ IsNext(p, t) /\ t.do = "stop"
  /\ Declared(t.g)
  /\ cur' = [cur EXCEPT ![p] = [g |-> t.g, conf |-> NoConf]]
  /\ Call(p, "take", cur'[p], "await_stop")
  /\ UNCHANGED <<doc, status, op, want, todo, tries, failed, applyLock, reply, rec, cont, faults>>

DestroyCall(p, t) ==
  /\ pc[p] = "work" /\ IsNext(p, t) /\ t.do = "destroy"
  /\ cur' = [cur EXCEPT ![p] = [g |-> t.g, conf |-> NoConf]]
  /\ Call(p, "take", cur'[p], "await_destroy")
  /\ UNCHANGED <<doc, status, op, want, todo, tries, failed, applyLock, reply, rec, cont, faults>>

\* Mutant: the start-up task tries once
GiveUpAtOnce(p, t, n) == failed' = [failed EXCEPT ![p] = TRUE] /\ NextTask(p, t)

\* attempt n failed: the start-up task tries again, up to Attempts times
GiveUp(p, t, n) ==
  IF op[p] = "startup" /\ n < Attempts
    THEN /\ pc' = [pc EXCEPT ![p] = "work"]
         /\ cur' = [cur EXCEPT ![p] = [g |-> t.g, conf |-> NoConf]]
         /\ tries' = [tries EXCEPT ![p] = n]
         /\ UNCHANGED <<op, want, todo, failed>>
    ELSE failed' = [failed EXCEPT ![p] = TRUE] /\ NextTask(p, t)

\* require_gateway or resolve_gateway_env fails, the status is left alone
CannotStart(p, t) ==
  /\ pc[p] = "work" /\ IsNext(p, t) /\ t.do = "start"
  /\ \/ ~Declared(t.g) /\ UNCHANGED faults
     \/ Declared(t.g) /\ Fault("config")
  /\ GiveUp(p, t, tries[p] + 1)
  /\ UNCHANGED <<doc, status, applyLock, jobs, reply, rec, cont>>

\* require_gateway fails; update_gateway returns the error
CannotStop(p, t) ==
  /\ pc[p] = "work" /\ IsNext(p, t) /\ t.do = "stop"
  /\ ~Declared(t.g)
  /\ failed' = [failed EXCEPT ![p] = TRUE]
  /\ todo' = [todo EXCEPT ![p] = IF op[p] = "update" THEN {} ELSE @ \ {t}]
  /\ UNCHANGED <<doc, status, op, pc, want, cur, tries, applyLock, jobs, reply, rec, cont, faults>>

\* create_agent_host_gateway: a conflict makes way for one more try
Replace(p) ==
  /\ pc[p] = "await_create" /\ reply[p] = "conflict"
  /\ TakeReply(p)
  /\ Call(p, "take", cur[p], "await_replace")
  /\ UNCHANGED <<doc, status, op, want, todo, cur, tries, failed, applyLock, rec, cont, faults>>

\* env was resolved before the first try: the second one carries the same
Recreate(p) ==
  /\ pc[p] = "await_replace" /\ reply[p] = "ok"
  /\ TakeReply(p)
  /\ Call(p, "create", cur[p], "await_recreate")
  /\ UNCHANGED <<doc, status, op, want, todo, cur, tries, failed, applyLock, rec, cont, faults>>

StartFailed(p) ==
  \/ pc[p] \in {"await_create", "await_recreate"} /\ reply[p] = "err"
  \/ pc[p] = "await_recreate" /\ reply[p] = "conflict"
  \/ pc[p] = "await_replace" /\ reply[p] = "err"

\* the task p works on
Current(p, do) == [do |-> do, g |-> cur[p].g]

\* apply_gateway_start_response: started, whatever the gateway says of itself
Started(p) ==
  /\ pc[p] \in {"await_create", "await_recreate"} /\ reply[p] \in Reports
  /\ TakeReply(p)
  /\ status' = [status EXCEPT ![cur[p].g] = reply[p]]
  /\ NextTask(p, Current(p, "start"))
  /\ UNCHANGED <<doc, failed, applyLock, jobs, rec, cont, faults>>

NotStarted(p) ==
  /\ StartFailed(p)
  /\ TakeReply(p)
  /\ status' = [status EXCEPT ![cur[p].g] = "error"]
  /\ GiveUp(p, Current(p, "start"), tries[p] + 1)
  /\ UNCHANGED <<doc, applyLock, jobs, rec, cont, faults>>

\* stop_gateway_by_id: stopped, whatever came of the destroy
Stopped(p) ==
  /\ pc[p] = "await_stop" /\ reply[p] # "none"
  /\ TakeReply(p)
  /\ status' = [status EXCEPT ![cur[p].g] = "stopped"]
  /\ NextTask(p, Current(p, "stop"))
  /\ UNCHANGED <<doc, failed, applyLock, jobs, rec, cont, faults>>

Destroyed(p) ==
  /\ pc[p] = "await_destroy" /\ reply[p] # "none"
  /\ TakeReply(p)
  /\ IF reply[p] = "ok"
       THEN NextTask(p, Current(p, "destroy")) /\ UNCHANGED failed
       ELSE GiveUp(p, Current(p, "destroy"), tries[p] + 1)
  /\ UNCHANGED <<doc, status, applyLock, jobs, rec, cont, faults>>

\* Mutant: apply_lock is kept
ReturnKeepingLock(p) ==
  /\ pc[p] = "work" /\ todo[p] = {}
  /\ op' = [op EXCEPT ![p] = "none"]
  /\ pc' = [pc EXCEPT ![p] = "idle"]
  /\ want' = [want EXCEPT ![p] = {}]
  /\ UNCHANGED <<doc, status, todo, cur, tries, failed, applyLock, jobs, reply, rec, cont, faults>>

\* the response is sent; the guard of apply_lock is dropped
Return(p) ==
  /\ pc[p] = "work" /\ todo[p] = {}
  /\ op' = [op EXCEPT ![p] = "none"]
  /\ pc' = [pc EXCEPT ![p] = "idle"]
  /\ want' = [want EXCEPT ![p] = {}]
  /\ applyLock' = IF applyLock = p THEN Nobody ELSE applyLock
  /\ UNCHANGED <<doc, status, todo, cur, tries, failed, jobs, reply, rec, cont, faults>>

\* a call times out: its process goes on with the error, its job with the work
TimeOut(p) ==
  /\ pc[p] \in Awaiting /\ reply[p] = "none"
  /\ Fault("giveup")
  /\ jobs' = {IF j.by = p THEN [j EXCEPT !.by = Nobody] ELSE j : j \in jobs}
  /\ reply' = [reply EXCEPT ![p] = "err"]
  /\ UNCHANGED <<doc, status, procVars, applyLock, rec, cont>>

----------------------------------------------------------------------------
(* agent_host: GatewayHost                                                 *)

Goto(j, st) ==
  /\ jobs' = (jobs \ {j}) \cup {[j EXCEPT !.step = st]}
  /\ UNCHANGED reply

End(j, r) ==
  /\ jobs' = jobs \ {j}
  /\ reply' = IF j.by = Nobody THEN reply ELSE [reply EXCEPT ![j.by] = r]

\* create_gateway: the mutex, then the check for a duplicate
LockRecords(j) ==
  /\ j.step = "create"
  /\ RecordsFree
  /\ IF rec[j.g] # NoConf THEN End(j, "conflict") ELSE Goto(j, "remove")
  /\ UNCHANGED <<doc, status, procVars, applyLock, rec, cont, faults>>

\* whatever container has the name goes
RemoveStale(j) ==
  /\ j.step = "remove"
  /\ cont' = [cont EXCEPT ![j.g] = NoConf]
  /\ Goto(j, "run")
  /\ UNCHANGED <<doc, status, procVars, applyLock, rec, faults>>

RunContainer(j) ==
  /\ j.step = "run"
  /\ cont' = [cont EXCEPT ![j.g] = j.conf]
  /\ Goto(j, "ready")
  /\ UNCHANGED <<doc, status, procVars, applyLock, rec, faults>>

\* wait_until_ready, then the record; a container that went away is never ready
InsertRecord(j) ==
  /\ j.step = "ready"
  /\ IF cont[j.g] # NoConf
       THEN rec' = [rec EXCEPT ![j.g] = j.conf] /\ Goto(j, "status")
       ELSE End(j, "err") /\ UNCHANGED rec
  /\ UNCHANGED <<doc, status, procVars, applyLock, cont, faults>>

\* summary_with_status asks the gateway, after the mutex is released: a call that
\* fails is answered with "error", also while the container runs
AskStatus(j) ==
  /\ j.step = "status"
  /\ \E s \in Reports : (s # "error" => cont[j.g] # NoConf) /\ End(j, s)
  /\ UNCHANGED <<doc, status, procVars, applyLock, rec, cont, faults>>

\* destroy_gateway takes the record out; without one it answers 404, which the
\* client takes for success
TakeRecord(j) ==
  /\ j.step = "take"
  /\ RecordsFree
  /\ rec' = [rec EXCEPT ![j.g] = NoConf]
  /\ IF rec[j.g] = NoConf THEN End(j, "ok") ELSE Goto(j, "drop")
  /\ UNCHANGED <<doc, status, procVars, applyLock, cont, faults>>

\* ... and the container goes after the mutex is released
DropContainer(j) ==
  /\ j.step = "drop"
  /\ cont' = [cont EXCEPT ![j.g] = NoConf]
  /\ End(j, "ok")
  /\ UNCHANGED <<doc, status, procVars, applyLock, rec, faults>>

\* Docker refuses, or the gateway is not ready in time
JobFails(j) ==
  /\ j.step \in CreateSteps \cup {"drop"}
  /\ Fault("call")
  /\ End(j, "err")
  /\ UNCHANGED <<doc, status, procVars, applyLock, rec, cont>>

\* hyper drops the handler of a closed connection at an await
JobDropped(j) ==
  /\ j.by = Nobody
  /\ End(j, "err")
  /\ UNCHANGED <<doc, status, procVars, applyLock, rec, cont, faults>>

\* agent_host restarts: a graceful shutdown drains the calls and destroys the
\* gateways it has records of, a crash leaves their containers
HostRestart ==
  /\ Fault("restart")
  /\ \/ UNCHANGED cont
     \/ /\ jobs = {}
        /\ cont' = [g \in GatewayIds |-> IF rec[g] = NoConf THEN cont[g] ELSE NoConf]
  /\ rec' = [g \in GatewayIds |-> NoConf]
  /\ jobs' = {}
  /\ reply' = [p \in Procs |-> IF \E j \in jobs : j.by = p THEN "err" ELSE reply[p]]
  /\ UNCHANGED <<doc, status, procVars, applyLock>>

\* client_service restarts: the document is durable, the statuses are not
ClientRestart ==
  /\ Fault("reboot")
  /\ status' = [g \in GatewayIds |-> "stopped"]
  /\ op' = [p \in Procs |-> IF p = Startup THEN "startup" ELSE "none"]
  /\ pc' = [p \in Procs |-> IF p = Startup THEN "lock" ELSE "idle"]
  /\ want' = [p \in Procs |-> {}]
  /\ todo' = [p \in Procs |-> {}]
  /\ cur' = [p \in Procs |-> NoWork]
  /\ tries' = [p \in Procs |-> 0]
  /\ failed' = [p \in Procs |-> FALSE]
  /\ applyLock' = Nobody
  /\ jobs' = {[j EXCEPT !.by = Nobody] : j \in jobs}
  /\ reply' = [p \in Procs |-> "none"]
  /\ UNCHANGED <<doc, rec, cont>>

----------------------------------------------------------------------------

\* every request is answered, every call served
Quiet == jobs = {} /\ \A p \in Procs : pc[p] = "idle"

\* client_service comes up with a document and meets what agent_host still runs
Init ==
  /\ doc \in [GatewayIds -> Settings \cup {Absent}]
  /\ status = [g \in GatewayIds |-> "stopped"]
  /\ op = [p \in Procs |-> IF p = Startup THEN "startup" ELSE "none"]
  /\ pc = [p \in Procs |-> IF p = Startup THEN "lock" ELSE "idle"]
  /\ want = [p \in Procs |-> {}]
  /\ todo = [p \in Procs |-> {}]
  /\ cur = [p \in Procs |-> NoWork]
  /\ tries = [p \in Procs |-> 0]
  /\ failed = [p \in Procs |-> FALSE]
  /\ applyLock = Nobody
  /\ jobs = {}
  /\ reply = [p \in Procs |-> "none"]
  /\ rec \in [GatewayIds -> Confs \cup {NoConf}]
  /\ cont = rec
  /\ faults = 0

Begin(p) ==
  /\ Concurrent \/ Quiet
  /\ \/ \E g \in GatewayIds :
          \/ \E s \in Settings : CreateGateway(p, g, s) \/ UpdateGateway(p, g, s)
          \/ DeleteGateway(p, g)
          \/ \E o \in {"start", "stop"} : StartOrStop(p, o, g)
     \/ BeginApply(p)

Lock(p) ==
  \/ \E new \in [GatewayIds -> Settings \cup {Absent}] : Commit(p, new)
  \/ p = Startup /\ StartupDesired

Handle(p) ==
  \/ ListUpstream(p) \/ DeleteReply(p) \/ DeleteDone(p) \/ Replace(p) \/ Recreate(p)
  \/ Started(p) \/ NotStarted(p) \/ Stopped(p) \/ Destroyed(p) \/ Return(p)
  \/ \E t \in Task : \/ StartCall(p, t) \/ StopCall(p, t) \/ DestroyCall(p, t)
                     \/ CannotStart(p, t) \/ CannotStop(p, t)

Serve(j) ==
  \/ LockRecords(j) \/ RemoveStale(j) \/ RunContainer(j) \/ InsertRecord(j)
  \/ AskStatus(j) \/ TakeRecord(j) \/ DropContainer(j)

Next ==
  \/ \E p \in Procs : Begin(p) \/ Lock(p) \/ Handle(p) \/ ListFails(p) \/ TimeOut(p)
  \/ \E j \in jobs : Serve(j) \/ JobFails(j) \/ JobDropped(j)
  \/ HostRestart \/ ClientRestart

Spec == Init /\ [][Next]_vars

\* tokio's mutexes serve their waiters in turn; calls end, by timeout if need be
Fairness ==
  /\ \A p \in Procs : WF_vars(Handle(p)) /\ SF_vars(Lock(p))
  /\ \A by \in Procs \cup {Nobody} : SF_vars(\E j \in jobs : j.by = by /\ Serve(j))

FairSpec == Spec /\ Fairness

----------------------------------------------------------------------------
(* Properties                                                              *)

\* The document holds gateways with their settings, a record and a container
\* carry settings of a gateway, and every call in service is one a process
\* made.
TypeOK ==
  /\ doc \in [GatewayIds -> Settings \cup {Absent}]
  /\ status \in [GatewayIds -> {"stopped", "starting", "running", "error"}]
  /\ op \in [Procs -> InteractiveOps \cup {"apply", "startup", "none"}]
  /\ pc \in [Procs -> PcStates]
  /\ want \in [Procs -> SUBSET GatewayIds]
  /\ todo \in [Procs -> SUBSET Task]
  /\ cur \in [Procs -> [g : GatewayIds, conf : Confs \cup {NoConf}] \cup {NoWork}]
  /\ tries \in [Procs -> 0..Attempts]
  /\ failed \in [Procs -> BOOLEAN]
  /\ applyLock \in Procs \cup {Nobody}
  /\ jobs \subseteq Job
  /\ reply \in [Procs -> {"none", "ok", "conflict", "err"} \cup Reports]
  /\ rec \in [GatewayIds -> Confs \cup {NoConf}]
  /\ cont \in [GatewayIds -> Confs \cup {NoConf}]
  /\ faults \in 0..MaxFaults

\* A reconciliation, at start-up or of an apply, destroys as an orphan only a
\* gateway that the document does not have: what it decided from the list is
\* still true when the record goes.
OrphansOnly ==
  [][\A j \in jobs :
       TakeRecord(j) /\ j.by # Nobody /\ pc[j.by] = "await_destroy" => ~Declared(j.g)]_vars

\* When the start-up reconciliation ends every enabled gateway has a record and
\* a container with the settings of the document, whatever ran before and as long
\* as fewer than GATEWAY_AUTOSTART_ATTEMPTS attempts fail.  It says nothing of the
\* status: a start counts as done, and is not tried again, also when the gateway
\* could not be asked or says that it is starting or in error.
EnabledRun ==
  [][Return(Startup) =>
       \A g \in GatewayIds :
         doc[g].enabled => rec[g] = doc[g].conf /\ cont[g] = doc[g].conf]_vars

\* Applies and the start-up reconciliation leave the containers as the document
\* has them: an enabled gateway runs with its settings, nothing else runs.
Converges ==
  Quiet => \A g \in GatewayIds :
             cont[g] = IF doc[g].enabled THEN doc[g].conf ELSE NoConf

\* An upstream gateway that the document does not have is destroyed, with
\* retries: a start-up reconciliation without a failure leaves no such container.  No run
\* checks it: it fails, for agent_host drops the record before it removes the container, so
\* that the retry after a failed removal finds nothing to destroy.
OrphansDestroyed ==
  Quiet /\ ~failed[Startup] => \A g \in GatewayIds : ~Declared(g) => cont[g] = NoConf

\* To operators who wait for each answer, a gateway reported running does run,
\* with the settings the document has now, in spite of failed starts and stops.
StatusTruthful ==
  Quiet => \A g \in GatewayIds :
             Declared(g) /\ status[g] = "running" => rec[g] = doc[g].conf /\ cont[g] = doc[g].conf

\* Every request and the start-up task end: none waits for ever for apply_lock,
\* the records mutex or an answer.
EveryTaskEnds == \A p \in Procs : pc[p] # "idle" ~> pc[p] = "idle"

=============================================================================
