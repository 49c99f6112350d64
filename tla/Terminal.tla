------------------------------ MODULE Terminal ------------------------------
(***************************************************************************)
(* The terminal of one CLI session: the requests of client_service (create,*)
(* ensure, stop, resume, status, delete, kill and the browser sockets),    *)
(* the attachment leases of agent_host's TerminalService, and the tmux     *)
(* session that kernel_host controls inside the container.                 *)
(*                                                                         *)
(* Every operation of TerminalService but resize and forget_session runs   *)
(* under boundary_lock, so the one that holds it is the variable job; each *)
(* of its calls to the kernel is a step.  Terminal bytes are left out.     *)
(***************************************************************************)
EXTENDS Naturals, FiniteSets

CONSTANTS
  Sockets,     \* browser sockets; each makes at most one attachment, named by it
  Controls,    \* concurrent handlers of the other routes
  Ptys,        \* names of tmux clients (pseudo terminals), reused once free
  NoPty,       \* tmux_client_id of a lease whose client is not discovered yet
  NoLease,
  NoGen,       \* runtime_generation of a session that never had a runtime
  MaxGen,      \* bound on runtime_generation
  NoTask,
  Ops,         \* routes the handlers may be asked for
  FaultKinds,
  MaxFaults

ASSUME TerminalAssumption ==
  /\ Sockets \cap Controls = {}
  /\ NoTask \notin Sockets \cup Controls
  /\ NoPty \notin Ptys /\ NoLease \notin Ptys /\ NoPty # NoLease
  /\ Ptys \cap {"none", "starting", "gone"} = {}
  /\ MaxGen \in Nat /\ NoGen \notin Nat /\ MaxFaults \in Nat

Tasks == Sockets \cup Controls

VARIABLES
  alive,     \* the container runs and its kernel_host answers
  volume,    \* the workspace volume exists
  pane,      \* the tmux pane: missing, running or exited
  again,     \* TerminalController._resume_on_create
  client,    \* per socket, the process of its Docker exec: none, starting, gone, or its pty
  registered, \* agent_host has a record of the session
  lease,     \* TerminalService.attachments: the tmux client id of the lease of a socket
  told,      \* the last Disconnect sent on the lifecycle channel of a lease
  job,       \* the holder of boundary_lock and how far it is
  row,       \* the row of the session in client_service
  holder,    \* who holds the lifecycle lock of the session
  req,       \* the handlers
  faults

kernelVars == <<alive, volume, pane, again, client>>
hostVars == <<registered, lease, told, job>>
clientVars == <<row, holder>>
vars == <<kernelVars, hostVars, clientVars, req, faults>>

Panes == {"missing", "running", "exited"}
Runtime == {"starting", "live", "exited", "disconnected", "error"}
Gens == 0..MaxGen \cup {NoGen}
Rows == [life : {"never", "there", "deleted"}, gen : Gens, runtime : Runtime]
NewRow == [life |-> "there", gen |-> NoGen, runtime |-> "starting"]
Statuses == [state : Panes, clients : SUBSET [id : Ptys, att : Sockets]]
Answers == [state : Panes, resumed : BOOLEAN]
NoAnswer == [state |-> "missing", resumed |-> FALSE]
NoStatus == [state |-> "missing", clients |-> {}]
NoJob == [by |-> NoTask, op |-> "none", pc |-> "none", st |-> NoStatus, todo |-> {},
          active |-> {}, seen |-> {}, last |-> FALSE, resumed |-> FALSE]
NoReq == [op |-> "none", pc |-> "idle", row |-> NewRow, ans |-> NoAnswer]

AtHost == {"adopt", "call", "upgrade", "attach", "ending", "detach"}
ReqPcs == AtHost \cup {"idle", "done", "lock", "create", "register", "persist", "apply", "failed",
                       "served", "forget", "remove", "drop", "erase"}
JobPcs == {"none", "status", "reconcile", "stale", "settle", "act", "exec", "find", "unhook"}

Init ==
  /\ alive = FALSE /\ volume = FALSE /\ pane = "missing" /\ again = FALSE
  /\ client = [a \in Sockets |-> "none"]
  /\ registered = FALSE
  /\ lease = [a \in Sockets |-> NoLease]
  /\ told = [a \in Sockets |-> "none"]
  /\ job = NoJob
  /\ row = [NewRow EXCEPT !.life = "never"]
  /\ holder = NoTask
  /\ req = [x \in Tasks |-> NoReq]
  /\ faults = 0

Fault(kind) ==
  /\ kind \in FaultKinds
  /\ faults < MaxFaults
  /\ faults' = faults + 1

----------------------------------------------------------------------------
(* client_service: the handlers.                                           *)

Rest(x) == [NoReq EXCEPT !.pc = IF x \in Sockets THEN "done" ELSE "idle"]

Goto(x, pc) == req' = [req EXCEPT ![x].pc = pc]

\* mutant: the lifecycle guard outlives the handler
ReturnLocked(x) == req' = [req EXCEPT ![x] = Rest(x)] /\ UNCHANGED holder

\* the handler returns, and its lifecycle guard with it
Return(x) ==
  /\ req' = [req EXCEPT ![x] = Rest(x)]
  /\ holder' = IF holder = x THEN NoTask ELSE holder

RowThere == row.life = "there"

\* mutant: a session whose first start is under way passes for one with a runtime
HasRuntimeOrRow == RowThere

\* require_cli_runtime
HasRuntime == RowThere /\ row.runtime \notin {"starting", "error"}

\* create_cli_session: nobody else knows the new id, so the lock is free
CreateCli(c) ==
  /\ "create" \in Ops /\ row.life = "never"
  /\ row' = NewRow
  /\ holder' = c
  /\ req' = [req EXCEPT ![c] = [NoReq EXCEPT !.op = "create", !.pc = "create"]]
  /\ UNCHANGED <<kernelVars, hostVars, faults>>

\* terminal_ensure looks for the session before it waits for the lock
AskEnsure(c) ==
  /\ "ensure" \in Ops /\ RowThere
  /\ req' = [req EXCEPT ![c] = [NoReq EXCEPT !.op = "ensure", !.pc = "lock"]]
  /\ UNCHANGED <<kernelVars, hostVars, clientVars, faults>>

\* terminal_stop, terminal_resume and delete_session take the lock first
AskLocked(c, op) ==
  /\ op \in Ops \cap {"stop", "resume", "delete"}
  /\ row.life # "never"
  /\ req' = [req EXCEPT ![c] = [NoReq EXCEPT !.op = op, !.pc = "lock"]]
  /\ UNCHANGED <<kernelVars, hostVars, clientVars, faults>>

\* terminal_status and terminal_websocket take no lock: the row they read here
\* is the one they write back once agent_host has answered
AskUnlocked(x) ==
  /\ \/ x \in Controls /\ "status" \in Ops
     \/ x \in Sockets
  /\ HasRuntime
  /\ req' = [req EXCEPT ![x] = [NoReq EXCEPT !.op = IF x \in Sockets THEN "ws" ELSE "status",
                                             !.pc = "call", !.row = row]]
  /\ UNCHANGED <<kernelVars, hostVars, clientVars, faults>>

\* kill_kernel destroys the runtime and leaves the fields of the row modelled here alone
AskKill(c) ==
  /\ "kill" \in Ops /\ registered
  /\ req' = [req EXCEPT ![c] = [NoReq EXCEPT !.op = "kill", !.pc = "forget"]]
  /\ UNCHANGED <<kernelVars, hostVars, clientVars, faults>>

Ask(x) ==
  /\ req[x].pc = "idle"
  /\ \/ AskUnlocked(x)
     \/ x \in Controls /\ (CreateCli(x) \/ AskEnsure(x) \/ AskKill(x))
     \/ x \in Controls /\ \E op \in Ops : AskLocked(x, op)

\* the check a handler makes once it holds the lock
Admitted(op) == IF op \in {"stop", "resume"} THEN HasRuntime ELSE RowThere

AfterLock(op) == CASE op = "ensure" -> "create"
                   [] op = "delete" -> "forget"
                   [] OTHER -> "call"

Acquire(x) ==
  /\ req[x].pc = "lock" /\ holder = NoTask
  /\ IF Admitted(req[x].op)
       THEN /\ holder' = x
            /\ req' = [req EXCEPT ![x].pc = AfterLock(req[x].op),
                                   ![x].row = IF req[x].op = "delete" THEN NewRow ELSE row]
       ELSE Return(x)
  /\ UNCHANGED <<kernelVars, hostVars, row, faults>>

----------------------------------------------------------------------------
(* create_session of agent_host: adopt the container or make one.          *)

\* a session that had a runtime is not given an empty workspace
WorkspaceLost(x) == ~volume /\ req[x].row.gen # NoGen

CreateRuntime(x) ==
  /\ req[x].pc = "create" /\ ~WorkspaceLost(x)
  /\ alive' = TRUE /\ volume' = TRUE
  /\ IF alive THEN UNCHANGED <<pane, again>>
           ELSE pane' = "missing" /\ again' = (req[x].row.gen # NoGen)
  /\ Goto(x, "adopt")
  /\ UNCHANGED <<client, hostVars, clientVars, faults>>

CreateFails(x) ==
  /\ req[x].pc = "create"
  /\ IF WorkspaceLost(x) THEN UNCHANGED faults ELSE Fault("call")
  /\ Goto(x, "failed")
  /\ UNCHANGED <<kernelVars, hostVars, clientVars>>

\* cli_runtime_launch: a secret the launch snapshot refers to is not set
LaunchFails(x) ==
  /\ req[x].pc = "create" /\ Fault("config")
  /\ Goto(x, "failed")
  /\ UNCHANGED <<kernelVars, hostVars, clientVars>>

Register(x) ==
  /\ req[x].pc = "register"
  /\ registered' = TRUE
  /\ Goto(x, "persist")
  /\ UNCHANGED <<kernelVars, lease, told, job, clientVars, faults>>

\* the row is written live before the terminal is started
Persisted(r) == [r EXCEPT !.gen = IF @ = NoGen THEN 0 ELSE @, !.runtime = "live"]

Persist(x) ==
  /\ req[x].pc = "persist" /\ RowThere
  /\ row' = Persisted(req[x].row)
  /\ req' = [req EXCEPT ![x].pc = "call", ![x].row = Persisted(req[x].row)]
  /\ UNCHANGED <<kernelVars, hostVars, holder, faults>>

\* a failed write is compensated: the runtime just made is destroyed
PersistFails(x) ==
  /\ req[x].pc = "persist" /\ Fault("store")
  /\ Goto(x, "forget")
  /\ UNCHANGED <<kernelVars, hostVars, clientVars>>

\* mark_runtime_error: only ensure_cli_runtime_locked does it
MarkError(x) ==
  /\ req[x].pc = "failed"
  /\ row' = IF req[x].op \in {"create", "ensure"} /\ RowThere
              THEN [req[x].row EXCEPT !.runtime = "error"] ELSE row
  /\ Return(x)
  /\ UNCHANGED <<kernelVars, hostVars, faults>>

\* advance_runtime_generation_if_resumed
Advanced(r, resumed) ==
  IF ~resumed THEN r
  ELSE [r EXCEPT !.gen = IF @ = NoGen THEN 1 ELSE IF @ = MaxGen THEN MaxGen ELSE @ + 1]

RuntimeOf(state) == CASE state = "running" -> "live"
                      [] state = "exited" -> "exited"
                      [] state = "missing" -> "disconnected"

\* apply_terminal_runtime_status writes the whole row the handler has; a deleted
\* row is an error
Apply(x) ==
  /\ req[x].pc = "apply"
  /\ LET ans == req[x].ans
         new == [Advanced(req[x].row, req[x].op \in {"create", "ensure", "resume"} /\ ans.resumed)
                   EXCEPT !.runtime = RuntimeOf(ans.state)]
     IN /\ row' = IF RowThere THEN new ELSE row
        /\ IF RowThere /\ x \in Sockets /\ ans.state = "running"
             THEN /\ req' = [req EXCEPT ![x] = [NoReq EXCEPT !.op = "ws", !.pc = "upgrade"]]
                  /\ UNCHANGED holder
             ELSE Return(x)
  /\ UNCHANGED <<kernelVars, hostVars, faults>>

----------------------------------------------------------------------------
(* destroy_session of agent_host, for delete, kill and compensation.       *)

AllGone == [a \in Sockets |-> IF client[a] = "none" THEN "none" ELSE "gone"]

\* mutant: the leases are dropped and their sockets not told
ForgetInSilence(x) ==
  /\ req[x].pc = "forget"
  /\ lease' = IF registered THEN [a \in Sockets |-> NoLease] ELSE lease
  /\ Goto(x, "remove")
  /\ UNCHANGED <<kernelVars, registered, told, job, clientVars, faults>>

\* SessionRegistry finds the record; forget_session takes no boundary_lock
Forget(x) ==
  /\ req[x].pc = "forget"
  /\ IF registered
       THEN /\ lease' = [a \in Sockets |-> NoLease]
            /\ told' = [a \in Sockets |-> IF lease[a] = NoLease THEN told[a] ELSE "error"]
       ELSE UNCHANGED <<lease, told>>
  /\ Goto(x, "remove")
  /\ UNCHANGED <<kernelVars, registered, job, clientVars, faults>>

Remove(x) ==
  /\ req[x].pc = "remove"
  /\ alive' = FALSE /\ volume' = FALSE /\ pane' = "missing" /\ again' = FALSE
  /\ client' = AllGone
  /\ Goto(x, "drop")
  /\ UNCHANGED <<hostVars, clientVars, faults>>

RemoveFails(x) ==
  /\ req[x].pc = "remove" /\ Fault("call")
  /\ Return(x)
  /\ UNCHANGED <<kernelVars, hostVars, row>>

Drop(x) ==
  /\ req[x].pc = "drop"
  /\ registered' = FALSE
  /\ IF req[x].op = "delete" THEN Goto(x, "erase") /\ UNCHANGED holder ELSE Return(x)
  /\ UNCHANGED <<kernelVars, lease, told, job, row, faults>>

Erase(x) ==
  /\ req[x].pc = "erase"
  /\ row' = [row EXCEPT !.life = "deleted"]
  /\ Return(x)
  /\ UNCHANGED <<kernelVars, hostVars, faults>>

----------------------------------------------------------------------------
(* TerminalService of agent_host: one job at a time under boundary_lock.   *)

\* the answer of TerminalController.status
Observed(p, cl) ==
  [state |-> p,
   clients |-> {[id |-> cl[a], att |-> a] : a \in {b \in Sockets : cl[b] \in Ptys}}]

Leased == {a \in Sockets : lease[a] # NoLease}

\* what the handler that asked for the job does with its outcome
OnOk == [adopt |-> "register", call |-> "apply", upgrade |-> "attach", attach |-> "served",
         ending |-> "detach", detach |-> "done"]
OnError == [adopt |-> "failed", call |-> "failed", upgrade |-> "done", attach |-> "done",
            ending |-> "detach", detach |-> "done"]

Outcome(r, ok, ans) ==
  [r EXCEPT !.pc = IF ok THEN OnOk[@] ELSE OnError[@],
            !.ans = IF ok /\ r.pc = "call" THEN ans ELSE @]

JobOp(r) == IF r.pc = "call" /\ r.op \in {"create", "ensure"} THEN "ensure"
            ELSE IF r.pc = "call" /\ r.op \in {"stop", "resume"} THEN r.op
            ELSE IF r.pc \in {"attach", "detach"} THEN r.pc
            ELSE "status"

End(ok, st) ==
  /\ job' = NoJob
  /\ req' = [req EXCEPT ![job.by] =
               Outcome(req[job.by],
                       ok /\ (req[job.by].pc = "upgrade" => st.state = "running"),
                       [state |-> st.state, resumed |-> job.resumed])]

\* get_terminal_record: without a record there is nothing to wait for
RecordMissing(x) ==
  /\ req[x].pc \in AtHost \ {"adopt"} /\ ~registered /\ job.by # x
  /\ req' = [req EXCEPT ![x] = Outcome(req[x], FALSE, NoAnswer)]
  /\ UNCHANGED <<kernelVars, hostVars, clientVars, faults>>

Begin(x) ==
  [NoJob EXCEPT !.by = x, !.op = JobOp(req[x]),
                !.pc = IF JobOp(req[x]) = "stop" THEN "act" ELSE "status",
                !.last = JobOp(req[x]) \in {"status", "stop", "detach"}]

\* detach removes the lease before anything else; a lease someone else removed
\* needs no detaching
Lock(x) ==
  /\ req[x].pc \in AtHost /\ job = NoJob
  /\ req[x].pc = "adopt" \/ registered
  /\ IF req[x].pc # "detach"
       THEN job' = Begin(x) /\ UNCHANGED <<lease, req>>
       ELSE /\ lease' = [lease EXCEPT ![x] = NoLease]
            /\ IF lease[x] = NoLease
                 THEN req' = [req EXCEPT ![x] = Outcome(req[x], TRUE, NoAnswer)] /\ UNCHANGED job
                 ELSE /\ job' = IF lease[x] = NoPty THEN Begin(x)
                                ELSE [Begin(x) EXCEPT !.pc = "unhook", !.todo = {lease[x]}]
                      /\ UNCHANGED req
  /\ UNCHANGED <<kernelVars, registered, told, clientVars, faults>>

\* reconcile_locked: ask the kernel
GetStatus ==
  /\ job.pc = "status" /\ alive
  /\ job' = [job EXCEPT !.pc = "reconcile", !.st = Observed(pane, client),
                        !.seen = Observed(pane, client).clients]
  /\ UNCHANGED <<kernelVars, registered, lease, told, clientVars, req, faults>>

\* reconcile_status_locked: clients that no lease of the moment accounts for
Stale(st) ==
  {c.id : c \in {k \in st.clients : \A a \in Leased : k.att # a /\ lease[a] # k.id}}

Reconcile ==
  /\ job.pc = "reconcile"
  /\ job' = [job EXCEPT !.active = Leased, !.todo = Stale(job.st),
                        !.pc = IF Stale(job.st) = {} THEN "settle" ELSE "stale"]
  /\ UNCHANGED <<kernelVars, registered, lease, told, clientVars, req, faults>>

\* tmux detach-client: whoever has that name now
Unhooked(p) == [a \in Sockets |-> IF client[a] = p THEN "gone" ELSE client[a]]

DetachStale ==
  /\ job.pc = "stale" /\ alive
  /\ \E p \in job.todo :
       /\ client' = Unhooked(p)
       /\ job' = [job EXCEPT !.st = Observed(pane, Unhooked(p)), !.todo = @ \ {p},
                             !.pc = IF job.todo = {p} THEN "settle" ELSE "stale"]
  /\ UNCHANGED <<alive, volume, pane, again, registered, lease, told, clientVars, req, faults>>

\* leases whose client has disappeared from a running terminal
Phantoms ==
  {a \in job.active \cap Leased : /\ job.st.state = "running"
                                  /\ lease[a] \in Ptys
                                  /\ \A c \in job.st.clients : c.id # lease[a]}

Settle ==
  /\ job.pc = "settle"
  /\ lease' = [a \in Sockets |-> IF a \in Phantoms THEN NoLease ELSE lease[a]]
  /\ told' = [a \in Sockets |-> IF a \in Phantoms THEN "error" ELSE told[a]]
  /\ IF job.last THEN End(TRUE, job.st)
     ELSE IF job.op # "attach" THEN job' = [job EXCEPT !.pc = "act"] /\ UNCHANGED req
     ELSE IF job.st.state = "running" THEN job' = [job EXCEPT !.pc = "exec"] /\ UNCHANGED req
     ELSE End(FALSE, job.st)
  /\ UNCHANGED <<kernelVars, registered, clientVars, faults>>

----------------------------------------------------------------------------
(* TerminalController of kernel_host: ensure, stop and resume.             *)

KernelEnsure ==
  /\ job.op = "ensure"
  /\ pane' = IF pane = "missing" THEN "running" ELSE pane
  /\ again' = IF pane = "missing" THEN FALSE ELSE again
  /\ UNCHANGED client

KernelStop ==
  /\ job.op = "stop"
  /\ pane' = "missing"
  /\ again' = IF pane = "missing" THEN again ELSE TRUE
  /\ client' = [a \in Sockets |-> IF client[a] \in Ptys THEN "gone" ELSE client[a]]

KernelResume ==
  /\ job.op = "resume" /\ pane = "exited"
  /\ pane' = "running" /\ again' = FALSE
  /\ UNCHANGED client

Act ==
  /\ job.pc = "act" /\ alive
  /\ KernelEnsure \/ KernelStop \/ KernelResume
  /\ job' = [job EXCEPT !.pc = "reconcile", !.last = TRUE,
                        !.st = Observed(pane', client'),
                        !.resumed = (job.op = "ensure" /\ pane = "missing" /\ again)
                                    \/ job.op = "resume"]
  /\ UNCHANGED <<alive, volume, registered, lease, told, clientVars, req, faults>>

\* only an exited pane is resumed
ResumeRefused ==
  /\ job.pc = "act" /\ alive /\ job.op = "resume" /\ pane # "exited"
  /\ End(FALSE, job.st)
  /\ UNCHANGED <<kernelVars, registered, lease, told, clientVars, faults>>

----------------------------------------------------------------------------
(* attach and detach.                                                      *)

Exec ==
  /\ job.pc = "exec" /\ alive
  /\ client' = [client EXCEPT ![job.by] = "starting"]
  /\ \/ /\ lease' = [lease EXCEPT ![job.by] = NoPty]
        /\ job' = [job EXCEPT !.pc = "find"]
        /\ UNCHANGED <<req, faults>>
     \/ \* the first resize fails: the exec is dropped before there is a lease
        Fault("call") /\ End(FALSE, job.st) /\ UNCHANGED lease
  /\ UNCHANGED <<alive, volume, pane, again, registered, told, clientVars>>

\* discover_client_locked finds the marker among the clients of tmux
Find ==
  /\ job.pc = "find" /\ alive /\ client[job.by] \in Ptys
  /\ lease' = [lease EXCEPT ![job.by] = IF @ = NoLease THEN NoLease ELSE client[job.by]]
  /\ job' = [job EXCEPT !.pc = "status", !.last = TRUE]
  /\ UNCHANGED <<kernelVars, registered, told, clientVars, req, faults>>

\* the deadline passes, or the lease is gone, before the client is seen
FindFails ==
  /\ job.pc = "find" /\ client[job.by] \notin Ptys
  /\ \/ (client[job.by] = "gone" \/ lease[job.by] = NoLease) /\ UNCHANGED faults
     \/ client[job.by] = "starting" /\ Fault("slow")
  /\ lease' = [lease EXCEPT ![job.by] = NoLease]
  /\ End(FALSE, job.st)
  /\ UNCHANGED <<kernelVars, registered, told, clientVars>>

\* detach: the client of the removed lease, by its name
Unhook ==
  /\ job.pc = "unhook" /\ alive
  /\ client' = [a \in Sockets |-> IF client[a] \in job.todo THEN "gone" ELSE client[a]]
  /\ told' = [told EXCEPT ![job.by] = "none"]
  /\ job' = [job EXCEPT !.pc = "status", !.todo = {}]
  /\ UNCHANGED <<alive, volume, pane, again, registered, lease, clientVars, req, faults>>

\* a call to the kernel fails; only discovery removes the lease it made
CallFails ==
  /\ job.pc \in {"status", "stale", "act", "exec", "find", "unhook"}
  /\ IF alive THEN Fault("call") ELSE UNCHANGED faults
  /\ lease' = IF job.pc = "find" THEN [lease EXCEPT ![job.by] = NoLease] ELSE lease
  /\ End(FALSE, job.st)
  /\ UNCHANGED <<kernelVars, registered, told, clientVars>>

JobStep ==
  \/ GetStatus \/ Reconcile \/ DetachStale \/ Settle \/ Act \/ ResumeRefused
  \/ Exec \/ Find \/ FindFails \/ Unhook \/ CallFails

----------------------------------------------------------------------------
(* A served socket: serve_terminal_socket and the tasks of its connection. *)

Tell(a, kind) ==
  /\ told' = [told EXCEPT ![a] = kind]
  /\ UNCHANGED <<kernelVars, registered, lease, job, clientVars, req, faults>>

\* mutant: the output task ends without a word
ExecOverInSilence(a) == req[a].pc = "none" /\ Tell(a, "none")

\* the output task reaches the end of the exec, or finds its queue full
ExecOver(a) ==
  /\ req[a].pc = "served" /\ told[a] = "none" /\ client[a] = "gone"
  /\ Tell(a, "ended")

QueueFull(a) ==
  /\ req[a].pc = "served" /\ told[a] = "none" /\ client[a] \in Ptys
  /\ Tell(a, "error")

\* spawn_pane_monitor
PaneMonitor(a) ==
  /\ req[a].pc = "served" /\ told[a] = "none"
  /\ \/ alive /\ pane = "exited" /\ Tell(a, "ended")
     \/ ~alive /\ Tell(a, "error")

\* handle_lifecycle: the end of the exec asks for the status first
Hear(a) ==
  /\ req[a].pc = "served" /\ told[a] # "none"
  /\ Goto(a, IF told[a] = "ended" THEN "ending" ELSE "detach")
  /\ UNCHANGED <<kernelVars, hostVars, clientVars, faults>>

\* the browser closes or sends an invalid frame
Leave(a) ==
  /\ req[a].pc = "served"
  /\ Goto(a, "detach")
  /\ UNCHANGED <<kernelVars, hostVars, clientVars, faults>>

\* a resize that finds no lease ends the socket
ResizeRefused(a) ==
  /\ req[a].pc = "served" /\ (lease[a] = NoLease \/ ~registered)
  /\ Goto(a, "detach")
  /\ UNCHANGED <<kernelVars, hostVars, clientVars, faults>>

\* the proxy of client_service stops forwarding, for a lost or stalled peer
ProxyEnds(a) ==
  /\ req[a].pc = "served"
  /\ Goto(a, "detach")
  /\ UNCHANGED <<kernelVars, hostVars, clientVars, faults>>

----------------------------------------------------------------------------
(* The container, tmux and the processes.                                  *)

\* the exec's tmux process attaches, under the name of a free pseudo terminal
Appear(a) ==
  /\ client[a] = "starting" /\ alive /\ pane # "missing"
  /\ \E p \in Ptys \ {client[b] : b \in Sockets} : client' = [client EXCEPT ![a] = p]
  /\ UNCHANGED <<alive, volume, pane, again, hostVars, clientVars, req, faults>>

NothingToAttach(a) ==
  /\ client[a] = "starting" /\ ~(alive /\ pane # "missing")
  /\ client' = [client EXCEPT ![a] = "gone"]
  /\ UNCHANGED <<alive, volume, pane, again, hostVars, clientVars, req, faults>>

\* the user detaches with the tmux key, or the process dies
Depart(a) ==
  /\ client[a] \in Ptys /\ Fault("depart")
  /\ client' = [client EXCEPT ![a] = "gone"]
  /\ UNCHANGED <<alive, volume, pane, again, hostVars, clientVars, req>>

\* Copilot ends; remain-on-exit keeps the pane and its clients
PaneExits ==
  /\ pane = "running" /\ Fault("exit")
  /\ pane' = "exited"
  /\ UNCHANGED <<alive, volume, again, client, hostVars, clientVars, req>>

ContainerDies ==
  /\ alive /\ Fault("down")
  /\ alive' = FALSE /\ pane' = "missing" /\ again' = FALSE
  /\ client' = AllGone
  /\ UNCHANGED <<volume, hostVars, clientVars, req>>

\* agent_host restarts without records and leases; the tmux clients of its execs stay
Cut(x) ==
  IF req[x].pc \in AtHost \cup {"served", "create", "register", "forget", "remove", "drop"}
    THEN IF x \in Sockets /\ req[x].pc # "call" THEN Rest(x)
         ELSE IF req[x].op \in {"create", "ensure"} /\ req[x].pc \in {"create", "adopt", "register", "call"}
         THEN [req[x] EXCEPT !.pc = "failed"]
         ELSE Rest(x)
    ELSE req[x]

HostRestarts ==
  /\ Fault("restart")
  /\ registered' = FALSE
  /\ lease' = [a \in Sockets |-> NoLease]
  /\ told' = [a \in Sockets |-> "none"]
  /\ job' = NoJob
  /\ req' = [x \in Tasks |-> Cut(x)]
  /\ holder' = IF holder # NoTask /\ req'[holder].pc = "idle" THEN NoTask ELSE holder
  /\ UNCHANGED <<kernelVars, row>>

----------------------------------------------------------------------------
TaskStep(x) ==
  \/ CreateRuntime(x) \/ CreateFails(x) \/ LaunchFails(x) \/ Register(x) \/ Persist(x) \/ PersistFails(x)
  \/ MarkError(x) \/ Apply(x) \/ Forget(x) \/ Remove(x) \/ RemoveFails(x) \/ Drop(x) \/ Erase(x)
  \/ RecordMissing(x)

SocketStep(a) == ExecOver(a) \/ PaneMonitor(a) \/ Hear(a)

Next ==
  \/ \E x \in Tasks : Ask(x) \/ Acquire(x) \/ TaskStep(x) \/ Lock(x)
  \/ JobStep
  \/ \E a \in Sockets : SocketStep(a) \/ QueueFull(a) \/ Leave(a) \/ ResizeRefused(a)
                        \/ ProxyEnds(a) \/ Appear(a) \/ NothingToAttach(a) \/ Depart(a)
  \/ PaneExits \/ ContainerDies \/ HostRestarts

Spec == Init /\ [][Next]_vars

\* Handlers, connection tasks and the kernel go on; tokio's mutexes are first
\* come, first served.
Fairness ==
  /\ WF_vars(JobStep)
  /\ \A x \in Tasks : WF_vars(TaskStep(x)) /\ SF_vars(Acquire(x)) /\ SF_vars(Lock(x))
  /\ \A a \in Sockets : /\ WF_vars(SocketStep(a))
                        /\ WF_vars(Appear(a) \/ NothingToAttach(a))

FairSpec == Spec /\ Fairness

----------------------------------------------------------------------------
(* Properties.                                                             *)

\* Every variable keeps its type; the lifecycle lock and boundary_lock are held
\* by handlers that are under way.
TypeOK ==
  /\ alive \in BOOLEAN /\ volume \in BOOLEAN /\ again \in BOOLEAN /\ registered \in BOOLEAN
  /\ pane \in Panes
  /\ client \in [Sockets -> Ptys \cup {"none", "starting", "gone"}]
  /\ lease \in [Sockets -> Ptys \cup {NoPty, NoLease}]
  /\ told \in [Sockets -> {"none", "ended", "error"}]
  /\ row \in Rows
  /\ holder \in Controls \cup {NoTask}
  /\ req \in [Tasks -> [op : {"none", "ws", "status", "create", "ensure", "stop", "resume", "delete", "kill"},
                        pc : ReqPcs, row : Rows, ans : Answers]]
  /\ job \in [by : Tasks \cup {NoTask}, op : {"none", "status", "ensure", "stop", "resume", "attach", "detach"},
              pc : JobPcs, st : Statuses, todo : SUBSET Ptys, active : SUBSET Sockets,
              seen : SUBSET [id : Ptys, att : Sockets], last : BOOLEAN, resumed : BOOLEAN]
  /\ faults \in 0..MaxFaults

\* A browser that is being served and has not been told of an end, while the
\* process of its exec lives, is attached to tmux under the name its lease has:
\* neither reconciliation nor forget_session takes a lease away in silence.
AttachedUnlessTold ==
  \A a \in Sockets :
    req[a].pc = "served" /\ told[a] = "none" /\ client[a] # "gone"
      => client[a] \in Ptys /\ lease[a] = client[a]

\* When an adoption ends well, no client that tmux listed at its start is left unless a
\* lease accounts for it, or did until forget_session took it away and told its socket:
\* what a lost agent_host left attached is gone before the session is registered again.
AdoptionDetaches ==
  \A x \in Tasks :
    req[x].pc = "adopt" /\ req'[x].pc = "register" =>
      \A c \in job.seen :
        client'[c.att] = c.id =>
          \/ c.att \in job.active
          \/ \E a \in job.active : lease[a] = c.id \/ (lease[a] = NoLease /\ told[a] # "none")

\* What has to be attached has its lease: the browsers that are served, and, after an
\* adoption, the clients that were listed at its start.  Not the other way round: a lease
\* may outlive its client until the next reconciliation, and longer when terminal_detach no
\* longer finds the session.
LeasesMatchClients == [][AttachedUnlessTold' /\ AdoptionDetaches]_vars

\* Once a runtime was recorded for a session its row never looks like that of a
\* session without one, whatever handler writes back what it read before: or the
\* next ensure would make an empty workspace in place of a lost one.
RecoveryRemembered ==
  [][row.life = "there" /\ row.gen # NoGen => row'.gen # NoGen]_row

\* "A slow client is detached explicitly without stopping tmux or other clients"
\* (CLI_PLAN.md): a client whose socket is served, with a lease of its own, is not detached by
\* the job of another socket.  No run checks it: it fails, for the name of a tmux client
\* that is gone is reused by the next attachment.
OthersStay ==
  [][\A a \in Sockets :
       req[a].pc = "served" /\ lease[a] # NoLease /\ client[a] \in Ptys /\ job.by # a
         => (Unhook => client'[a] = client[a])]_vars

\* A socket whose exec ended is closed, and its attachment cleaned up.
SocketEnds == \A a \in Sockets : client[a] = "gone" ~> req[a].pc = "done"

\* Every handler returns: nobody waits for a lock for ever.
HandlersReturn == \A c \in Controls : req[c].pc # "idle" ~> req[c].pc = "idle"
=============================================================================
