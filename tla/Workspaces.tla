----------------------------- MODULE Workspaces -----------------------------
(***************************************************************************)
(* The reusable workspaces: their rows in client_service's SQLite store,   *)
(* their Docker volumes, the containers that copy one volume into another  *)
(* and the editors that are opened on them.                                *)
(*                                                                         *)
(* client_service serves requests on several threads and takes no lock     *)
(* here; each call of the store and each call of agent_host is a step.     *)
(* The volume of a workspace is named after its id and is never removed.   *)
(***************************************************************************)
EXTENDS Naturals, FiniteSets

CONSTANTS
  Clients,      \* requests, one of each
  Ids,          \* workspace ids
  Entries,      \* what a volume may hold at its top
  Managed,      \* the entries under .github/skills and .github/agents
  Always,       \* the entry that every save excludes: .agents
  Lists,        \* what an agent's record may list besides: mounted workspaces, managed entries
  Scratch,      \* the volume of the session whose workspace is saved
  Ops,          \* the operations that are requested
  NoRow, NoVolume, Nobody,
  MaxFaults     \* bound on timeouts, hang-ups, failed copies and writes

\* what a user left, what AgentSpace staged, and the directory on which a workspace is mounted
Contents == {"nothing", "user", "owned", "mount"}
Trees == [Entries -> Contents]
EmptyVolume == [e \in Entries |-> "nothing"]

Statuses == {"creating", "ready", "failed"}
Row == [status : Statuses, by : Clients \cup {Nobody}, copied : BOOLEAN]

\* what AgentSpace stages in a session's workspace is under .github, marked as its own, or in
\* .agents; the session mounts what it was created with, whatever its agent lists since
ASSUME WorkspacesAssumption ==
  /\ Managed \subseteq Entries /\ Always \subseteq Entries /\ Lists \subseteq SUBSET Entries
  /\ Scratch \in Trees /\ MaxFaults \in Nat
  /\ \A e \in Entries : Scratch[e] = "owned" => e \in Managed \cup Always
  /\ NoVolume \notin Trees /\ NoRow \notin Row /\ Nobody \notin Clients \cup Ids

VARIABLES
  rows,     \* the table workspaces: the status, and who inserted the row
  volume,   \* the Docker volume of each workspace
  copier,   \* the snapshot container that a request started
  editor,   \* the editor container of each workspace
  locks,    \* workspace_editor_locks
  mounts,   \* the workspaces the agents mount
  req,      \* the requests
  torn,     \* ids whose row was deleted under an unfinished request
  faults

vars == <<rows, volume, copier, editor, locks, mounts, req, torn, faults>>

Pcs == {"idle", "read", "insert", "ask", "copying", "write",
        "lock", "inspect", "remove", "create", "start", "over"}
Origins == Ids \cup {Nobody}

TypeOK ==
  /\ rows \in [Ids -> {NoRow} \cup Row]
  /\ volume \in [Ids -> {NoVolume} \cup Trees]
  /\ copier \in [Clients -> [state : {"none", "running", "done", "failed"}, rest : SUBSET Entries]]
  /\ editor \in [Ids -> {"none", "created", "running"}]
  /\ locks \in [Ids -> Clients \cup {Nobody}]
  /\ mounts \subseteq Ids /\ torn \subseteq Ids
  /\ req \in [Clients -> [op : Ops \cup {"none"}, w : Ids \cup {Nobody}, src : Origins,
                          exclude : SUBSET Entries, pc : Pcs, status : Statuses]]
  /\ faults \in 0..MaxFaults

NoRequest == [op |-> "none", w |-> Nobody, src |-> Nobody, exclude |-> {}, pc |-> "idle", status |-> "failed"]

WorkspacesBegin(registered, made) ==
  /\ rows = registered /\ volume = made
  /\ copier = [c \in Clients |-> [state |-> "none", rest |-> {}]]
  /\ editor = [w \in Ids |-> "none"]
  /\ locks = [w \in Ids |-> Nobody]
  /\ mounts = {} /\ torn = {} /\ faults = 0
  /\ req = [c \in Clients |-> NoRequest]

\* a workspace may be registered already, its volume made by a session
Init ==
  \E registered \in [Ids -> {NoRow, [status |-> "ready", by |-> Nobody, copied |-> FALSE]}],
     made \in [Ids -> {NoVolume, EmptyVolume}] : WorkspacesBegin(registered, made)

----------------------------------------------------------------------------
(* The store.                                                               *)

Move(c, pc) == req' = [req EXCEPT ![c].pc = pc]
\* the handler is gone; only the container of a copy may still ask what it copies
Finish(c) ==
  req' = [req EXCEPT ![c] = [(IF @.op \in {"save", "clone"} THEN @ ELSE NoRequest)
                               EXCEPT !.pc = "over", !.status = "failed"]]
Hold(c, pc, s) == req' = [req EXCEPT ![c].pc = pc, ![c].status = s]

Insert(c, w, s, copied) ==
  /\ rows[w] = NoRow
  /\ rows' = [rows EXCEPT ![w] = [status |-> s, by |-> c, copied |-> copied]]

\* UPDATE ... SET name, status WHERE workspace_id: only a row that exists
update(c, w, s) ==
  rows' = [rows EXCEPT ![w] = IF rows[w] = NoRow THEN NoRow ELSE [rows[w] EXCEPT !.status = s]]

Ready(w) == rows[w] # NoRow /\ rows[w].status = "ready"

\* a handler that still holds a record of w, or a container that still writes its volume
Unfinished(w) ==
  \E c \in Clients :
    /\ req[c].w = w
    /\ \/ copier[c].state = "running"
       \/ req[c].op \in {"save", "clone", "rename"} /\ req[c].pc \notin {"idle", "insert", "over"}

----------------------------------------------------------------------------
(* The requests.                                                            *)

BeginCopy(c, op, w, src, exclude, pc) ==
  /\ op \in Ops /\ req[c].pc = "idle"
  /\ req' = [req EXCEPT ![c] = [op |-> op, w |-> w, src |-> src, exclude |-> exclude,
                                pc |-> pc, status |-> "failed"]]
Begin(c, op, w, pc) == BeginCopy(c, op, w, Nobody, {}, pc)

create_workspace(c, w) ==
  /\ "create" \in Ops /\ req[c].pc = "idle" /\ Finish(c)
  /\ Insert(c, w, "ready", FALSE)
  /\ UNCHANGED <<volume, copier, editor, locks, mounts, torn, faults>>

\* the row is read, changed and written back, all of it
update_workspace(c, w) ==
  /\ rows[w] # NoRow /\ "rename" \in Ops /\ req[c].pc = "idle"
  /\ req' = [req EXCEPT ![c] = [op |-> "rename", w |-> w, src |-> Nobody, exclude |-> {},
                                pc |-> "write", status |-> rows[w].status]]
  /\ UNCHANGED <<rows, volume, copier, editor, locks, mounts, torn, faults>>

\* workspace_in_use first, the row after
delete_workspace(c, w) ==
  /\ Begin(c, "delete", w, "read")
  /\ w \notin mounts
  /\ UNCHANGED <<rows, volume, copier, editor, locks, mounts, torn, faults>>

DeleteRow(c) ==
  LET w == req[c].w IN
  /\ req[c].op = "delete" /\ req[c].pc = "read"
  /\ rows' = [rows EXCEPT ![w] = NoRow]
  /\ torn' = IF Unfinished(w) THEN torn \cup {w} ELSE torn
  /\ Finish(c)
  /\ UNCHANGED <<volume, copier, editor, locks, mounts, faults>>

\* update_agent and create_agent: validate_workspace_mounts, then the agent is written
validate_workspace_mounts(c, w) ==
  /\ Begin(c, "mount", w, "read")
  /\ Ready(w)
  /\ UNCHANGED <<rows, volume, copier, editor, locks, mounts, torn, faults>>

WriteMounts(c) ==
  /\ req[c].op = "mount" /\ req[c].pc = "read"
  /\ mounts' = mounts \cup {req[c].w} /\ Finish(c)
  /\ UNCHANGED <<rows, volume, copier, editor, locks, torn, faults>>

\* a session whose agent mounts w starts: its volume is made when there is none
workspace_volume_mount(c, w) ==
  /\ "session" \in Ops /\ req[c].pc = "idle" /\ Finish(c)
  /\ Ready(w)
  /\ volume' = [volume EXCEPT ![w] = IF @ = NoVolume THEN EmptyVolume ELSE @]
  /\ UNCHANGED <<rows, copier, editor, locks, mounts, torn, faults>>

clone_workspace(c, w, src) ==
  /\ BeginCopy(c, "clone", w, src, {}, "insert")
  /\ Ready(src)
  /\ UNCHANGED <<rows, volume, copier, editor, locks, mounts, torn, faults>>

\* what the record of the session's agent lists by now, nothing if the agent is gone, and
\* not what the session mounts
session_workspace_exclude_paths == {Always \cup listed : listed \in Lists \cup {{}}}

\* the session has its runtime: SessionLifecycle
save_session_workspace(c, w) ==
  /\ \E exclude \in session_workspace_exclude_paths : BeginCopy(c, "save", w, Nobody, exclude, "insert")
  /\ UNCHANGED <<rows, volume, copier, editor, locks, mounts, torn, faults>>

InsertCreating(c) ==
  LET w == req[c].w IN
  /\ req[c].pc = "insert"
  /\ \/ Insert(c, w, "creating", TRUE) /\ Move(c, "ask")
     \/ rows[w] # NoRow /\ Finish(c) /\ UNCHANGED rows
  /\ UNCHANGED <<volume, copier, editor, locks, mounts, torn, faults>>

----------------------------------------------------------------------------
(* The copy, in a container of its own: the script snapshot_workspace.py.   *)

Tree(src) == IF src = Nobody THEN Scratch ELSE volume[src]

should_exclude(exclude, tree, e) ==
  IF e \in Managed THEN tree[e] = "owned" ELSE e \in exclude

\* what session-owned artifacts and excluded paths the target holds goes first
Prepared(old, src, exclude) ==
  LET swept == [e \in Entries |-> IF e \in Managed /\ old[e] = "owned" THEN "nothing" ELSE old[e]]
      seen(e) == IF Tree(src)[e] # "nothing" THEN Tree(src) ELSE swept
  IN [e \in Entries |-> IF e \in exclude /\ should_exclude(exclude, seen(e), e)
                          THEN "nothing" ELSE swept[e]]

copy_workspace_volume(c) ==
  LET w == req[c].w
      src == req[c].src
      old == IF volume[w] = NoVolume THEN EmptyVolume ELSE volume[w]
  IN
  /\ req[c].pc = "ask"
  /\ \/ /\ src = w \/ (src # Nobody /\ Tree(src) = NoVolume)
        /\ Hold(c, "write", "failed") /\ UNCHANGED <<volume, copier>>
     \/ /\ src # w /\ (src = Nobody \/ Tree(src) # NoVolume)
        /\ volume' = [volume EXCEPT ![w] = Prepared(old, src, req[c].exclude)]
        /\ copier' = [copier EXCEPT ![c] =
                       [state |-> "running",
                        rest |-> {e \in Entries : Tree(src)[e] # "nothing"}]]
        /\ Move(c, "copying")
  /\ UNCHANGED <<rows, editor, locks, mounts, torn, faults>>

copy_entry(c, e) ==
  LET w == req[c].w
      src == req[c].src IN
  /\ copier[c].state = "running" /\ e \in copier[c].rest
  /\ copier' = [copier EXCEPT ![c].rest = @ \ {e}]
  /\ volume' = [volume EXCEPT ![w][e] =
                 IF should_exclude(req[c].exclude, Tree(src), e) THEN "nothing" ELSE Tree(src)[e]]
  /\ UNCHANGED <<rows, editor, locks, mounts, req, torn, faults>>

\* the container exits; whoever waits for it is answered
CopyDone(c) ==
  /\ copier[c].state = "running" /\ copier[c].rest = {}
  /\ copier' = [copier EXCEPT ![c].state = "done"]
  /\ IF req[c].pc = "copying" THEN Hold(c, "write", "ready") ELSE UNCHANGED req
  /\ UNCHANGED <<rows, volume, editor, locks, mounts, torn, faults>>

Fault == faults < MaxFaults /\ faults' = faults + 1

CopyFails(c) ==
  /\ copier[c].state = "running" /\ Fault
  /\ copier' = [copier EXCEPT ![c].state = "failed"]
  /\ IF req[c].pc = "copying" THEN Hold(c, "write", "failed") ELSE UNCHANGED req
  /\ UNCHANGED <<rows, volume, editor, locks, mounts, torn>>

\* agent_host is given up on, its container goes on
CopyTimesOutReady(c) ==
  /\ req[c].pc = "copying" /\ Fault
  /\ Hold(c, "write", "ready")
  /\ UNCHANGED <<rows, volume, copier, editor, locks, mounts, torn>>
CopyTimesOut(c) ==
  /\ req[c].pc = "copying" /\ Fault
  /\ Hold(c, "write", "failed")
  /\ UNCHANGED <<rows, volume, copier, editor, locks, mounts, torn>>

\* the handler writes the record it holds
WriteRow(c) ==
  /\ req[c].pc = "write" /\ Finish(c)
  /\ \/ update(c, req[c].w, req[c].status) /\ UNCHANGED faults
     \/ UNCHANGED rows /\ Fault
  /\ UNCHANGED <<volume, copier, editor, locks, mounts, torn>>

----------------------------------------------------------------------------
(* The editor of a workspace.                                               *)

open_workspace_vscode(c, w) ==
  /\ Begin(c, "open", w, "lock")
  /\ Ready(w)
  /\ UNCHANGED <<rows, volume, copier, editor, locks, mounts, torn, faults>>

Unlock(c) == locks' = [w \in Ids |-> IF locks[w] = c THEN Nobody ELSE locks[w]]

LockEditor(c) ==
  LET w == req[c].w IN
  /\ req[c].pc = "lock" /\ locks[w] = Nobody
  /\ IF volume[w] = NoVolume
       THEN Finish(c) /\ UNCHANGED locks
       ELSE Move(c, "inspect") /\ locks' = [locks EXCEPT ![w] = c]
  /\ UNCHANGED <<rows, volume, copier, editor, mounts, torn, faults>>

InspectEditor(c) ==
  /\ req[c].pc = "inspect"
  /\ IF editor[req[c].w] = "running" THEN Finish(c) /\ Unlock(c)
                                     ELSE Move(c, "remove") /\ UNCHANGED locks
  /\ UNCHANGED <<rows, volume, copier, editor, mounts, torn, faults>>

RemoveEditor(c) ==
  /\ req[c].pc = "remove" /\ Move(c, "create")
  /\ editor' = [editor EXCEPT ![req[c].w] = "none"]
  /\ UNCHANGED <<rows, volume, copier, locks, mounts, torn, faults>>

\* Docker refuses a second container of the name
CreateEditor(c) ==
  LET w == req[c].w IN
  /\ req[c].pc = "create"
  /\ IF editor[w] = "none"
       THEN editor' = [editor EXCEPT ![w] = "created"] /\ Move(c, "start") /\ UNCHANGED locks
       ELSE Finish(c) /\ Unlock(c) /\ UNCHANGED editor
  /\ UNCHANGED <<rows, volume, copier, mounts, torn, faults>>

StartEditor(c) ==
  LET w == req[c].w IN
  /\ req[c].pc = "start" /\ Finish(c) /\ Unlock(c)
  /\ editor' = [editor EXCEPT ![w] = IF @ = "none" THEN @ ELSE "running"]
  /\ UNCHANGED <<rows, volume, copier, mounts, torn, faults>>

\* --auto-remove
EditorExits(w) ==
  /\ editor[w] = "running" /\ Fault
  /\ editor' = [editor EXCEPT ![w] = "none"]
  /\ UNCHANGED <<rows, volume, copier, locks, mounts, req, torn>>

----------------------------------------------------------------------------
(* The client hangs up, or client_service ends: the handler is dropped where *)
(* it waits, its locks are freed, what it started goes on.                   *)

HangUp(c) ==
  /\ req[c].pc \notin {"idle", "over"} /\ Fault
  /\ Finish(c) /\ Unlock(c)
  /\ UNCHANGED <<rows, volume, copier, editor, mounts, torn>>

Next ==
  \/ \E c \in Clients, w \in Ids :
       \/ create_workspace(c, w)
       \/ update_workspace(c, w)
       \/ delete_workspace(c, w)
       \/ validate_workspace_mounts(c, w)
       \/ workspace_volume_mount(c, w)
       \/ save_session_workspace(c, w)
       \/ open_workspace_vscode(c, w)
       \/ \E src \in Ids : clone_workspace(c, w, src)
  \/ \E c \in Clients :
       \/ DeleteRow(c) \/ WriteMounts(c) \/ InsertCreating(c)
       \/ copy_workspace_volume(c) \/ CopyDone(c) \/ CopyFails(c) \/ CopyTimesOut(c)
       \/ WriteRow(c)
       \/ LockEditor(c) \/ InspectEditor(c) \/ RemoveEditor(c) \/ CreateEditor(c) \/ StartEditor(c)
       \/ HangUp(c)
       \/ \E e \in Entries : copy_entry(c, e)
  \/ \E w \in Ids : EditorExits(w)

Spec == Init /\ [][Next]_vars

----------------------------------------------------------------------------
(* Properties.                                                              *)

\* A workspace that a save or a clone made is offered to agents, as ready, only
\* once its copy has ended well and nothing writes its volume, unless its row
\* was deleted under an unfinished request; and then a saved one holds all that
\* the user left in the session under a name that the save did not exclude,
\* nothing at all under a name that it did (what the user left there included),
\* and nothing that AgentSpace staged in the session.  The directory on which
\* the session has a workspace mounted is kept out only if the agent's record
\* lists that workspace at the save: see MountsAreExcluded.
SnapshotOf(t, exclude) ==
  \A e \in Entries :
    /\ Scratch[e] = "user" /\ (e \in Managed \/ e \notin exclude) => t[e] = "user"
    /\ e \in exclude \ Managed => t[e] = "nothing"
    /\ t[e] # "owned"
ReadyIsWhole ==
  \A w \in Ids \ torn :
    Ready(w) /\ rows[w].copied =>
      LET c == rows[w].by IN
      /\ copier[c].state = "done"
      /\ \A d \in Clients : req[d].w = w => copier[d].state # "running"
      /\ req[c].op = "save" => SnapshotOf(volume[w], req[c].exclude)

\* What unregistered a workspace stays: a row comes back only by the insertion of a request,
\* never by the late write of a handler that still held it.
DeletedStaysDeleted ==
  \A w \in Ids : rows[w] = NoRow /\ rows'[w] # NoRow =>
    \E c \in Clients : req[c].pc \in {"idle", "insert"} /\ req'[c].pc \in {"ask", "over"}
                       /\ rows'[w].by = c

\* Two openings of one workspace share its editor: no request takes away an editor that runs,
\* for a user would lose what is open in it.
EditorKept ==
  \A w \in Ids : editor[w] = "running" /\ req' # req => editor'[w] = "running"

\* What saves, clones, deletions and openings that overlap, time out or are cut off may not
\* do: offer half a copy, bring a deleted row back, or take an editor away.
WorkspacesKept == [][ReadyIsWhole' /\ DeletedStaysDeleted /\ EditorKept]_vars

\* "creating: A save operation has registered the workspace and is snapshotting data into
\* the volume" (WORKSPACE_FEATURE.md): some request is at work on every row in that status.
\* No run checks it: it fails, for a rename writes back the status it read, and a restart
\* leaves a row as it was.
CreatingIsUnderWay ==
  \A w \in Ids : rows[w] # NoRow /\ rows[w].status = "creating" =>
    \E c \in Clients : /\ req[c].op \in {"save", "clone"} /\ req[c].w = w
                       /\ req[c].pc \in {"ask", "copying", "write"}

\* "The session save flow explicitly excludes mounted workspace IDs so saving the parent
\* /workspace scratch volume does not include existing mounted workspaces"
\* (WORKSPACE_FEATURE.md): no directory on which the session has a workspace mounted is in
\* what a save made of it.  It fails for a workspace that was mounted by the request that
\* created the session, or that the agent has stopped to mount since.
MountsAreExcluded ==
  \A w \in Ids, e \in Entries :
    Ready(w) /\ rows[w].copied /\ req[rows[w].by].op = "save" /\ Scratch[e] = "mount"
      => volume[w][e] # "mount"
=============================================================================
