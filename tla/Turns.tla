------------------------------- MODULE Turns -------------------------------
(***************************************************************************)
(* The turns of one chat session in client_service.                        *)
(*                                                                         *)
(* A message sent to /messages/stream becomes a turn that a task of the    *)
(* server runs: it reads the kernel's events upstream, writes the          *)
(* assistant message after each of them and broadcasts it to the           *)
(* subscribers, each behind a channel of bounded capacity.  A message sent *)
(* to /messages becomes a turn inside its HTTP handler, which is dropped   *)
(* with its connection.  active_turns admits one turn of the session at a  *)
(* time.  Browsers come back with GET /sessions/:id, which reads the       *)
(* messages, makes sure of the runtime and then tells the active turn, and *)
(* attach to that turn.                                                    *)
(*                                                                         *)
(* A reader r is one browser, with one request or stream at a time.  The   *)
(* store is the SQLite one, where a session's row and its messages are     *)
(* written separately.                                                     *)
(***************************************************************************)
EXTENDS Naturals, Sequences

CONSTANTS
  Readers,      \* browsers
  MaxTurns,     \* bound on the number of messages sent
  MaxEvents,    \* bound on the events of a turn
  Capacity,     \* STREAM_SUBSCRIBER_CHANNEL_CAPACITY (256 in the code)
  NoTurn,       \* no turn
  Nobody,       \* no reader
  FaultKinds,   \* the faults of this instance
  MaxFaults     \* bound on the number of faults

\* call: agent_host answers with an error or the stream breaks;  store: SQLite
\* refuses a write;  hangup: the client of a synchronous turn disconnects;
\* kill: the kernel is killed;  reboot: client_service restarts
AllFaults == {"call", "store", "hangup", "kill", "reboot"}

TurnIds == 1..MaxTurns

ASSUME TurnsAssumption ==
  /\ MaxTurns \in Nat /\ MaxEvents \in Nat /\ MaxFaults \in Nat
  /\ Capacity \in Nat \ {0}
  /\ NoTurn \notin TurnIds
  /\ Nobody \notin Readers
  /\ FaultKinds \subseteq AllFaults

VARIABLES
  there,        \* the session has its row
  status,       \* the status of the row
  asked,        \* the user message of each turn is stored
  stored,       \* the assistant message: 0 none, k + 1 made of k events
  active,       \* AppState::active_turns of this session
  upstream,     \* the status in agent_host's record of the session, "none" without
  lifecycle,    \* who holds the session's lifecycle lock while it is awaited
  turn,         \* the handler or task of each turn
  subs,         \* ActiveTurnStreamState::subscribers of each turn
  final,        \* ActiveTurnStreamState::final_payload is set
  reader,       \* what each reader is doing
  faults        \* faults so far

store == <<there, status, asked, stored>>
vars  == <<store, active, upstream, lifecycle, turn, subs, final, reader, faults>>

Statuses == {"idle", "busy", "error", "dead"}
Starting == {"ensure", "begin", "busy", "user", "placeholder"}
PcStates == {"none", "await", "open", "reading", "broadcast", "finalize", "get", "final", "drop",
             "done"} \cup Starting

\* a turn: where it is, how and for whom it was sent, the events it has read,
\* whether its kernel was removed under it, whether reading ended in an error,
\* and the status its finalization has read
Unsent == [pc |-> "none", mode |-> "stream", caller |-> Nobody, n |-> 0, cut |-> FALSE,
           broken |-> FALSE, asRead |-> "idle"]
Over   == [Unsent EXCEPT !.pc = "done"]

\* a reader: what it is doing, with which turn, the items in its channel, the
\* last event received, the assistant messages of its session detail
Empty == [t \in TurnIds |-> 0]
Idle  == [phase |-> "idle", on |-> NoTurn, queue |-> <<>>, seen |-> 0, view |-> Empty]

Phases == {"idle", "posting", "attached", "viewing", "ensured", "viewed", "deleting", "killing"}

\* the last item of a stream; the others are the numbers of events
Final == 0

Fault(f) ==
  /\ f \in FaultKinds
  /\ faults < MaxFaults
  /\ faults' = faults + 1

\* what depends on something that is gone fails, the rest may
Fails(f, stands) == IF stands THEN Fault(f) ELSE UNCHANGED faults

StoreFails == Fails("store", there)
CallFails  == Fails("call", upstream # "none")

At(t, where) == turn' = [turn EXCEPT ![t].pc = where]
Answer(t)    == reader' = [reader EXCEPT ![turn[t].caller] = Idle]

----------------------------------------------------------------------------
(* Starting a turn                                                         *)

\* stream_message and send_message find the session
Send(r, t, m) ==
  /\ reader[r].phase = "idle" /\ turn[t].pc = "none"
  /\ \A u \in 1..(t - 1) : turn[u].pc # "none"
  /\ there
  /\ turn' = [turn EXCEPT ![t] = [Unsent EXCEPT !.pc = "ensure", !.mode = m, !.caller = r]]
  /\ reader' = [reader EXCEPT ![r].phase = "posting", ![r].on = t]
  /\ UNCHANGED <<store, active, upstream, lifecycle, subs, final, faults>>

\* create_session of agent_host, which takes the status from the kernel
Created == upstream' \in IF upstream = "busy" THEN {"idle", "busy"} ELSE {"idle"}

\* persist_chat_runtime: the row with that status
RuntimeUp == Created /\ status' = upstream'

\* the turns once the runtime has been destroyed under them
CutOff ==
  [t \in TurnIds |->
    [turn[t] EXCEPT !.cut = @ \/ turn[t].pc \in {"reading", "broadcast", "await"}]]

\* persist_chat_runtime cannot write the row: it destroys the runtime again, if
\* agent_host answers, which leaves the turns as in rest
Unpersisted(rest) ==
  /\ Fault("store") /\ UNCHANGED status
  /\ \/ rest = CutOff /\ upstream' = "none"
     \/ rest = turn /\ Created

\* ensure_chat_runtime under the lifecycle lock, or the row with the runtime's
\* error
Ensure(t) ==
  /\ turn[t].pc = "ensure" /\ lifecycle = Nobody
  /\ \/ /\ there
        /\ RuntimeUp
        /\ At(t, "begin")
        /\ UNCHANGED <<reader, faults>>
     \/ /\ Fails("call", there)
        /\ status' = IF there THEN "error" ELSE status
        /\ turn' = [turn EXCEPT ![t] = Over]
        /\ Answer(t)
        /\ UNCHANGED upstream
     \/ /\ there
        /\ \E rest \in {turn, CutOff} : Unpersisted(rest) /\ turn' = [rest EXCEPT ![t] = Over]
        /\ Answer(t)
  /\ UNCHANGED <<there, asked, stored, active, lifecycle, subs, final>>

\* Mutant: a second turn is let in
BeginAnyway(t) ==
  /\ turn[t].pc = "begin"
  /\ active' = t
  /\ subs' = [subs EXCEPT ![t] = IF turn[t].mode = "stream" THEN {turn[t].caller} ELSE {}]
  /\ At(t, "busy")
  /\ UNCHANGED <<store, upstream, lifecycle, final, reader, faults>>

\* begin_active_turn, then the caller's subscription
Begin(t) ==
  /\ turn[t].pc = "begin"
  /\ active = NoTurn /\ (turn[t].mode = "stream" => there)
  /\ active' = t
  /\ subs' = [subs EXCEPT ![t] = IF turn[t].mode = "stream" THEN {turn[t].caller} ELSE {}]
  /\ At(t, "busy")
  /\ UNCHANGED <<store, upstream, lifecycle, final, reader, faults>>

\* the row is gone, or 409: another turn is active
Refuse(t) ==
  /\ turn[t].pc = "begin"
  /\ active # NoTurn \/ (turn[t].mode = "stream" /\ ~there)
  /\ turn' = [turn EXCEPT ![t] = Over]
  /\ Answer(t)
  /\ UNCHANGED <<store, active, upstream, lifecycle, subs, final, faults>>

\* Mutant: the turn stays registered
ReleaseNot(t) ==
  /\ subs' = [subs EXCEPT ![t] = {}]
  /\ turn' = [turn EXCEPT ![t] = Over]
  /\ UNCHANGED active

\* the task or handler is over: ActiveTurnGuard is dropped, and the stream
Release(t) ==
  /\ active' = IF active = t THEN NoTurn ELSE active
  /\ subs' = [subs EXCEPT ![t] = {}]
  /\ turn' = [turn EXCEPT ![t] = Over]

\* the row is written, a failure ends the request
MarkBusy(t) ==
  /\ turn[t].pc = "busy"
  /\ \/ there /\ status' = "busy" /\ At(t, "user") /\ UNCHANGED <<active, subs, reader, faults>>
     \/ StoreFails /\ Release(t) /\ Answer(t) /\ UNCHANGED status
  /\ UNCHANGED <<there, asked, stored, upstream, lifecycle, final>>

AppendUser(t) ==
  /\ turn[t].pc = "user"
  /\ \/ /\ there
        /\ asked' = [asked EXCEPT ![t] = TRUE]
        /\ turn' = [turn EXCEPT ![t].pc = IF turn[t].mode = "stream" THEN "placeholder" ELSE "await",
                               ![t].cut = turn[t].mode = "sync" /\ upstream = "none"]
        /\ UNCHANGED <<active, subs, reader, faults>>
     \/ StoreFails /\ Release(t) /\ Answer(t) /\ UNCHANGED asked
  /\ UNCHANGED <<there, status, stored, upstream, lifecycle, final>>

\* the empty assistant message; the task is spawned, the caller has its stream
Placeholder(t) ==
  /\ turn[t].pc = "placeholder"
  /\ \/ /\ there
        /\ stored' = [stored EXCEPT ![t] = 1]
        /\ turn' = [turn EXCEPT ![t].pc = "open", ![t].caller = Nobody]
        /\ reader' = [reader EXCEPT ![turn[t].caller].phase = "attached"]
        /\ UNCHANGED <<active, subs, faults>>
     \/ StoreFails /\ Release(t) /\ Answer(t) /\ UNCHANGED stored
  /\ UNCHANGED <<there, status, asked, upstream, lifecycle, final>>

----------------------------------------------------------------------------
(* run_streaming_turn                                                      *)

\* reading the events ended in an error
Broken(t) == turn' = [turn EXCEPT ![t].pc = "finalize", ![t].broken = TRUE]

\* agent_host takes the last status of a stream that broke
StreamLost == upstream' \in IF upstream = "none" THEN {"none"} ELSE {upstream, "busy"}

OpenStream(t) ==
  /\ turn[t].pc = "open"
  /\ \/ upstream # "none" /\ At(t, "reading") /\ UNCHANGED faults
     \/ CallFails /\ Broken(t)
  /\ UNCHANGED <<store, active, upstream, lifecycle, subs, final, reader>>

\* Mutant: the event is broadcast and not stored
NextEventUnstored(t) ==
  /\ turn[t].pc = "reading" /\ turn[t].n < MaxEvents
  /\ turn' = [turn EXCEPT ![t].pc = "broadcast", ![t].n = @ + 1]
  /\ UNCHANGED <<store, active, upstream, lifecycle, subs, final, reader, faults>>

\* an event arrives and is stored with those before it
NextEvent(t) ==
  /\ turn[t].pc = "reading" /\ turn[t].n < MaxEvents
  /\ LET read == [turn[t] EXCEPT !.n = @ + 1]
     IN \/ /\ there
           /\ stored' = [stored EXCEPT ![t] = read.n + 1]
           /\ turn' = [turn EXCEPT ![t] = [read EXCEPT !.pc = "broadcast"]]
           /\ UNCHANGED faults
        \/ /\ StoreFails
           /\ turn' = [turn EXCEPT ![t] = [read EXCEPT !.pc = "finalize", !.broken = TRUE]]
           /\ UNCHANGED stored
  /\ UNCHANGED <<there, status, asked, active, upstream, lifecycle, subs, final, reader>>

\* try_send finds room in the channel of reader r
HasRoom(r) == Len(reader[r].queue) < Capacity

\* send_stream_item: a subscriber whose channel is full is let go
Push(t, item) ==
  reader' = [r \in Readers |->
               IF r \in subs[t] /\ HasRoom(r)
                 THEN [reader[r] EXCEPT !.queue = Append(@, item)] ELSE reader[r]]

Broadcast(t) ==
  /\ turn[t].pc = "broadcast"
  /\ Push(t, turn[t].n)
  /\ subs' = [subs EXCEPT ![t] = {r \in @ : HasRoom(r)}]
  /\ At(t, "reading")
  /\ UNCHANGED <<store, active, upstream, lifecycle, final, faults>>

\* the stream ends, or breaks
EndOfStream(t) ==
  /\ turn[t].pc = "reading"
  /\ \/ ~turn[t].cut /\ At(t, "finalize") /\ upstream' = "idle" /\ UNCHANGED faults
     \/ Fails("call", ~turn[t].cut) /\ Broken(t) /\ StreamLost
  /\ UNCHANGED <<store, active, lifecycle, subs, final, reader>>

\* finalize_streaming_turn stores the message and reads the row; an error goes
\* into the final payload
Finalize(t) ==
  /\ turn[t].pc = "finalize"
  /\ \/ /\ there
        /\ stored' = [stored EXCEPT ![t] = turn[t].n + 1]
        /\ turn' = [turn EXCEPT ![t].pc = "get", ![t].asRead = status]
        /\ UNCHANGED faults
     \/ StoreFails /\ At(t, "final") /\ UNCHANGED stored
  /\ UNCHANGED <<there, status, asked, active, upstream, lifecycle, subs, final, reader>>

\* Mutant: the status is left as it is
GetUpstreamOnly(t) ==
  /\ turn[t].pc = "get"
  /\ At(t, IF turn[t].mode = "stream" THEN "final" ELSE "drop")
  /\ UNCHANGED <<store, active, upstream, lifecycle, subs, final, reader, faults>>

\* get_session of agent_host is awaited, then the whole row is written, with
\* agent_host's status or, without an answer, the one read before
GetUpstream(t) ==
  /\ turn[t].pc = "get"
  /\ \/ there /\ upstream # "none" /\ status' = upstream /\ UNCHANGED faults
     \/ there /\ CallFails /\ status' = IF turn[t].broken THEN "error" ELSE turn[t].asRead
     \/ StoreFails /\ UNCHANGED status
  /\ At(t, IF turn[t].mode = "stream" THEN "final" ELSE "drop")
  /\ UNCHANGED <<there, asked, stored, active, upstream, lifecycle, subs, final, reader>>

\* the final payload goes to every subscriber that has room, and ends the stream
SendFinal(t) ==
  /\ turn[t].pc = "final"
  /\ Push(t, Final)
  /\ final' = [final EXCEPT ![t] = TRUE]
  /\ subs' = [subs EXCEPT ![t] = {}]
  /\ At(t, "drop")
  /\ UNCHANGED <<store, active, upstream, lifecycle, faults>>

DropGuard(t) ==
  /\ turn[t].pc = "drop"
  /\ Release(t)
  /\ IF turn[t].mode = "sync" THEN Answer(t) ELSE UNCHANGED reader
  /\ UNCHANGED <<store, upstream, lifecycle, final, faults>>

\* run_turn: all events at once, the assistant message and the row; an error
\* leaves neither the message nor another status
SyncReply(t) ==
  /\ turn[t].pc = "await"
  /\ \/ /\ there /\ ~turn[t].cut
        /\ \E k \in 0..MaxEvents : stored' = [stored EXCEPT ![t] = k + 1]
        /\ turn' = [turn EXCEPT ![t].pc = "get", ![t].asRead = status]
        /\ upstream' = "idle"
        /\ UNCHANGED <<active, subs, reader, faults>>
     \/ /\ StoreFails \/ Fails("call", ~turn[t].cut)
        /\ StreamLost /\ Release(t) /\ Answer(t) /\ UNCHANGED stored
  /\ UNCHANGED <<there, status, asked, lifecycle, final>>

----------------------------------------------------------------------------
(* Readers                                                                 *)

Becomes(r, where) == reader' = [reader EXCEPT ![r].phase = where]

\* get_session: under the lifecycle lock the row and the messages are read ...
ViewRead(r) ==
  /\ reader[r].phase = "idle" /\ there /\ lifecycle = Nobody
  /\ lifecycle' = r
  /\ reader' = [reader EXCEPT ![r].phase = "viewing", ![r].view = stored]
  /\ UNCHANGED <<store, active, upstream, turn, subs, final, faults>>

\* ... agent_host is asked for the runtime and the row is written ...
ViewEnsured(r) ==
  /\ reader[r].phase = "viewing"
  /\ lifecycle' = Nobody
  /\ \/ RuntimeUp /\ Becomes(r, "ensured") /\ UNCHANGED <<turn, faults>>
     \/ /\ reader' = [reader EXCEPT ![r] = Idle]
        /\ \/ Fault("call") /\ status' = "error" /\ UNCHANGED <<upstream, turn>>
           \/ \E rest \in {turn, CutOff} : Unpersisted(rest) /\ turn' = rest
  /\ UNCHANGED <<there, asked, stored, active, subs, final>>

\* ... and session_detail gives those messages and the turn that is active now
ViewReply(r) ==
  /\ reader[r].phase = "ensured"
  /\ reader' = [reader EXCEPT ![r] = IF active = NoTurn THEN Idle
                                     ELSE [Idle EXCEPT !.phase = "viewed", !.on = active]]
  /\ UNCHANGED <<store, active, upstream, lifecycle, turn, subs, final, faults>>

\* the turn of reader r's detail still runs, and has a stream
CanAttach(r) == there /\ active = reader[r].on /\ turn[reader[r].on].mode = "stream"

\* stream_turn attaches to the turn, or gets its final payload
Attach(r) ==
  /\ reader[r].phase = "viewed" /\ CanAttach(r)
  /\ IF final[reader[r].on]
       THEN /\ reader' = [reader EXCEPT ![r].phase = "attached", ![r].queue = <<Final>>]
            /\ UNCHANGED subs
       ELSE /\ Becomes(r, "attached")
            /\ subs' = [subs EXCEPT ![reader[r].on] = @ \cup {r}]
  /\ UNCHANGED <<store, active, upstream, lifecycle, turn, final, faults>>

\* ... or answers 404
TurnNotFound(r) ==
  /\ reader[r].phase = "viewed" /\ ~CanAttach(r)
  /\ reader' = [reader EXCEPT ![r] = Idle]
  /\ UNCHANGED <<store, active, upstream, lifecycle, turn, subs, final, faults>>

Receive(r) ==
  /\ reader[r].phase = "attached" /\ reader[r].queue # <<>>
  /\ LET item == Head(reader[r].queue)
         rest == Tail(reader[r].queue)
     IN reader' = [reader EXCEPT ![r] = IF item = Final THEN Idle
                                        ELSE [reader[r] EXCEPT !.queue = rest, !.seen = item]]
  /\ UNCHANGED <<store, active, upstream, lifecycle, turn, subs, final, faults>>

\* the sender is gone and the channel empty: the response ends
Cut(r) ==
  /\ reader[r].phase = "attached" /\ reader[r].queue = <<>> /\ r \notin subs[reader[r].on]
  /\ reader' = [reader EXCEPT ![r] = Idle]
  /\ UNCHANGED <<store, active, upstream, lifecycle, turn, subs, final, faults>>

\* the browser of a stream disconnects; its sender is found closed
LeaveStream(r) ==
  /\ reader[r].phase = "attached"
  /\ reader' = [reader EXCEPT ![r] = Idle]
  /\ subs' = [subs EXCEPT ![reader[r].on] = @ \ {r}]
  /\ UNCHANGED <<store, active, upstream, lifecycle, turn, final, faults>>

\* the browser disconnects while its handler awaits: the handler is dropped
LeaveRequest(r) ==
  /\ reader[r].phase = "posting"
  /\ LET t == reader[r].on
     IN /\ \/ turn[t].pc = "ensure" /\ UNCHANGED faults
           \/ turn[t].mode = "sync" /\ turn[t].pc \in {"await", "get"} /\ Fault("hangup")
        /\ Release(t)
        /\ Answer(t)
        /\ IF turn[t].pc = "await" THEN StreamLost ELSE UNCHANGED upstream
  /\ UNCHANGED <<store, lifecycle, final>>

----------------------------------------------------------------------------
(* The rest of client_service                                              *)

\* destroy_session of agent_host: the container is removed, and the record
DestroyUpstream == upstream' = "none" /\ turn' = CutOff

\* delete_session: under the lifecycle lock agent_host is asked ...
DeleteCall(r) ==
  /\ reader[r].phase = "idle" /\ there /\ lifecycle = Nobody
  /\ \/ DestroyUpstream /\ lifecycle' = r /\ Becomes(r, "deleting") /\ UNCHANGED faults
     \/ Fault("call") /\ UNCHANGED <<upstream, turn, lifecycle, reader>>
  /\ UNCHANGED <<store, active, subs, final>>

\* ... and the row goes, with its messages
DeleteRow(r) ==
  /\ reader[r].phase = "deleting"
  /\ there' = FALSE
  /\ asked' = [t \in TurnIds |-> FALSE]
  /\ stored' = Empty
  /\ lifecycle' = Nobody
  /\ reader' = [reader EXCEPT ![r] = Idle]
  /\ UNCHANGED <<status, active, upstream, turn, subs, final, faults>>

\* kill_kernel, which takes no lock: agent_host is asked ...
KillCall(r) ==
  /\ reader[r].phase = "idle" /\ upstream # "none"
  /\ Fault("kill")
  /\ DestroyUpstream
  /\ Becomes(r, "killing")
  /\ UNCHANGED <<store, active, lifecycle, subs, final>>

\* ... and the row, if there is one, is written
KillRow(r) ==
  /\ reader[r].phase = "killing"
  /\ status' = IF there THEN "dead" ELSE status
  /\ reader' = [reader EXCEPT ![r] = Idle]
  /\ UNCHANGED <<there, asked, stored, active, upstream, lifecycle, turn, subs, final, faults>>

\* turns, streams and locks are in memory
ClientRestart ==
  /\ Fault("reboot")
  /\ active' = NoTurn
  /\ lifecycle' = Nobody
  /\ turn' = [t \in TurnIds |-> IF turn[t].pc = "none" THEN Unsent ELSE Over]
  /\ subs' = [t \in TurnIds |-> {}]
  /\ reader' = [r \in Readers |-> Idle]
  /\ UNCHANGED <<store, upstream, final>>

----------------------------------------------------------------------------

Init ==
  /\ there = TRUE
  /\ status = "idle"
  /\ asked = [t \in TurnIds |-> FALSE]
  /\ stored = Empty
  /\ active = NoTurn
  /\ upstream = "idle"
  /\ lifecycle = Nobody
  /\ turn = [t \in TurnIds |-> Unsent]
  /\ subs = [t \in TurnIds |-> {}]
  /\ final = [t \in TurnIds |-> FALSE]
  /\ reader = [r \in Readers |-> Idle]
  /\ faults = 0

\* the server at work on a turn
Run(t) ==
  \/ Ensure(t) \/ Begin(t) \/ Refuse(t) \/ MarkBusy(t) \/ AppendUser(t) \/ Placeholder(t)
  \/ OpenStream(t) \/ NextEvent(t) \/ Broadcast(t) \/ EndOfStream(t) \/ Finalize(t)
  \/ GetUpstream(t) \/ SendFinal(t) \/ DropGuard(t) \/ SyncReply(t)

\* a request or stream of a reader goes on
Read(r) ==
  \/ ViewEnsured(r) \/ ViewReply(r) \/ Attach(r) \/ TurnNotFound(r) \/ Receive(r) \/ Cut(r)
  \/ DeleteRow(r) \/ KillRow(r)

Next ==
  \/ \E t \in TurnIds : Run(t)
  \/ \E r \in Readers : \/ \E t \in TurnIds, m \in {"stream", "sync"} : Send(r, t, m)
                        \/ ViewRead(r) \/ Read(r) \/ LeaveStream(r) \/ LeaveRequest(r)
                        \/ DeleteCall(r) \/ KillCall(r)
  \/ ClientRestart

Spec == Init /\ [][Next]_vars

\* the server runs its tasks and the kernel answers or fails; nobody has to read
Fairness == \A t \in TurnIds : WF_vars(Run(t))

FairSpec == Spec /\ Fairness

----------------------------------------------------------------------------
(* Properties                                                              *)

TurnSet   == [pc : PcStates, mode : {"stream", "sync"}, caller : Readers \cup {Nobody},
              n : 0..MaxEvents, cut : BOOLEAN, broken : BOOLEAN, asRead : Statuses]
ReaderSet == [phase : Phases, on : TurnIds \cup {NoTurn}, queue : Seq(0..MaxEvents),
              seen : 0..MaxEvents, view : [TurnIds -> 0..(MaxEvents + 1)]]

\* A turn, its stream and each reader are in one of their states, and a channel
\* never holds more than its capacity.
TypeOK ==
  /\ there \in BOOLEAN
  /\ status \in Statuses
  /\ asked \in [TurnIds -> BOOLEAN]
  /\ stored \in [TurnIds -> 0..(MaxEvents + 1)]
  /\ active \in TurnIds \cup {NoTurn}
  /\ upstream \in {"none", "idle", "busy"}
  /\ lifecycle \in Readers \cup {Nobody}
  /\ turn \in [TurnIds -> TurnSet]
  /\ subs \in [TurnIds -> SUBSET Readers]
  /\ final \in [TurnIds -> BOOLEAN]
  /\ reader \in [Readers -> ReaderSet]
  /\ \A r \in Readers : Len(reader[r].queue) <= Capacity
  /\ faults \in 0..MaxFaults

\* What a reader has been sent of a turn is in the store, as long as there is a
\* session: whoever reloads the page sees no less than the stream has shown.
SeenIsStored ==
  \A r \in Readers :
    LET sent == {reader[r].seen} \cup {reader[r].queue[i] : i \in 1..Len(reader[r].queue)}
    IN there /\ reader[r].phase = "attached"
         => \A k \in sent \ {Final} : k < stored[reader[r].on]

\* A subscriber is let go with the final payload in its channel, because its
\* channel is full, because it disconnected or because the turn could not be
\* started: none misses the end by attaching while the turn ends.
LetGoWithFinal ==
  [][\A t \in TurnIds : \A r \in subs[t] \ subs'[t] :
       \/ \E i \in 1..Len(reader'[r].queue) : reader'[r].queue[i] = Final
       \/ ~HasRoom(r)
       \/ reader'[r].phase = "idle"
       \/ turn[t].pc \in Starting]_vars

\* The messages of a turn are written only while it is the session's active
\* turn: turns of a session never write across each other.
TurnsApart ==
  [][\A t \in TurnIds :
       there' /\ (stored'[t] # stored[t] \/ asked'[t] # asked[t]) => active = t]_vars

\* Without failures and kills a session that is not being deleted and has no
\* active turn is not shown busy, whoever looked at it while the turn ran or ended.
StatusSettles ==
  there /\ upstream # "none" /\ active = NoTurn /\ faults = 0 => status # "busy"

\* Every turn ends and lets the next one in, whatever fails, hangs up, is killed
\* or deleted meanwhile, and even if none of its readers reads or comes back.
ActiveEnds == \A t \in TurnIds : active = t ~> active # t

\* A session detail without an active turn shows no answer cut short: a browser
\* that comes back sees the current conversation, or a turn to attach to.  No run checks
\* it: it fails, for the record and its messages are read before the call to agent_host
\* is awaited, and the turn may end in between.
ReconnectSeesAll ==
  [][\A r \in Readers, t \in TurnIds :
       ViewReply(r) /\ there /\ active = NoTurn /\ reader[r].view[t] # 0
         => reader[r].view[t] = stored[t]]_vars

=============================================================================
