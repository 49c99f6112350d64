--------------------------- MODULE SessionRecords ---------------------------
(***************************************************************************)
(* One session as agent_host keeps it: its record in the registry, the     *)
(* turns that are streamed through it, and the calls that create, destroy, *)
(* reset and refresh it meanwhile; with the turns of the kernel host in    *)
(* the container.  Each await is a step.  A turn is the events of one      *)
(* stream; the record's history remembers who put a turn there.            *)
(***************************************************************************)
EXTENDS Naturals, Sequences, FiniteSets

CONSTANTS
  Streams,      \* one turn each
  Callers,      \* one call each
  Calls,        \* the calls that are made
  NoRecord, Nobody,
  MaxShutdowns  \* bound on restarts of agent_host

ASSUME SessionRecordsAssumption ==
  /\ Nobody \notin Streams \cup Callers
  /\ Calls \in [Callers -> SUBSET {"create", "destroy", "reset", "history"}]
  /\ MaxShutdowns \in Nat

VARIABLES
  record,     \* SessionRegistryInner.sessions[session_id]: its history
  createLock,
  call,       \* the calls: where they are, and what they read before they waited
  stream,     \* AgentEventStream, and the finalizer it leaves behind
  up,         \* the container runs
  turn,       \* the iterators of the kernel host
  kernelLock, \* KernelSessionService._stream_lock
  kernel,     \* KernelSessionService._history
  shutdowns

recordVars == <<record, createLock, call, stream, up, turn, kernelLock, kernel, shutdowns>>

Turns == Streams \X {"stream", "kernel"}

\* a call that has not begun or is over
Idle(pc) == [op |-> "none", pc |-> pc, seen |-> NoRecord]

RecordsInit ==
  /\ createLock = Nobody
  /\ \/ record = NoRecord /\ up \in BOOLEAN  \* a container of an earlier process may run
     \/ record = <<>> /\ up = TRUE
  /\ call = [c \in Callers |-> Idle("idle")]
  /\ stream = [s \in Streams |-> [pc |-> "none", got |-> FALSE, polled |-> FALSE]]
  /\ turn = [s \in Streams |-> "none"]
  /\ kernelLock = Nobody /\ kernel = <<>> /\ shutdowns = 0

----------------------------------------------------------------------------
(* The calls of the registry.                                               *)

At(c, pc) == call[c].pc = pc
Step(c, pc) == call' = [call EXCEPT ![c] = IF pc = "over" THEN Idle(pc) ELSE [@ EXCEPT !.pc = pc]]
Keep(c, pc, seen) == call' = [call EXCEPT ![c].pc = pc, ![c].seen = seen]

\* get_record refuses an unknown session; destroy_session reads the record, or goes on by
\* the id without one
Call(c, op) ==
  /\ At(c, "idle") /\ op \in Calls[c]
  /\ op \in {"reset", "history"} => record # NoRecord
  /\ call' = [call EXCEPT ![c] =
               [op |-> op, seen |-> IF op = "destroy" THEN record ELSE NoRecord,
                pc |-> CASE op = "create" -> "lock" [] op = "history" -> "ask"
                         [] op = "destroy" -> "stop" [] op = "reset" -> "find"]]
  /\ UNCHANGED <<record, createLock, stream, up, turn, kernelLock, kernel, shutdowns>>

\* create_session: the record is cloned ...
create_session(c) ==
  /\ At(c, "lock") /\ createLock = Nobody
  /\ createLock' = c
  /\ Keep(c, "run", record)
  /\ UNCHANGED <<record, stream, up, turn, kernelLock, kernel, shutdowns>>

\* ... the container is found or made ...
RunContainer(c) ==
  /\ At(c, "run") /\ Step(c, "insert")
  /\ up' = TRUE
  /\ UNCHANGED <<record, createLock, stream, turn, kernelLock, kernel, shutdowns>>

\* ... and the clone, or a new record, replaces what is there now
Inserted(seen) == IF seen = NoRecord THEN <<>> ELSE seen

InsertRecord(c) ==
  /\ At(c, "insert") /\ Step(c, "over")
  /\ record' = Inserted(call[c].seen)
  /\ createLock' = Nobody
  /\ UNCHANGED <<stream, up, turn, kernelLock, kernel, shutdowns>>

\* reset_session calls destroy_session, which reads the record again;
FindRecord(c) ==
  /\ At(c, "find") /\ Keep(c, "stop", record)
  /\ UNCHANGED <<record, createLock, stream, up, turn, kernelLock, kernel, shutdowns>>

\* the container ends with all that runs in it ...
AfterDestroy(c) == IF call[c].op = "reset" THEN "lock" ELSE "over"
destroy_session(c) ==
  /\ At(c, "stop") /\ Step(c, IF call[c].seen = NoRecord THEN AfterDestroy(c) ELSE "remove")
  /\ up' = FALSE /\ kernelLock' = Nobody /\ kernel' = <<>>
  /\ turn' = [s \in Streams |-> IF turn[s] = "none" THEN "none" ELSE "over"]
  /\ UNCHANGED <<record, createLock, stream, shutdowns>>

\* ... and the record goes, whichever it is by now; a reset goes on to create
RemoveRecord(c) ==
  /\ At(c, "remove") /\ record' = NoRecord
  /\ Step(c, AfterDestroy(c))
  /\ UNCHANGED <<createLock, stream, up, turn, kernelLock, kernel, shutdowns>>

\* history: what the kernel host remembers replaces the record's own
history(c) ==
  /\ At(c, "ask")
  /\ IF up THEN Keep(c, "write", [i \in DOMAIN kernel |-> <<kernel[i], "kernel">>])
           ELSE Step(c, "over")
  /\ UNCHANGED <<record, createLock, stream, up, turn, kernelLock, kernel, shutdowns>>

WriteHistory(c) ==
  /\ At(c, "write") /\ Step(c, "over")
  /\ record' = IF record = NoRecord THEN NoRecord ELSE call[c].seen
  /\ UNCHANGED <<createLock, stream, up, turn, kernelLock, kernel, shutdowns>>

----------------------------------------------------------------------------
(* A turn.                                                                  *)

\* stream_message: the record is read, the request is not sent before the first poll
stream_message(s) ==
  /\ stream[s].pc = "none" /\ record # NoRecord
  /\ stream' = [stream EXCEPT ![s] = [pc |-> "open", got |-> FALSE, polled |-> TRUE]]
  /\ UNCHANGED <<record, createLock, call, up, turn, kernelLock, kernel, shutdowns>>

Connect(s) ==
  /\ stream[s].polled /\ stream[s].pc = "open" /\ turn[s] = "none"
  /\ turn' = [turn EXCEPT ![s] = IF up THEN "wait" ELSE "over"]
  /\ UNCHANGED <<record, createLock, call, stream, up, kernelLock, kernel, shutdowns>>

\* the kernel host runs one turn at a time
KernelTurn(s) ==
  /\ turn[s] = "wait" /\ kernelLock = Nobody
  /\ turn' = [turn EXCEPT ![s] = "run"] /\ kernelLock' = s
  /\ UNCHANGED <<record, createLock, call, stream, up, kernel, shutdowns>>

\* an event of the harness reaches agent_host
PollEvent(s) ==
  /\ turn[s] = "run" /\ stream[s].polled /\ stream[s].pc = "open"
  /\ stream' = [stream EXCEPT ![s].got = TRUE]
  /\ UNCHANGED <<record, createLock, call, up, turn, kernelLock, kernel, shutdowns>>

\* the iterator's finally: the turn is remembered, the lock is freed
KernelTurnEnds(s) ==
  /\ turn[s] = "run"
  /\ turn' = [turn EXCEPT ![s] = "over"]
  /\ kernel' = Append(kernel, s) /\ kernelLock' = Nobody
  /\ UNCHANGED <<record, createLock, call, stream, up, shutdowns>>

\* the harness could not be started: nothing is remembered
KernelStartFails(s) ==
  /\ turn[s] = "run" /\ ~ stream[s].got
  /\ turn' = [turn EXCEPT ![s] = "over"] /\ kernelLock' = Nobody
  /\ UNCHANGED <<record, createLock, call, stream, up, kernel, shutdowns>>

\* poll_next meets the end or an error
begin_finalize(s) ==
  /\ stream[s].polled /\ stream[s].pc = "open" /\ turn[s] = "over"
  /\ stream' = [stream EXCEPT ![s].pc = "finalize"]
  /\ UNCHANGED <<record, createLock, call, up, turn, kernelLock, kernel, shutdowns>>

\* Drop: the finalizer is spawned, the one that was being polled if there is one.
\* The connection closes: a turn that waits is given up, one that runs is ended
\* by the kernel host in its own time.
Closed(s) ==
  turn' = [turn EXCEPT ![s] = IF @ \in {"none", "wait"} THEN "over" ELSE @]

drop_forgets(s) ==
  /\ stream[s].polled /\ stream[s].pc \in {"open", "finalize", "write"}
  /\ stream' = [stream EXCEPT ![s].polled = FALSE]
  /\ Closed(s)
  /\ UNCHANGED <<record, createLock, call, up, kernelLock, kernel, shutdowns>>
drop_after_finalized(s) ==
  /\ stream[s].polled /\ stream[s].pc # "none"
  /\ stream' = [stream EXCEPT ![s].polled = FALSE,
                              ![s].pc = IF @ \in {"open", "done"} THEN "finalize" ELSE @]
  /\ Closed(s)
  /\ UNCHANGED <<record, createLock, call, up, kernelLock, kernel, shutdowns>>
drop(s) ==
  /\ stream[s].polled /\ stream[s].pc \in {"open", "finalize", "write"}
  /\ stream' = [stream EXCEPT ![s].polled = FALSE,
                              ![s].pc = IF @ = "open" THEN "finalize" ELSE @]
  /\ Closed(s)
  /\ UNCHANGED <<record, createLock, call, up, kernelLock, kernel, shutdowns>>

\* finalize_stream asks the runtime for its summary, and may be refused
finalize_stream(s) ==
  /\ stream[s].pc = "finalize"
  /\ stream' = [stream EXCEPT ![s].pc = "write"]
  /\ UNCHANGED <<record, createLock, call, up, turn, kernelLock, kernel, shutdowns>>

RecordTurn(s) ==
  /\ stream[s].pc = "write"
  /\ stream' = [stream EXCEPT ![s].pc = "done"]
  /\ record' = IF record = NoRecord \/ ~ stream[s].got
                 THEN record ELSE Append(record, <<s, "stream">>)
  /\ UNCHANGED <<createLock, call, up, turn, kernelLock, kernel, shutdowns>>

\* forget_all_sessions, and the process ends; the container stays and is adopted
forget_all_sessions ==
  /\ shutdowns < MaxShutdowns /\ shutdowns' = shutdowns + 1
  /\ record' = NoRecord /\ createLock' = Nobody
  /\ call' = [c \in Callers |-> IF At(c, "idle") THEN call[c] ELSE Idle("over")]
  /\ stream' = [s \in Streams |-> IF stream[s].pc = "none" THEN stream[s]
                                  ELSE [stream[s] EXCEPT !.pc = "done", !.polled = FALSE]]
  /\ turn' = [s \in Streams |-> IF stream[s].pc = "none" \/ turn[s] = "run" THEN turn[s] ELSE "over"]
  /\ UNCHANGED <<up, kernelLock, kernel>>

RecordsNext ==
  \/ \E c \in Callers :
       \/ \E op \in Calls[c] : Call(c, op)
       \/ create_session(c) \/ RunContainer(c) \/ InsertRecord(c)
       \/ FindRecord(c) \/ destroy_session(c) \/ RemoveRecord(c)
       \/ history(c) \/ WriteHistory(c)
  \/ \E s \in Streams :
       \/ stream_message(s) \/ Connect(s) \/ PollEvent(s) \/ begin_finalize(s)
       \/ drop(s) \/ finalize_stream(s) \/ RecordTurn(s)
       \/ KernelTurn(s) \/ KernelTurnEnds(s) \/ KernelStartFails(s)
  \/ forget_all_sessions

\* A finalizer is polled by the stream it belongs to or by the executor it was
\* spawned on; a turn of the kernel host ends when its harness ends it.
RecordsFairness ==
  \A s \in Streams :
    /\ WF_recordVars(begin_finalize(s) \/ finalize_stream(s) \/ RecordTurn(s))
    /\ WF_recordVars(KernelTurnEnds(s))

RecordsSpec == RecordsInit /\ [][RecordsNext]_recordVars /\ RecordsFairness

----------------------------------------------------------------------------
(* Properties.                                                              *)

Times(s) == IF record = NoRecord THEN 0
            ELSE Cardinality({i \in DOMAIN record : record[i] = <<s, "stream">>})

\* A turn is put into the record's history at most once by its stream, whether
\* the stream was read to its end, failed, or was dropped at any of its awaits.
RecordedOnce == \A s \in Streams : Times(s) <= 1

\* Every turn that brought an event reaches the write of its record, whether
\* its stream is read to the end or dropped: no drop loses the finalizer.
DroppedIsRecorded ==
  \A s \in Streams : (stream[s].pc = "open" /\ stream[s].got) ~> (stream[s].pc = "done")
=============================================================================
