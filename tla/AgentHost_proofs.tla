------------------------ MODULE AgentHost_proofs ------------------------
(***************************************************************************)
(* Proofs about agent_host: the record of a session and its terminal.      *)
(*                                                                         *)
(* The stream of a turn puts it into the history of its session at most    *)
(* once, for every number of streams, calls and restarts.  The record      *)
(* alone is not enough for an induction: create_session and history hold a *)
(* copy of it while they wait and put it back later.  The invariant        *)
(* therefore speaks of every copy, and ties the turns in it to the streams *)
(* that are done, which never write again.                                 *)
(*                                                                         *)
(* The attachments of a terminal stay accounted for, and its generation    *)
(* remembered, for every number of sockets, handlers and faults.  The row  *)
(* is safe because whoever read a generation leaves one, and who read none *)
(* holds the lifecycle lock; the leases because from discovery on the      *)
(* client of a socket is its lease's, or gone, or its socket told.         *)
(***************************************************************************)
EXTENDS SessionRecords, Terminal, FiniteSetTheorems, TLAPS

----------------------------------------------------------------------------
(* The session record.                                                     *)

CallPcs == {"idle", "lock", "run", "insert", "find", "stop", "remove", "ask", "write", "over"}
Operations == {"none", "create", "destroy", "reset", "history"}
StreamPcs == {"none", "open", "finalize", "write", "done"}
TurnPcs == {"none", "wait", "run", "over"}
Histories == {NoRecord} \cup Seq(Turns)

RecordsTypeOK ==
  /\ record \in Histories
  /\ createLock \in Callers \cup {Nobody}
  /\ call \in [Callers -> [op : Operations, pc : CallPcs, seen : Histories]]
  /\ stream \in [Streams -> [pc : StreamPcs, got : BOOLEAN, polled : BOOLEAN]]
  /\ turn \in [Streams -> TurnPcs]
  /\ up \in BOOLEAN /\ kernelLock \in Streams \cup {Nobody}
  /\ kernel \in Seq(Streams) /\ shutdowns \in 0..MaxShutdowns

Mine(s) == <<s, "stream">>

\* a history, or none, in which a stream has at most one turn, and only once it is done
Sound(h) ==
  h # NoRecord =>
    \A s \in Streams, i \in DOMAIN h :
      h[i] = Mine(s) => /\ stream[s].pc = "done"
                        /\ \A j \in DOMAIN h : h[j] = Mine(s) => i = j

\* so are the record and every copy of it that a call holds
CopiesInv == Sound(record) /\ \A c \in Callers : Sound(call[c].seen)

RecordsInv == RecordsTypeOK /\ CopiesInv

\* what is sound stays so, for a stream that is done stays done
LEMMA SoundStays ==
  ASSUME NEW h, Sound(h), \A s \in Streams : stream[s].pc = "done" => stream'[s].pc = "done"
  PROVE  Sound(h)'
  BY DEF Sound

LEMMA Step_create_session ==
  ASSUME RecordsInv, NEW c \in Callers, create_session(c)
  PROVE  RecordsInv'
<1>1. RecordsTypeOK'
  <2>1. record \in Histories /\ call' = [call EXCEPT ![c].pc = "run", ![c].seen = record]
    BY DEF RecordsInv, RecordsTypeOK, create_session, Keep
  <2>2. call' \in [Callers -> [op : Operations, pc : CallPcs, seen : Histories]]
    BY <2>1 DEF RecordsInv, RecordsTypeOK, CallPcs
  <2> QED
    BY <2>2 DEF RecordsInv, RecordsTypeOK, create_session
<1>2. CopiesInv'
  <2>1. \A s \in Streams : stream[s].pc = "done" => stream'[s].pc = "done"
    BY DEF RecordsInv, RecordsTypeOK, create_session, Keep, At
  <2>2. Sound(record)' /\ Sound(NoRecord)'
    BY <2>1, SoundStays DEF RecordsInv, CopiesInv, Sound, create_session, Keep, At
  <2>3. \A d \in Callers : Sound(call[d].seen)'
    BY <2>1, SoundStays DEF RecordsInv, CopiesInv, Sound, RecordsTypeOK, create_session, Keep, At
  <2> QED
    BY <2>2, <2>3 DEF CopiesInv
<1> QED
  BY <1>1, <1>2 DEF RecordsInv

LEMMA Step_RunContainer ==
  ASSUME RecordsInv, NEW c \in Callers, RunContainer(c)
  PROVE  RecordsInv'
<1>1. RecordsTypeOK'
  BY DEF RecordsInv, RecordsTypeOK, CallPcs, Operations, StreamPcs, TurnPcs, RunContainer, Step, Idle, At
<1>2. CopiesInv'
  <2>1. \A s \in Streams : stream[s].pc = "done" => stream'[s].pc = "done"
    BY DEF RecordsInv, RecordsTypeOK, RunContainer, Step, Idle, At
  <2>2. Sound(record)' /\ Sound(NoRecord)'
    BY <2>1, SoundStays DEF RecordsInv, CopiesInv, Sound, RunContainer, Step, Idle, At
  <2>3. \A d \in Callers : Sound(call[d].seen)'
    BY <2>1, SoundStays DEF RecordsInv, CopiesInv, Sound, RecordsTypeOK, RunContainer, Step, Idle, At
  <2> QED
    BY <2>2, <2>3 DEF CopiesInv
<1> QED
  BY <1>1, <1>2 DEF RecordsInv

LEMMA Step_InsertRecord ==
  ASSUME RecordsInv, NEW c \in Callers, InsertRecord(c)
  PROVE  RecordsInv'
<1>1. RecordsTypeOK'
  BY DEF RecordsInv, RecordsTypeOK, Histories, CallPcs, Operations, StreamPcs, TurnPcs, InsertRecord, Inserted, Step, Idle, At
<1>2. CopiesInv'
  <2>1. \A s \in Streams : stream[s].pc = "done" => stream'[s].pc = "done"
    BY DEF RecordsInv, RecordsTypeOK, InsertRecord, Inserted, Step, Idle, At
  <2>2. Sound(record)' /\ Sound(NoRecord)'
    BY <2>1, SoundStays DEF RecordsInv, CopiesInv, Sound, InsertRecord, Inserted, Step, Idle, At
  <2>3. \A d \in Callers : Sound(call[d].seen)'
    BY <2>1, SoundStays DEF RecordsInv, CopiesInv, Sound, RecordsTypeOK, InsertRecord, Inserted, Step, Idle, At
  <2> QED
    BY <2>2, <2>3 DEF CopiesInv
<1> QED
  BY <1>1, <1>2 DEF RecordsInv

LEMMA Step_FindRecord ==
  ASSUME RecordsInv, NEW c \in Callers, FindRecord(c)
  PROVE  RecordsInv'
<1>1. RecordsTypeOK'
  <2>1. record \in Histories /\ call' = [call EXCEPT ![c].pc = "stop", ![c].seen = record]
    BY DEF RecordsInv, RecordsTypeOK, FindRecord, Keep
  <2>2. call' \in [Callers -> [op : Operations, pc : CallPcs, seen : Histories]]
    BY <2>1 DEF RecordsInv, RecordsTypeOK, CallPcs
  <2> QED
    BY <2>2 DEF RecordsInv, RecordsTypeOK, FindRecord
<1>2. CopiesInv'
  <2>1. \A s \in Streams : stream[s].pc = "done" => stream'[s].pc = "done"
    BY DEF RecordsInv, RecordsTypeOK, FindRecord, Keep, At
  <2>2. Sound(record)' /\ Sound(NoRecord)'
    BY <2>1, SoundStays DEF RecordsInv, CopiesInv, Sound, FindRecord, Keep, At
  <2>3. \A d \in Callers : Sound(call[d].seen)'
    BY <2>1, SoundStays DEF RecordsInv, CopiesInv, Sound, RecordsTypeOK, FindRecord, Keep, At
  <2> QED
    BY <2>2, <2>3 DEF CopiesInv
<1> QED
  BY <1>1, <1>2 DEF RecordsInv

LEMMA Step_destroy_session ==
  ASSUME RecordsInv, NEW c \in Callers, destroy_session(c)
  PROVE  RecordsInv'
<1>1. RecordsTypeOK'
  <2>1. NoRecord \in Histories
    BY DEF Histories
  <2>2. call' \in [Callers -> [op : Operations, pc : CallPcs, seen : Histories]]
    <3> DEFINE pc == IF call[c].seen = NoRecord THEN AfterDestroy(c) ELSE "remove"
    <3>1. pc \in {"lock", "over", "remove"} /\ call' = [call EXCEPT ![c] = IF pc = "over" THEN Idle(pc) ELSE [@ EXCEPT !.pc = pc]]
      BY DEF destroy_session, AfterDestroy, Step
    <3> HIDE DEF pc
    <3> QED
      BY <2>1, <3>1 DEF RecordsInv, RecordsTypeOK, Idle, CallPcs, Operations
  <2>3. <<>> \in Seq(Streams)
    OBVIOUS
  <2> QED
    BY <2>2, <2>3 DEF RecordsInv, RecordsTypeOK, TurnPcs, destroy_session
<1>2. CopiesInv'
  <2>1. \A s \in Streams : stream[s].pc = "done" => stream'[s].pc = "done"
    BY DEF RecordsInv, RecordsTypeOK, destroy_session, AfterDestroy, Step, Idle, At
  <2>2. Sound(record)' /\ Sound(NoRecord)'
    BY <2>1, SoundStays DEF RecordsInv, CopiesInv, Sound, destroy_session, AfterDestroy, Step, Idle, At
  <2>3. \A d \in Callers : Sound(call[d].seen)'
    BY <2>1, SoundStays DEF RecordsInv, CopiesInv, Sound, RecordsTypeOK, destroy_session, AfterDestroy, Step, Idle, At
  <2> QED
    BY <2>2, <2>3 DEF CopiesInv
<1> QED
  BY <1>1, <1>2 DEF RecordsInv

LEMMA Step_RemoveRecord ==
  ASSUME RecordsInv, NEW c \in Callers, RemoveRecord(c)
  PROVE  RecordsInv'
<1>1. RecordsTypeOK'
  BY DEF RecordsInv, RecordsTypeOK, Histories, CallPcs, Operations, StreamPcs, TurnPcs, RemoveRecord, AfterDestroy, Step, Idle, At
<1>2. CopiesInv'
  <2>1. \A s \in Streams : stream[s].pc = "done" => stream'[s].pc = "done"
    BY DEF RecordsInv, RecordsTypeOK, RemoveRecord, AfterDestroy, Step, Idle, At
  <2>2. Sound(record)' /\ Sound(NoRecord)'
    BY <2>1, SoundStays DEF RecordsInv, CopiesInv, Sound, RemoveRecord, AfterDestroy, Step, Idle, At
  <2>3. \A d \in Callers : Sound(call[d].seen)'
    BY <2>1, SoundStays DEF RecordsInv, CopiesInv, Sound, RecordsTypeOK, RemoveRecord, AfterDestroy, Step, Idle, At
  <2> QED
    BY <2>2, <2>3 DEF CopiesInv
<1> QED
  BY <1>1, <1>2 DEF RecordsInv

LEMMA Step_history ==
  ASSUME RecordsInv, NEW c \in Callers, history(c)
  PROVE  RecordsInv'
<1>1. RecordsTypeOK'
  <2>1. call' \in [Callers -> [op : Operations, pc : CallPcs, seen : Histories]]
    <3>1. CASE up
      <4> DEFINE h == [i \in DOMAIN kernel |-> <<kernel[i], "kernel">>]
      <4>1. h \in Histories
        <5>1. kernel \in Seq(Streams)
          BY DEF RecordsInv, RecordsTypeOK
        <5>2. h \in Seq(Turns)
          BY <5>1 DEF Turns
        <5> QED
          BY <5>2 DEF Histories
      <4>2. call' = [call EXCEPT ![c].pc = "write", ![c].seen = h]
        BY <3>1 DEF history, Keep
      <4> HIDE DEF h
      <4> QED
        BY <4>1, <4>2 DEF RecordsInv, RecordsTypeOK, CallPcs
    <3>2. CASE ~up
      <4>1. NoRecord \in Histories
        BY DEF Histories
      <4>2. call' = [call EXCEPT ![c] = [op |-> "none", pc |-> "over", seen |-> NoRecord]]
        BY <3>2 DEF history, Step, Idle
      <4> QED
        BY <4>1, <4>2 DEF RecordsInv, RecordsTypeOK, CallPcs, Operations
    <3> QED
      BY <3>1, <3>2
  <2> QED
    BY <2>1 DEF RecordsInv, RecordsTypeOK, history
<1>2. CopiesInv'
  <2>1. stream' = stream /\ record' = record
    BY DEF history
  <2>2. \A h : Sound(h)' <=> Sound(h)
    BY <2>1 DEF Sound
  <2>3. ASSUME NEW d \in Callers PROVE Sound(call'[d].seen)
    <3>1. CASE up /\ d = c
      <4> DEFINE h == [i \in DOMAIN kernel |-> <<kernel[i], "kernel">>]
      <4>1. call'[d].seen = h
        BY <3>1 DEF history, Keep, RecordsInv, RecordsTypeOK
      <4>2. \A t \in Streams, i \in DOMAIN h : h[i] # Mine(t)
        BY DEF Mine
      <4> QED
        BY <4>1, <4>2 DEF Sound
    <3>2. CASE ~up /\ d = c
      BY <3>2 DEF history, Step, Idle, RecordsInv, RecordsTypeOK, Sound
    <3>3. CASE d # c
      <4>1. call'[d] = call[d]
        BY <3>3 DEF history, Keep, Step, RecordsInv, RecordsTypeOK
      <4> QED
        BY <4>1 DEF RecordsInv, CopiesInv
    <3> QED
      BY <3>1, <3>2, <3>3
  <2>4. Sound(record')
    BY <2>1 DEF RecordsInv, CopiesInv
  <2> QED
    BY <2>1, <2>3, <2>4 DEF CopiesInv, Sound
<1> QED
  BY <1>1, <1>2 DEF RecordsInv

LEMMA Step_WriteHistory ==
  ASSUME RecordsInv, NEW c \in Callers, WriteHistory(c)
  PROVE  RecordsInv'
<1>1. RecordsTypeOK'
  BY DEF RecordsInv, RecordsTypeOK, Histories, CallPcs, Operations, StreamPcs, TurnPcs, WriteHistory, Step, Idle, At
<1>2. CopiesInv'
  <2>1. \A s \in Streams : stream[s].pc = "done" => stream'[s].pc = "done"
    BY DEF RecordsInv, RecordsTypeOK, WriteHistory, Step, Idle, At
  <2>2. Sound(record)' /\ Sound(NoRecord)'
    BY <2>1, SoundStays DEF RecordsInv, CopiesInv, Sound, WriteHistory, Step, Idle, At
  <2>3. \A d \in Callers : Sound(call[d].seen)'
    BY <2>1, SoundStays DEF RecordsInv, CopiesInv, Sound, RecordsTypeOK, WriteHistory, Step, Idle, At
  <2> QED
    BY <2>2, <2>3 DEF CopiesInv
<1> QED
  BY <1>1, <1>2 DEF RecordsInv

LEMMA Step_Call ==
  ASSUME RecordsInv, NEW c \in Callers, NEW op \in Calls[c], Call(c, op)
  PROVE  RecordsInv'
<1>1. RecordsTypeOK'
  <2>1. NoRecord \in Histories /\ record \in Histories
    BY DEF Histories, RecordsInv, RecordsTypeOK
  <2>2. op \in {"create", "destroy", "reset", "history"}
    BY SessionRecordsAssumption
  <2> DEFINE r == [op |-> op, seen |-> IF op = "destroy" THEN record ELSE NoRecord,
                   pc |-> CASE op = "create" -> "lock" [] op = "history" -> "ask"
                            [] op = "destroy" -> "stop" [] op = "reset" -> "find"]
  <2>3. r \in [op : Operations, pc : CallPcs, seen : Histories]
    BY <2>1, <2>2 DEF Operations, CallPcs
  <2>4. call' = [call EXCEPT ![c] = r]
    BY DEF Call
  <2> HIDE DEF r
  <2>5. call' \in [Callers -> [op : Operations, pc : CallPcs, seen : Histories]]
    BY <2>3, <2>4 DEF RecordsInv, RecordsTypeOK
  <2> QED
    BY <2>5 DEF RecordsInv, RecordsTypeOK, Call
<1>2. CopiesInv'
  <2>1. \A s \in Streams : stream[s].pc = "done" => stream'[s].pc = "done"
    BY DEF RecordsInv, RecordsTypeOK, Call, At
  <2>2. Sound(record)' /\ Sound(NoRecord)'
    BY <2>1, SoundStays DEF RecordsInv, CopiesInv, Sound, Call, At
  <2>3. \A d \in Callers : Sound(call[d].seen)'
    BY <2>1, SoundStays DEF RecordsInv, CopiesInv, Sound, RecordsTypeOK, Call, At
  <2> QED
    BY <2>2, <2>3 DEF CopiesInv
<1> QED
  BY <1>1, <1>2 DEF RecordsInv

LEMMA Step_stream_message ==
  ASSUME RecordsInv, NEW s \in Streams, stream_message(s)
  PROVE  RecordsInv'
<1>1. RecordsTypeOK'
  BY DEF RecordsInv, RecordsTypeOK, Histories, CallPcs, Operations, StreamPcs, TurnPcs, stream_message
<1>2. CopiesInv'
  <2>1. \A u \in Streams : stream[u].pc = "done" => stream'[u].pc = "done"
    BY DEF RecordsInv, RecordsTypeOK, stream_message
  <2>2. Sound(record)' /\ Sound(NoRecord)'
    BY <2>1, SoundStays DEF RecordsInv, CopiesInv, Sound, stream_message
  <2>3. \A c \in Callers : Sound(call[c].seen)'
    BY <2>1, SoundStays DEF RecordsInv, CopiesInv, Sound, RecordsTypeOK, stream_message
  <2> QED
    BY <2>2, <2>3 DEF CopiesInv
<1> QED
  BY <1>1, <1>2 DEF RecordsInv

LEMMA Step_Connect ==
  ASSUME RecordsInv, NEW s \in Streams, Connect(s)
  PROVE  RecordsInv'
<1>1. RecordsTypeOK'
  BY DEF RecordsInv, RecordsTypeOK, Histories, CallPcs, Operations, StreamPcs, TurnPcs, Connect
<1>2. CopiesInv'
  <2>1. \A u \in Streams : stream[u].pc = "done" => stream'[u].pc = "done"
    BY DEF RecordsInv, RecordsTypeOK, Connect
  <2>2. Sound(record)' /\ Sound(NoRecord)'
    BY <2>1, SoundStays DEF RecordsInv, CopiesInv, Sound, Connect
  <2>3. \A c \in Callers : Sound(call[c].seen)'
    BY <2>1, SoundStays DEF RecordsInv, CopiesInv, Sound, RecordsTypeOK, Connect
  <2> QED
    BY <2>2, <2>3 DEF CopiesInv
<1> QED
  BY <1>1, <1>2 DEF RecordsInv

LEMMA Step_PollEvent ==
  ASSUME RecordsInv, NEW s \in Streams, PollEvent(s)
  PROVE  RecordsInv'
<1>1. RecordsTypeOK'
  BY DEF RecordsInv, RecordsTypeOK, Histories, CallPcs, Operations, StreamPcs, TurnPcs, PollEvent
<1>2. CopiesInv'
  <2>1. \A u \in Streams : stream[u].pc = "done" => stream'[u].pc = "done"
    BY DEF RecordsInv, RecordsTypeOK, PollEvent
  <2>2. Sound(record)' /\ Sound(NoRecord)'
    BY <2>1, SoundStays DEF RecordsInv, CopiesInv, Sound, PollEvent
  <2>3. \A c \in Callers : Sound(call[c].seen)'
    BY <2>1, SoundStays DEF RecordsInv, CopiesInv, Sound, RecordsTypeOK, PollEvent
  <2> QED
    BY <2>2, <2>3 DEF CopiesInv
<1> QED
  BY <1>1, <1>2 DEF RecordsInv

LEMMA Step_begin_finalize ==
  ASSUME RecordsInv, NEW s \in Streams, begin_finalize(s)
  PROVE  RecordsInv'
<1>1. RecordsTypeOK'
  BY DEF RecordsInv, RecordsTypeOK, Histories, CallPcs, Operations, StreamPcs, TurnPcs, begin_finalize
<1>2. CopiesInv'
  <2>1. \A u \in Streams : stream[u].pc = "done" => stream'[u].pc = "done"
    BY DEF RecordsInv, RecordsTypeOK, begin_finalize
  <2>2. Sound(record)' /\ Sound(NoRecord)'
    BY <2>1, SoundStays DEF RecordsInv, CopiesInv, Sound, begin_finalize
  <2>3. \A c \in Callers : Sound(call[c].seen)'
    BY <2>1, SoundStays DEF RecordsInv, CopiesInv, Sound, RecordsTypeOK, begin_finalize
  <2> QED
    BY <2>2, <2>3 DEF CopiesInv
<1> QED
  BY <1>1, <1>2 DEF RecordsInv

LEMMA Step_drop ==
  ASSUME RecordsInv, NEW s \in Streams, drop(s)
  PROVE  RecordsInv'
<1>1. RecordsTypeOK'
  <2>1. stream' \in [Streams -> [pc : StreamPcs, got : BOOLEAN, polled : BOOLEAN]]
    <3> DEFINE pc == IF stream[s].pc = "open" THEN "finalize" ELSE stream[s].pc
    <3>1. stream' = [stream EXCEPT ![s].polled = FALSE, ![s].pc = pc]
      BY DEF drop, RecordsInv, RecordsTypeOK
    <3>2. pc \in StreamPcs
      BY DEF RecordsInv, RecordsTypeOK, StreamPcs
    <3> HIDE DEF pc
    <3> QED
      BY <3>1, <3>2 DEF RecordsInv, RecordsTypeOK
  <2>2. turn' \in [Streams -> TurnPcs]
    BY DEF drop, Closed, RecordsInv, RecordsTypeOK, TurnPcs
  <2> QED
    BY <2>1, <2>2 DEF RecordsInv, RecordsTypeOK, drop
<1>2. CopiesInv'
  <2>1. \A u \in Streams : stream[u].pc = "done" => stream'[u].pc = "done"
    BY DEF RecordsInv, RecordsTypeOK, drop, Closed
  <2>2. Sound(record)' /\ Sound(NoRecord)'
    BY <2>1, SoundStays DEF RecordsInv, CopiesInv, Sound, drop, Closed
  <2>3. \A c \in Callers : Sound(call[c].seen)'
    BY <2>1, SoundStays DEF RecordsInv, CopiesInv, Sound, RecordsTypeOK, drop, Closed
  <2> QED
    BY <2>2, <2>3 DEF CopiesInv
<1> QED
  BY <1>1, <1>2 DEF RecordsInv

LEMMA Step_finalize_stream ==
  ASSUME RecordsInv, NEW s \in Streams, finalize_stream(s)
  PROVE  RecordsInv'
<1>1. RecordsTypeOK'
  BY DEF RecordsInv, RecordsTypeOK, Histories, CallPcs, Operations, StreamPcs, TurnPcs, finalize_stream
<1>2. CopiesInv'
  <2>1. \A u \in Streams : stream[u].pc = "done" => stream'[u].pc = "done"
    BY DEF RecordsInv, RecordsTypeOK, finalize_stream
  <2>2. Sound(record)' /\ Sound(NoRecord)'
    BY <2>1, SoundStays DEF RecordsInv, CopiesInv, Sound, finalize_stream
  <2>3. \A c \in Callers : Sound(call[c].seen)'
    BY <2>1, SoundStays DEF RecordsInv, CopiesInv, Sound, RecordsTypeOK, finalize_stream
  <2> QED
    BY <2>2, <2>3 DEF CopiesInv
<1> QED
  BY <1>1, <1>2 DEF RecordsInv

LEMMA Step_RecordTurn ==
  ASSUME RecordsInv, NEW s \in Streams, RecordTurn(s)
  PROVE  RecordsInv'
<1>1. RecordsTypeOK'
  <2>1. record' \in Histories
    <3>1. CASE record = NoRecord \/ ~ stream[s].got
      BY <3>1 DEF RecordTurn, RecordsInv, RecordsTypeOK
    <3>2. CASE record # NoRecord /\ stream[s].got
      <4>1. record \in Seq(Turns) /\ <<s, "stream">> \in Turns
        BY <3>2 DEF RecordsInv, RecordsTypeOK, Histories, Turns
      <4>2. Append(record, <<s, "stream">>) \in Seq(Turns)
        BY <4>1
      <4> QED
        BY <3>2, <4>2 DEF RecordTurn, Histories
    <3> QED
      BY <3>1, <3>2
  <2>2. stream' \in [Streams -> [pc : StreamPcs, got : BOOLEAN, polled : BOOLEAN]]
    BY DEF RecordsInv, RecordsTypeOK, StreamPcs, RecordTurn
  <2> QED
    BY <2>1, <2>2 DEF RecordsInv, RecordsTypeOK, RecordTurn
<1>2. CopiesInv'
  <2>1. stream[s].pc = "write" /\ stream'[s].pc = "done" /\ \A t \in Streams : t # s => stream'[t] = stream[t]
    BY DEF RecordsInv, RecordsTypeOK, RecordTurn
  <2>2. \A t \in Streams : stream[t].pc = "done" => stream'[t].pc = "done"
    BY <2>1
  <2>3. \A c \in Callers : Sound(call[c].seen)'
    BY <2>2, SoundStays DEF RecordsInv, CopiesInv, RecordTurn
  <2>4. CASE record' = record
    BY <2>2, <2>3, <2>4, SoundStays DEF RecordsInv, CopiesInv
  <2>5. CASE record # NoRecord /\ record' = Append(record, Mine(s))
    <3>1. record \in Seq(Turns) /\ Sound(record)
      BY <2>5 DEF RecordsInv, RecordsTypeOK, CopiesInv, Histories
    <3>2. DOMAIN record = 1..Len(record) /\ Len(record) \in Nat
      BY <3>1
    <3>3. /\ DOMAIN record' = 1..(Len(record) + 1) /\ record'[Len(record) + 1] = Mine(s)
          /\ \A i \in 1..Len(record) : record'[i] = record[i]
      BY <2>5, <3>1
    <3>4. \A i \in 1..Len(record) : record[i] # Mine(s)
      BY <2>1, <2>5, <3>1, <3>2 DEF Sound
    <3>5. ASSUME NEW t \in Streams, NEW i \in DOMAIN record', record'[i] = Mine(t)
          PROVE  /\ stream'[t].pc = "done"
                 /\ \A j \in DOMAIN record' : record'[j] = Mine(t) => i = j
      <4>1. CASE t = s
        BY <2>1, <3>2, <3>3, <3>4, <3>5, <4>1
      <4>2. CASE t # s
        <5>1. Mine(t) # Mine(s)
          BY <4>2 DEF Mine
        <5>2. i \in 1..Len(record) /\ record[i] = Mine(t)
          BY <3>2, <3>3, <3>5, <5>1
        <5>3. /\ stream[t].pc = "done"
              /\ \A j \in 1..Len(record) : record[j] = Mine(t) => i = j
          BY <2>5, <3>1, <3>2, <5>2 DEF Sound
        <5> QED
          BY <2>2, <3>2, <3>3, <5>1, <5>3
      <4> QED
        BY <4>1, <4>2
    <3>6. Sound(record)'
      BY <3>5 DEF Sound
    <3> QED
      BY <2>3, <3>6 DEF CopiesInv
  <2> QED
    BY <2>4, <2>5 DEF RecordTurn, Mine
<1> QED
  BY <1>1, <1>2 DEF RecordsInv

LEMMA Step_KernelTurn ==
  ASSUME RecordsInv, NEW s \in Streams, KernelTurn(s)
  PROVE  RecordsInv'
<1>1. RecordsTypeOK'
  BY DEF RecordsInv, RecordsTypeOK, Histories, CallPcs, Operations, StreamPcs, TurnPcs, KernelTurn
<1>2. CopiesInv'
  <2>1. \A u \in Streams : stream[u].pc = "done" => stream'[u].pc = "done"
    BY DEF RecordsInv, RecordsTypeOK, KernelTurn
  <2>2. Sound(record)' /\ Sound(NoRecord)'
    BY <2>1, SoundStays DEF RecordsInv, CopiesInv, Sound, KernelTurn
  <2>3. \A c \in Callers : Sound(call[c].seen)'
    BY <2>1, SoundStays DEF RecordsInv, CopiesInv, Sound, RecordsTypeOK, KernelTurn
  <2> QED
    BY <2>2, <2>3 DEF CopiesInv
<1> QED
  BY <1>1, <1>2 DEF RecordsInv

LEMMA Step_KernelTurnEnds ==
  ASSUME RecordsInv, NEW s \in Streams, KernelTurnEnds(s)
  PROVE  RecordsInv'
<1>1. RecordsTypeOK'
  BY DEF RecordsInv, RecordsTypeOK, Histories, CallPcs, Operations, StreamPcs, TurnPcs, KernelTurnEnds
<1>2. CopiesInv'
  <2>1. \A u \in Streams : stream[u].pc = "done" => stream'[u].pc = "done"
    BY DEF RecordsInv, RecordsTypeOK, KernelTurnEnds
  <2>2. Sound(record)' /\ Sound(NoRecord)'
    BY <2>1, SoundStays DEF RecordsInv, CopiesInv, Sound, KernelTurnEnds
  <2>3. \A c \in Callers : Sound(call[c].seen)'
    BY <2>1, SoundStays DEF RecordsInv, CopiesInv, Sound, RecordsTypeOK, KernelTurnEnds
  <2> QED
    BY <2>2, <2>3 DEF CopiesInv
<1> QED
  BY <1>1, <1>2 DEF RecordsInv

LEMMA Step_KernelStartFails ==
  ASSUME RecordsInv, NEW s \in Streams, KernelStartFails(s)
  PROVE  RecordsInv'
<1>1. RecordsTypeOK'
  BY DEF RecordsInv, RecordsTypeOK, Histories, CallPcs, Operations, StreamPcs, TurnPcs, KernelStartFails
<1>2. CopiesInv'
  <2>1. \A u \in Streams : stream[u].pc = "done" => stream'[u].pc = "done"
    BY DEF RecordsInv, RecordsTypeOK, KernelStartFails
  <2>2. Sound(record)' /\ Sound(NoRecord)'
    BY <2>1, SoundStays DEF RecordsInv, CopiesInv, Sound, KernelStartFails
  <2>3. \A c \in Callers : Sound(call[c].seen)'
    BY <2>1, SoundStays DEF RecordsInv, CopiesInv, Sound, RecordsTypeOK, KernelStartFails
  <2> QED
    BY <2>2, <2>3 DEF CopiesInv
<1> QED
  BY <1>1, <1>2 DEF RecordsInv

LEMMA Step_forget_all_sessions ==
  ASSUME RecordsInv, forget_all_sessions
  PROVE  RecordsInv'
<1>1. RecordsTypeOK'
  <2>1. NoRecord \in Histories
    BY DEF Histories
  <2>2. call' \in [Callers -> [op : Operations, pc : CallPcs, seen : Histories]]
    BY <2>1 DEF RecordsInv, RecordsTypeOK, forget_all_sessions, Idle, At, CallPcs, Operations
  <2>3. stream' \in [Streams -> [pc : StreamPcs, got : BOOLEAN, polled : BOOLEAN]]
    BY DEF RecordsInv, RecordsTypeOK, forget_all_sessions, StreamPcs
  <2>4. turn' \in [Streams -> TurnPcs]
    BY DEF RecordsInv, RecordsTypeOK, forget_all_sessions, TurnPcs
  <2>5. shutdowns' \in 0..MaxShutdowns
    <3>1. shutdowns \in 0..MaxShutdowns /\ shutdowns < MaxShutdowns /\ shutdowns' = shutdowns + 1
      BY DEF RecordsInv, RecordsTypeOK, forget_all_sessions
    <3> QED
      BY <3>1, SessionRecordsAssumption
  <2> QED
    BY <2>1, <2>2, <2>3, <2>4, <2>5 DEF RecordsInv, RecordsTypeOK, forget_all_sessions
<1>2. CopiesInv'
  <2>1. \A s \in Streams : stream[s].pc = "done" => stream'[s].pc = "done"
    BY DEF RecordsInv, RecordsTypeOK, forget_all_sessions
  <2>2. record' = NoRecord
    BY DEF forget_all_sessions
  <2>3. ASSUME NEW c \in Callers PROVE Sound(call[c].seen)'
    <3>1. call'[c].seen = NoRecord \/ call'[c].seen = call[c].seen
      BY DEF forget_all_sessions, Idle, RecordsInv, RecordsTypeOK
    <3>2. Sound(call[c].seen)
      BY DEF RecordsInv, CopiesInv
    <3> QED
      BY <2>1, <3>1, <3>2 DEF Sound
  <2> QED
    BY <2>2, <2>3 DEF CopiesInv, Sound
<1> QED
  BY <1>1, <1>2 DEF RecordsInv

LEMMA InitRecordsInv == RecordsInit => RecordsInv
<1> SUFFICES ASSUME RecordsInit PROVE RecordsInv
  OBVIOUS
<1>1. RecordsTypeOK
  <2>1. NoRecord \in Histories /\ <<>> \in Histories /\ <<>> \in Seq(Streams)
    BY DEF Histories
  <2>2. call \in [Callers -> [op : Operations, pc : CallPcs, seen : Histories]]
    BY <2>1 DEF RecordsInit, Idle, Operations, CallPcs
  <2>3. stream \in [Streams -> [pc : StreamPcs, got : BOOLEAN, polled : BOOLEAN]]
    BY DEF RecordsInit, StreamPcs
  <2>4. turn \in [Streams -> TurnPcs] /\ shutdowns \in 0..MaxShutdowns
    BY SessionRecordsAssumption DEF RecordsInit, TurnPcs
  <2>5. up \in BOOLEAN
    BY DEF RecordsInit
  <2> QED
    BY <2>1, <2>2, <2>3, <2>4, <2>5 DEF RecordsInit, RecordsTypeOK
<1>2. CopiesInv
  <2>1. record = NoRecord \/ record = <<>>
    BY DEF RecordsInit
  <2>2. \A c \in Callers : call[c].seen = NoRecord
    BY DEF RecordsInit, Idle
  <2> QED
    BY <2>1, <2>2 DEF CopiesInv, Sound
<1> QED
  BY <1>1, <1>2 DEF RecordsInv

LEMMA StepRecordsInv == RecordsInv /\ [RecordsNext]_recordVars => RecordsInv'
<1> SUFFICES ASSUME RecordsInv, [RecordsNext]_recordVars PROVE RecordsInv'
  OBVIOUS
<1>1. ASSUME NEW c \in Callers,
             \/ \E op \in Calls[c] : Call(c, op)
             \/ create_session(c) \/ RunContainer(c) \/ InsertRecord(c)
             \/ FindRecord(c) \/ destroy_session(c) \/ RemoveRecord(c)
             \/ history(c) \/ WriteHistory(c)
      PROVE  RecordsInv'
  BY <1>1, Step_Call, Step_create_session, Step_RunContainer, Step_InsertRecord, Step_FindRecord,
     Step_destroy_session, Step_RemoveRecord, Step_history, Step_WriteHistory
<1>2. ASSUME NEW s \in Streams,
             \/ stream_message(s) \/ Connect(s) \/ PollEvent(s) \/ begin_finalize(s)
             \/ drop(s) \/ finalize_stream(s) \/ RecordTurn(s)
             \/ KernelTurn(s) \/ KernelTurnEnds(s) \/ KernelStartFails(s)
      PROVE  RecordsInv'
  BY <1>2, Step_stream_message, Step_Connect, Step_PollEvent, Step_begin_finalize, Step_drop,
     Step_finalize_stream, Step_RecordTurn, Step_KernelTurn, Step_KernelTurnEnds,
     Step_KernelStartFails
<1>3. CASE forget_all_sessions
  BY <1>3, Step_forget_all_sessions
<1>4. CASE UNCHANGED recordVars
  BY <1>4 DEF recordVars, RecordsInv, RecordsTypeOK, CopiesInv, Sound
<1> QED
  BY <1>1, <1>2, <1>3, <1>4 DEF RecordsNext

LEMMA RecordsInvariance == RecordsSpec => []RecordsInv
<1> QED
  BY InitRecordsInv, StepRecordsInv, PTL DEF RecordsSpec

(* Every variable keeps its type, whatever is dropped, reset or restarted.   *)
THEOREM RecordsTypeCorrect == RecordsSpec => []RecordsTypeOK
<1>1. RecordsInv => RecordsTypeOK
  BY DEF RecordsInv
<1> QED
  BY <1>1, RecordsInvariance, PTL

(* The stream of a turn puts it at most once into the history of the session *)
(* record, however its finalizer is polled, dropped and respawned, and       *)
(* although create, reset and history put copies of the record back that     *)
(* they took before: for any number of streams, calls and restarts.          *)
THEOREM TurnsRecordedOnce == RecordsSpec => []RecordedOnce
<1>1. ASSUME RecordsInv PROVE RecordedOnce
  <2> SUFFICES ASSUME NEW s \in Streams PROVE Times(s) <= 1
    BY DEF RecordedOnce
  <2> DEFINE at == {i \in DOMAIN record : record[i] = <<s, "stream">>}
  <2>1. CASE record = NoRecord
    BY <2>1 DEF Times
  <2>2. CASE record # NoRecord
    <3>1. Times(s) = Cardinality(at)
      BY <2>2 DEF Times
    <3>2. \A i, j \in at : i = j
      BY <1>1, <2>2 DEF RecordsInv, CopiesInv, Sound, Mine
    <3> HIDE DEF at
    <3>3. CASE at = {}
      BY <3>1, <3>3, FS_EmptySet
    <3>4. CASE at # {}
      <4>1. PICK i : at = {i}
        BY <3>2, <3>4
      <4>2. Cardinality({i}) = 1
        BY FS_Singleton
      <4> QED
        BY <3>1, <4>1, <4>2
    <3> QED
      BY <3>3, <3>4
  <2> QED
    BY <2>1, <2>2
<1> QED
  BY <1>1, RecordsInvariance, PTL

----------------------------------------------------------------------------
(* The terminal.                                                           *)

\* the operations that write the row of a runtime they make
Starting == {"create", "ensure"}

Making == {"create", "adopt", "register", "persist"}

AtSocket == {"upgrade", "attach", "served", "ending", "detach"}

\* the row of a session whose runtime was made names its generation
RowInv ==
  /\ row.life = "never" => row.gen = NoGen /\ \A x \in Tasks : req[x].op \notin Starting
  /\ HasRuntime => row.gen # NoGen

\* what a handler read is no newer than the row, and what it writes back has a generation
ReadInv ==
  \A x \in Tasks :
    /\ req[x].row.life = "there"
    /\ req[x].row.gen # NoGen => row.gen # NoGen
    /\ req[x].pc \in {"call", "apply"} => req[x].row.gen # NoGen
    /\ req[x].pc = "lock" => x \in Controls /\ req[x].op \in {"ensure", "stop", "resume", "delete"}
    /\ x \in Sockets => req[x].op \notin Starting
    /\ req[x].pc \in Making => req[x].op \in Starting
    /\ req[x].op \in Starting => req[x].pc # "idle"
    /\ req[x].pc \in AtSocket => x \in Sockets

\* a handler that makes a runtime holds the lifecycle lock, so that the row is still
\* without a generation when it read none
StartInv ==
  \A x \in Tasks :
    req[x].op \in Starting /\ req[x].pc # "lock" =>
      /\ holder = x
      /\ req[x].row.gen = NoGen /\ req[x].pc \in {"create", "adopt", "register", "persist", "failed"}
           => row.gen = NoGen

\* the job is one its handler waits for
JobInv ==
  /\ job.by # NoTask => req[job.by].pc \in AtHost /\ job.op = JobOp(req[job.by])
  /\ job.pc # "none" => job.by # NoTask
  /\ job.pc \in {"exec", "find"} => job.op = "attach" /\ ~job.last
  /\ job.pc = "unhook" => job.op = "detach"
  /\ job.pc = "act" => job.op \in {"ensure", "stop", "resume"}
  /\ job.op \in {"status", "detach"} => job.last

Attached(a) == client[a] \in Ptys /\ lease[a] = client[a]

\* from the discovery of its client on a socket is attached, or told, or its exec is over
AttachInv ==
  \A a \in Sockets :
    /\ req[a].pc = "served" \/ (job.by = a /\ job.op = "attach" /\ job.last)
         => told[a] # "none" \/ client[a] = "gone" \/ Attached(a)
    /\ job.by = a /\ job.pc = "find"
         => lease[a] = NoPty \/ (lease[a] = NoLease /\ told[a] # "none")

\* a lease accounts for client c, or did
Accounted(c) ==
  \/ c.att \in job.active
  \/ \E a \in job.active : lease[a] = c.id \/ (lease[a] = NoLease /\ told[a] # "none")

\* how far an adoption is with the clients it saw: to be detached, or accounted for
AdoptInv ==
  job.op = "status" =>
    /\ job.pc = "reconcile" => job.seen = job.st.clients
    /\ job.pc \in {"reconcile", "stale", "settle"} =>
         \A c \in job.seen : client[c.att] \in {c.id, "gone"}
    /\ job.pc \in {"stale", "settle"} =>
         \A c \in job.seen : client[c.att] = c.id => c.id \in job.todo \/ Accounted(c)
    /\ job.pc = "settle" => job.todo = {}

Requests ==
  [op : {"none", "ws", "status", "create", "ensure", "stop", "resume", "delete", "kill"},
   pc : ReqPcs, row : Rows, ans : Answers]

Jobs ==
  [by : Tasks \cup {NoTask},
   op : {"none", "status", "ensure", "stop", "resume", "attach", "detach"},
   pc : JobPcs, st : Statuses, todo : SUBSET Ptys, active : SUBSET Sockets,
   seen : SUBSET [id : Ptys, att : Sockets], last : BOOLEAN, resumed : BOOLEAN]

Clients == [Sockets -> Ptys \cup {"none", "starting", "gone"}]

LEMMA TypesOf ==
  ASSUME TypeOK
  PROVE  /\ req \in [Tasks -> Requests] /\ job \in Jobs
         /\ row \in Rows /\ client \in Clients /\ pane \in Panes
         /\ lease \in [Sockets -> Ptys \cup {NoPty, NoLease}]
         /\ told \in [Sockets -> {"none", "ended", "error"}]
         /\ holder \in Controls \cup {NoTask}
<1> QED BY DEF TypeOK, Requests, Jobs, Clients

LEMMA Distinct ==
  /\ NoTask \notin Tasks
  /\ \A x \in Controls : x \notin Sockets
  /\ NoPty \notin Ptys /\ NoLease \notin Ptys /\ NoPty # NoLease
  /\ "none" \notin Ptys /\ "starting" \notin Ptys /\ "gone" \notin Ptys
  /\ NoGen \notin Nat /\ 0 # NoGen /\ 1 # NoGen
<1>1. 0 \in Nat /\ 1 \in Nat
  OBVIOUS
<1> QED BY <1>1, TerminalAssumption DEF Tasks

LEMMA RequestFields ==
  ASSUME req \in [Tasks -> Requests], NEW x \in Tasks
  PROVE  /\ req[x] \in Requests
         /\ req[x].op \in {"none", "ws", "status", "create", "ensure", "stop", "resume", "delete", "kill"}
         /\ req[x].pc \in ReqPcs /\ req[x].row \in Rows /\ req[x].ans \in Answers
<1>1. req[x] \in Requests
  OBVIOUS
<1> QED BY <1>1 DEF Requests

LEMMA JobFields ==
  ASSUME job \in Jobs
  PROVE  /\ job.by \in Tasks \cup {NoTask}
         /\ job.op \in {"none", "status", "ensure", "stop", "resume", "attach", "detach"}
         /\ job.pc \in JobPcs /\ job.st \in Statuses /\ job.todo \in SUBSET Ptys
         /\ job.active \in SUBSET Sockets /\ job.seen \in SUBSET [id : Ptys, att : Sockets]
         /\ job.last \in BOOLEAN /\ job.resumed \in BOOLEAN
<1> QED BY DEF Jobs

LEMMA RowFields ==
  ASSUME NEW r \in Rows
  PROVE  /\ r.life \in {"never", "there", "deleted"} /\ r.gen \in Gens /\ r.runtime \in Runtime
<1> QED BY DEF Rows

LEMMA NewRowTyped == NewRow \in Rows /\ NewRow.life = "there" /\ NewRow.gen = NoGen
                     /\ NewRow.runtime = "starting"
<1> QED BY DEF NewRow, Rows, Gens, Runtime

LEMMA NoReqTyped ==
  /\ NoReq \in Requests
  /\ NoReq.op = "none" /\ NoReq.pc = "idle" /\ NoReq.row = NewRow /\ NoReq.ans = NoAnswer
<1>1. NoAnswer \in Answers
  BY DEF NoAnswer, Answers, Panes
<1>2. "idle" \in ReqPcs
  BY DEF ReqPcs
<1> QED BY <1>1, <1>2, NewRowTyped DEF NoReq, Requests

LEMMA RestTyped ==
  ASSUME NEW x \in Tasks
  PROVE  /\ Rest(x) \in Requests
         /\ Rest(x).op = "none" /\ Rest(x).row = NewRow
         /\ Rest(x).pc = IF x \in Sockets THEN "done" ELSE "idle"
<1>1. "done" \in ReqPcs /\ "idle" \in ReqPcs
  BY DEF ReqPcs
<1>2. PICK p \in {"done", "idle"} : p = IF x \in Sockets THEN "done" ELSE "idle"
  OBVIOUS
<1>3. Rest(x) = [NoReq EXCEPT !.pc = p]
  BY <1>2 DEF Rest
<1> QED BY <1>1, <1>2, <1>3, NoReqTyped DEF Requests

LEMMA NoJobTyped ==
  /\ NoJob \in Jobs
  /\ NoJob.by = NoTask /\ NoJob.op = "none" /\ NoJob.pc = "none" /\ NoJob.todo = {}
  /\ NoJob.active = {} /\ NoJob.seen = {} /\ NoJob.last = FALSE /\ NoJob.st = NoStatus
<1>1. NoStatus \in Statuses
  BY DEF NoStatus, Statuses, Panes
<1>2. "none" \in JobPcs
  BY DEF JobPcs
<1> QED BY <1>1, <1>2 DEF NoJob, Jobs

LEMMA ObservedTyped ==
  ASSUME NEW p \in Panes, NEW cl \in Clients
  PROVE  /\ Observed(p, cl) \in Statuses
         /\ Observed(p, cl).state = p
         /\ Observed(p, cl).clients \in SUBSET [id : Ptys, att : Sockets]
         /\ \A c \in Observed(p, cl).clients : cl[c.att] = c.id
<1> DEFINE C == {[id |-> cl[a], att |-> a] : a \in {b \in Sockets : cl[b] \in Ptys}}
<1>1. C \in SUBSET [id : Ptys, att : Sockets]
  OBVIOUS
<1>2. Observed(p, cl) = [state |-> p, clients |-> C]
  BY DEF Observed
<1>3. \A c \in C : cl[c.att] = c.id
  OBVIOUS
<1> HIDE DEF C
<1> QED BY <1>1, <1>2, <1>3 DEF Statuses

----------------------------------------------------------------------------
(* What the steps do to the requests.                                      *)

\* request x moves to pc; its operation and the row it read stay
Passes(x, pc) ==
  /\ req' \in [Tasks -> Requests]
  /\ req'[x].pc = pc /\ req'[x].op = req[x].op /\ req'[x].row = req[x].row
  /\ \A y \in Tasks \ {x} : req'[y] = req[y]

LEMMA GotoPasses ==
  ASSUME req \in [Tasks -> Requests], NEW x \in Tasks, NEW pc \in ReqPcs, Goto(x, pc)
  PROVE  Passes(x, pc)
<1>1. PICK r : r = [req[x] EXCEPT !.pc = pc]
  OBVIOUS
<1>2. req[x] \in Requests
  OBVIOUS
<1>3. r \in Requests /\ r.pc = pc /\ r.op = req[x].op /\ r.row = req[x].row
  BY <1>1, <1>2 DEF Requests
<1>4. req' = [req EXCEPT ![x] = r]
  BY <1>1 DEF Goto
<1> QED BY <1>3, <1>4 DEF Passes

LEMMA OutcomePasses ==
  ASSUME req \in [Tasks -> Requests], NEW x \in Tasks, NEW ok \in BOOLEAN, NEW ans \in Answers,
         req[x].pc \in AtHost, req' = [req EXCEPT ![x] = Outcome(req[x], ok, ans)]
  PROVE  Passes(x, IF ok THEN OnOk[req[x].pc] ELSE OnError[req[x].pc])
<1>1. PICK pc : pc = IF ok THEN OnOk[req[x].pc] ELSE OnError[req[x].pc]
  OBVIOUS
<1>2. PICK an : an = IF ok /\ req[x].pc = "call" THEN ans ELSE req[x].ans
  OBVIOUS
<1>3. pc \in ReqPcs
  BY <1>1 DEF OnOk, OnError, AtHost, ReqPcs
<1>4. PICK r : r = Outcome(req[x], ok, ans)
  OBVIOUS
<1>5. req[x] \in Requests
  OBVIOUS
<1>6. r = [req[x] EXCEPT !.pc = pc, !.ans = an]
  BY <1>1, <1>2, <1>4 DEF Outcome
<1>7. an \in Answers
  BY <1>2, <1>5 DEF Requests
<1>8. r \in Requests /\ r.pc = pc /\ r.op = req[x].op /\ r.row = req[x].row
  BY <1>3, <1>5, <1>6, <1>7 DEF Requests
<1>9. req' = [req EXCEPT ![x] = r]
  BY <1>4
<1> QED BY <1>1, <1>8, <1>9 DEF Passes

\* the handler x is over, and everything but its own request and guard stays
Returned(x) ==
  /\ req' \in [Tasks -> Requests]
  /\ req'[x].op = "none" /\ req'[x].row = NewRow
  /\ req'[x].pc = IF x \in Sockets THEN "done" ELSE "idle"
  /\ \A y \in Tasks \ {x} : req'[y] = req[y]
  /\ holder' = IF holder = x THEN NoTask ELSE holder

LEMMA ReturnReturns ==
  ASSUME req \in [Tasks -> Requests], NEW x \in Tasks, Return(x)
  PROVE  Returned(x)
<1> QED BY RestTyped DEF Return, Returned

LEMMA AnswerTyped ==
  ASSUME job \in Jobs, NEW st \in Statuses
  PROVE  [state |-> st.state, resumed |-> job.resumed] \in Answers
<1> QED BY JobFields DEF Statuses, Answers

\* the job is over, and the handler that asked for it goes on
LEMMA EndPasses ==
  ASSUME req \in [Tasks -> Requests], job \in Jobs, JobInv, job.by # NoTask,
         NEW ok \in BOOLEAN, NEW st \in Statuses, End(ok, st)
  PROVE  /\ job' = NoJob
         /\ \/ ok /\ Passes(job.by, OnOk[req[job.by].pc])
            \/ Passes(job.by, OnError[req[job.by].pc])
<1>1. PICK x \in Tasks : x = job.by
  BY JobFields
<1>2. PICK good \in BOOLEAN : good = (ok /\ (req[x].pc = "upgrade" => st.state = "running"))
  OBVIOUS
<1>3. PICK ans \in Answers : ans = [state |-> st.state, resumed |-> job.resumed]
  BY AnswerTyped
<1>4. req' = [req EXCEPT ![x] = Outcome(req[x], good, ans)]
  BY <1>1, <1>2, <1>3 DEF End
<1>5. req[x].pc \in AtHost
  BY <1>1 DEF JobInv
<1>6. Passes(x, IF good THEN OnOk[req[x].pc] ELSE OnError[req[x].pc])
  BY <1>4, <1>5, OutcomePasses
<1>7. job' = NoJob
  BY DEF End
<1> QED BY <1>1, <1>2, <1>6, <1>7

RecInv == RowInv /\ ReadInv /\ StartInv

Begins == {"create", "adopt", "register", "persist", "failed"}

\* moves that the invariants of the row allow without looking at the row
Later(p, q) ==
  /\ p # "lock" /\ q # "lock" /\ q # "idle"
  /\ q \in {"call", "apply"} => p \in {"call", "apply"}
  /\ q \in Begins => p \in Begins \cup {"call", "apply"}
  /\ q \in Making => p \in Making
  /\ q \in AtSocket => p \in AtSocket

LEMMA PassRec ==
  ASSUME TypeOK, RecInv, NEW x \in Tasks, NEW pc, Passes(x, pc), Later(req[x].pc, pc),
         UNCHANGED <<row, holder>>
  PROVE  RecInv'
<1>1. \A y \in Tasks : req'[y].op = req[y].op /\ req'[y].row = req[y].row
  BY DEF Passes
<1>2. RowInv'
  BY <1>1 DEF RecInv, RowInv, HasRuntime, RowThere
<1>3. ReadInv'
  BY <1>1 DEF RecInv, ReadInv, Passes, Later
<1>4. StartInv'
  <2> SUFFICES ASSUME NEW y \in Tasks, req'[y].op \in Starting, req'[y].pc # "lock"
               PROVE  /\ holder = y
                      /\ req'[y].row.gen = NoGen /\ req'[y].pc \in Begins => row.gen = NoGen
    BY DEF StartInv, Begins
  <2>1. req[y].op \in Starting /\ req[y].pc # "lock"
    BY <1>1 DEF Passes, Later
  <2>2. holder = y /\ (req[y].row.gen = NoGen /\ req[y].pc \in Begins => row.gen = NoGen)
    BY <2>1 DEF RecInv, StartInv, Begins
  <2>3. req'[y].pc \in Begins => req[y].pc \in Begins \cup {"call", "apply"}
    BY DEF Passes, Later
  <2>4. req[y].pc \in {"call", "apply"} => req[y].row.gen # NoGen
    BY DEF RecInv, ReadInv
  <2> QED BY <1>1, <2>2, <2>3, <2>4
<1> QED BY <1>2, <1>3, <1>4 DEF RecInv

\* what a write of the row keeps
RowWritten ==
  /\ row'.gen = NoGen <=> row.gen = NoGen
  /\ row'.life = "never" => row.life = "never"
  /\ HasRuntime' => row'.gen # NoGen

LEMMA SameRowWritten ==
  ASSUME RecInv, row' = row
  PROVE  RowWritten
<1> QED BY DEF RecInv, RowInv, RowWritten, HasRuntime, RowThere

LEMMA ReturnRec ==
  ASSUME TypeOK, RecInv, NEW x \in Tasks, Returned(x), RowWritten
  PROVE  RecInv'
<1>1. \A y \in Tasks \ {x} : req'[y] = req[y]
  BY DEF Returned
<1>2. req'[x].op \notin Starting /\ req'[x].row = NewRow /\ req'[x].pc \in {"done", "idle"}
  BY DEF Returned, Starting
<1>3. RowInv'
  BY <1>1, <1>2 DEF RecInv, RowInv, RowWritten
<1>4. ReadInv'
  <2> SUFFICES ASSUME NEW y \in Tasks
               PROVE  /\ req'[y].row.life = "there"
                      /\ req'[y].row.gen # NoGen => row'.gen # NoGen
                      /\ req'[y].pc \in {"call", "apply"} => req'[y].row.gen # NoGen
                      /\ req'[y].pc = "lock" => y \in Controls /\ req'[y].op \in {"ensure", "stop", "resume", "delete"}
                      /\ y \in Sockets => req'[y].op \notin Starting
                      /\ req'[y].pc \in Making => req'[y].op \in Starting
                      /\ req'[y].op \in Starting => req'[y].pc # "idle"
                      /\ req'[y].pc \in AtSocket => y \in Sockets
    BY DEF ReadInv
  <2>1. CASE y = x
    BY <2>1, <1>2, NewRowTyped DEF Making, AtSocket
  <2>2. CASE y # x
    BY <2>2, <1>1 DEF RecInv, ReadInv, RowWritten
  <2> QED BY <2>1, <2>2
<1>5. StartInv'
  BY <1>1, <1>2 DEF RecInv, StartInv, RowWritten, Returned
<1> QED BY <1>3, <1>4, <1>5 DEF RecInv

\* a new request, or one that has waited for the lock, with the row it read
LEMMA PutRec ==
  ASSUME TypeOK, RecInv, RowWritten, NEW x \in Tasks, NEW r \in Requests,
         req' = [req EXCEPT ![x] = r],
         r.row.life = "there", r.row.gen # NoGen => row'.gen # NoGen,
         r.pc \in {"call", "apply"} => r.row.gen # NoGen,
         r.pc = "lock" => x \in Controls /\ r.op \in {"ensure", "stop", "resume", "delete"},
         x \in Sockets => r.op \notin Starting,
         r.pc \in Making => r.op \in Starting,
         r.pc # "idle", r.pc \in AtSocket => x \in Sockets,
         r.op \in Starting => row'.life # "never",
         r.op \in Starting /\ r.pc # "lock" =>
           /\ holder' = x
           /\ r.row.gen = NoGen /\ r.pc \in Begins => row'.gen = NoGen,
         holder' = holder \/ holder = NoTask
  PROVE  RecInv'
<1>1. req'[x] = r /\ \A y \in Tasks \ {x} : req'[y] = req[y]
  BY DEF TypeOK
<1>2. RowInv'
  <2>1. row'.life = "never" => \A y \in Tasks : req'[y].op \notin Starting
    BY <1>1 DEF RecInv, RowInv, RowWritten
  <2>2. row'.life = "never" => row'.gen = NoGen
    BY DEF RecInv, RowInv, RowWritten
  <2> QED BY <2>1, <2>2 DEF RowInv, RowWritten
<1>3. ReadInv'
  <2> SUFFICES ASSUME NEW y \in Tasks
               PROVE  /\ req'[y].row.life = "there"
                      /\ req'[y].row.gen # NoGen => row'.gen # NoGen
                      /\ req'[y].pc \in {"call", "apply"} => req'[y].row.gen # NoGen
                      /\ req'[y].pc = "lock" => y \in Controls /\ req'[y].op \in {"ensure", "stop", "resume", "delete"}
                      /\ y \in Sockets => req'[y].op \notin Starting
                      /\ req'[y].pc \in Making => req'[y].op \in Starting
                      /\ req'[y].op \in Starting => req'[y].pc # "idle"
                      /\ req'[y].pc \in AtSocket => y \in Sockets
    BY DEF ReadInv
  <2>1. CASE y = x
    BY <2>1, <1>1
  <2>2. CASE y # x
    BY <2>2, <1>1 DEF RecInv, ReadInv, RowWritten
  <2> QED BY <2>1, <2>2
<1>4. StartInv'
  <2> SUFFICES ASSUME NEW y \in Tasks, req'[y].op \in Starting, req'[y].pc # "lock"
               PROVE  /\ holder' = y
                      /\ req'[y].row.gen = NoGen /\ req'[y].pc \in Begins => row'.gen = NoGen
    BY DEF StartInv, Begins
  <2>1. CASE y = x
    BY <2>1, <1>1
  <2>2. CASE y # x
    <3>1. holder = y /\ holder # NoTask
      BY <2>2, <1>1, Distinct DEF RecInv, StartInv
    <3> QED BY <2>2, <1>1, <3>1 DEF RecInv, StartInv, RowWritten, Begins
  <2> QED BY <2>1, <2>2
<1> QED BY <1>2, <1>3, <1>4 DEF RecInv

LEMMA JobRequests ==
  ASSUME TypeOK, JobInv, JobStep
  PROVE  /\ UNCHANGED <<row, holder>>
         /\ \/ UNCHANGED req
            \/ /\ job.by \in Tasks /\ req[job.by].pc \in AtHost /\ job' = NoJob
               /\ \/ Passes(job.by, OnOk[req[job.by].pc])
                  \/ Passes(job.by, OnError[req[job.by].pc])
<1>1. req \in [Tasks -> Requests] /\ job \in Jobs
  BY TypesOf
<1>2. job.st \in Statuses
  BY <1>1, JobFields
<1>3. job.pc # "none" => job.by \in Tasks /\ job.by # NoTask /\ req[job.by].pc \in AtHost
  BY <1>1, JobFields DEF JobInv
<1>4. ASSUME NEW ok \in BOOLEAN, End(ok, job.st), job.pc # "none"
      PROVE  /\ job.by \in Tasks /\ req[job.by].pc \in AtHost /\ job' = NoJob
             /\ \/ Passes(job.by, OnOk[req[job.by].pc])
                \/ Passes(job.by, OnError[req[job.by].pc])
  BY <1>1, <1>2, <1>3, <1>4, EndPasses
<1>5. CASE GetStatus \/ Reconcile \/ DetachStale \/ Act \/ Find \/ Unhook
  BY <1>5 DEF GetStatus, Reconcile, DetachStale, Act, Find, Unhook, clientVars
<1>6. CASE Settle
  <2>1. job.pc # "none" /\ UNCHANGED <<row, holder>>
    BY <1>6 DEF Settle, clientVars
  <2>2. UNCHANGED req \/ End(TRUE, job.st) \/ End(FALSE, job.st)
    BY <1>6 DEF Settle
  <2> QED BY <2>1, <2>2, <1>4
<1>7. CASE ResumeRefused \/ FindFails \/ CallFails
  <2>1. job.pc # "none" /\ UNCHANGED <<row, holder>> /\ End(FALSE, job.st)
    BY <1>7 DEF ResumeRefused, FindFails, CallFails, clientVars
  <2> QED BY <2>1, <1>4
<1>8. CASE Exec
  <2>1. job.pc # "none" /\ UNCHANGED <<row, holder>>
    BY <1>8 DEF Exec, clientVars
  <2>2. UNCHANGED req \/ End(FALSE, job.st)
    BY <1>8 DEF Exec
  <2> QED BY <2>1, <2>2, <1>4
<1> QED BY <1>5, <1>6, <1>7, <1>8 DEF JobStep

LEMMA OutcomeLater ==
  ASSUME NEW p \in AtHost
  PROVE  Later(p, OnOk[p]) /\ Later(p, OnError[p])
<1> QED BY DEF AtHost, OnOk, OnError, Later, Making, AtSocket, Begins

LEMMA JobRec ==
  ASSUME TypeOK, RecInv, JobInv, JobStep
  PROVE  RecInv'
<1>1. CASE UNCHANGED req
  BY <1>1, JobRequests DEF RecInv, RowInv, ReadInv, StartInv, HasRuntime, RowThere
<1>2. CASE ~UNCHANGED req
  <2>1. PICK x \in Tasks : x = job.by
    BY <1>2, JobRequests
  <2>2. PICK pc : Passes(x, pc) /\ pc \in {OnOk[req[x].pc], OnError[req[x].pc]}
    BY <1>2, <2>1, JobRequests
  <2>3. Later(req[x].pc, pc)
    BY <1>2, <2>1, <2>2, JobRequests, OutcomeLater
  <2> QED BY <2>2, <2>3, JobRequests, PassRec
<1> QED BY <1>1, <1>2

LEMMA StutterRec ==
  ASSUME RecInv, UNCHANGED <<row, holder, req>>
  PROVE  RecInv'
<1> QED BY DEF RecInv, RowInv, ReadInv, StartInv, HasRuntime, RowThere

LEMMA AskRec ==
  ASSUME TypeOK, RecInv, NEW x \in Tasks, Ask(x)
  PROVE  RecInv'
<1>1. NoReq \in Requests /\ NoReq.op = "none" /\ NoReq.pc = "idle" /\ NoReq.row = NewRow
  BY NoReqTyped
<1>2. NewRow \in Rows /\ NewRow.life = "there" /\ NewRow.gen = NoGen /\ NewRow.runtime = "starting"
  BY NewRowTyped
<1>3. row \in Rows
  BY TypesOf
<1>4. CASE AskUnlocked(x)
  <2>1. PICK op \in {"ws", "status"} : op = IF x \in Sockets THEN "ws" ELSE "status"
    OBVIOUS
  <2>2. PICK r : r = [NoReq EXCEPT !.op = op, !.pc = "call", !.row = row]
    OBVIOUS
  <2>3. r \in Requests /\ r.op = op /\ r.pc = "call" /\ r.row = row
    BY <1>1, <1>3, <2>2 DEF Requests, ReqPcs, AtHost
  <2>4. req' = [req EXCEPT ![x] = r] /\ HasRuntime /\ UNCHANGED <<row, holder>>
    BY <1>4, <2>1, <2>2 DEF AskUnlocked, clientVars
  <2>5. RowWritten
    BY <2>4, SameRowWritten
  <2>6. row.life = "there" /\ row.gen # NoGen
    BY <2>4 DEF HasRuntime, RowThere, RecInv, RowInv
  <2>7. op \notin Starting
    BY DEF Starting
  <2>8. r.pc \notin Making \cup AtSocket /\ r.pc # "lock" /\ r.pc # "idle"
    BY <2>3 DEF Making, AtSocket
  <2> QED BY <2>3, <2>4, <2>5, <2>6, <2>7, <2>8, PutRec
<1>5. CASE x \in Controls /\ CreateCli(x)
  <2>1. PICK r : r = [NoReq EXCEPT !.op = "create", !.pc = "create"]
    OBVIOUS
  <2>2. r \in Requests /\ r.op = "create" /\ r.pc = "create" /\ r.row = NewRow
    BY <1>1, <2>1 DEF Requests, ReqPcs
  <2>3. req' = [req EXCEPT ![x] = r] /\ row.life = "never" /\ row' = NewRow /\ holder' = x
    BY <1>5, <2>1 DEF CreateCli
  <2>4. row.gen = NoGen /\ \A y \in Tasks : req[y].op \notin Starting
    BY <2>3 DEF RecInv, RowInv
  <2>5. req'[x] = r /\ \A y \in Tasks \ {x} : req'[y] = req[y]
    BY <2>3 DEF TypeOK
  <2>6. \A y \in Tasks : req[y].row.gen = NoGen
    BY <2>4 DEF RecInv, ReadInv
  <2>7. x \notin Sockets
    BY <1>5, Distinct
  <2>8. RowInv'
    BY <2>3, <1>2 DEF RowInv, HasRuntime, RowThere
  <2>9. ReadInv'
    <3> SUFFICES ASSUME NEW y \in Tasks
                 PROVE  /\ req'[y].row.life = "there"
                        /\ req'[y].row.gen # NoGen => row'.gen # NoGen
                        /\ req'[y].pc \in {"call", "apply"} => req'[y].row.gen # NoGen
                        /\ req'[y].pc = "lock" => y \in Controls /\ req'[y].op \in {"ensure", "stop", "resume", "delete"}
                        /\ y \in Sockets => req'[y].op \notin Starting
                        /\ req'[y].pc \in Making => req'[y].op \in Starting
                        /\ req'[y].op \in Starting => req'[y].pc # "idle"
                        /\ req'[y].pc \in AtSocket => y \in Sockets
      BY DEF ReadInv
    <3>1. CASE y = x
      <4>1. req'[y].row = NewRow /\ req'[y].pc = "create"
        BY <3>1, <2>5, <2>2
      <4>2. req'[y].op \in Starting
        BY <3>1, <2>5, <2>2 DEF Starting
      <4> QED BY <3>1, <4>1, <4>2, <2>7, <1>2 DEF AtSocket
    <3>2. CASE y # x
      BY <3>2, <2>5, <2>6 DEF RecInv, ReadInv
    <3> QED BY <3>1, <3>2
  <2>10. StartInv'
    BY <2>2, <2>3, <2>4, <2>5, <1>2 DEF StartInv
  <2> QED BY <2>8, <2>9, <2>10 DEF RecInv
<1>6. ASSUME x \in Controls, NEW op \in {"ensure", "stop", "resume", "delete", "kill"}, NEW pc \in {"lock", "forget"},
             op \in Starting => pc = "lock" /\ row.life # "never", pc = "lock" => op # "kill",
             req' = [req EXCEPT ![x] = [NoReq EXCEPT !.op = op, !.pc = pc]],
             UNCHANGED <<row, holder>>
      PROVE  RecInv'
  <2>1. PICK r : r = [NoReq EXCEPT !.op = op, !.pc = pc]
    OBVIOUS
  <2>2. r \in Requests /\ r.op = op /\ r.pc = pc /\ r.row = NewRow
    BY <1>1, <2>1 DEF Requests, ReqPcs
  <2>3. req' = [req EXCEPT ![x] = r] /\ UNCHANGED <<row, holder>>
    BY <1>6, <2>1
  <2>4. RowWritten
    BY <2>3, SameRowWritten
  <2>5. x \notin Sockets
    BY <1>6, Distinct
  <2>6. r.row.life = "there" /\ r.row.gen = NoGen /\ r.pc \notin {"call", "apply"} \cup Begins
    BY <1>2, <2>2 DEF Begins
  <2>7. r.pc = "lock" => x \in Controls /\ r.op \in {"ensure", "stop", "resume", "delete"}
    BY <1>6, <2>2
  <2>8. r.op \in Starting => r.pc = "lock" /\ row'.life # "never"
    BY <1>6, <2>2, <2>3
  <2>9. r.pc \notin Making \cup AtSocket /\ r.pc # "idle"
    BY <1>6, <2>2 DEF Making, AtSocket
  <2> QED BY <1>6, <2>3, <2>4, <2>5, <2>6, <2>7, <2>8, <2>9, <2>2, PutRec
<1>7. CASE x \in Controls /\ AskEnsure(x)
  BY <1>6, <1>7 DEF AskEnsure, RowThere, clientVars
<1>8. CASE x \in Controls /\ AskKill(x)
  BY <1>6, <1>8 DEF AskKill, clientVars, Starting
<1>9. ASSUME x \in Controls, NEW op \in Ops, AskLocked(x, op) PROVE RecInv'
  <2>1. op \in {"stop", "resume", "delete"}
    BY <1>9 DEF AskLocked
  <2> QED BY <1>6, <1>9, <2>1 DEF AskLocked, clientVars, Starting
<1> QED BY <1>4, <1>5, <1>7, <1>8, <1>9 DEF Ask

LEMMA AcquireRec ==
  ASSUME TypeOK, RecInv, NEW x \in Tasks, Acquire(x)
  PROVE  RecInv'
<1>1. req \in [Tasks -> Requests] /\ row \in Rows /\ req[x] \in Requests
  BY TypesOf
<1>2. row' = row /\ req[x].pc = "lock" /\ holder = NoTask
  BY DEF Acquire
<1>3. RowWritten
  BY <1>2, SameRowWritten
<1>4. CASE Admitted(req[x].op)
  <2>1. PICK pc : pc = AfterLock(req[x].op)
    OBVIOUS
  <2>2. PICK rr : rr = IF req[x].op = "delete" THEN NewRow ELSE row
    OBVIOUS
  <2>3. PICK r : r = [req[x] EXCEPT !.pc = pc, !.row = rr]
    OBVIOUS
  <2>4. pc \in ReqPcs /\ rr \in Rows
    BY <1>1, <2>1, <2>2, NewRowTyped DEF AfterLock, ReqPcs, AtHost
  <2>5. r \in Requests /\ r.pc = pc /\ r.row = rr /\ r.op = req[x].op
    BY <1>1, <2>3, <2>4 DEF Requests
  <2>6. holder' = x /\ req' = [req EXCEPT ![x] = r]
    BY <1>4, <2>1, <2>2, <2>3 DEF Acquire
  <2>7. x \notin Sockets
    BY <1>2, Distinct DEF RecInv, ReadInv
  <2>8. row.life = "there"
    BY <1>4 DEF Admitted, HasRuntime, RowThere
  <2>9. pc = "call" => req[x].op # "ensure" /\ req[x].op # "delete"
    BY <2>1 DEF AfterLock
  <2>10. pc # "lock" /\ pc # "idle" /\ pc # "apply" /\ (pc = "call" => row.gen # NoGen)
    <3>1. req[x].op \in {"ensure", "stop", "resume", "delete"}
      BY <1>2 DEF RecInv, ReadInv
    <3>2. pc # "lock" /\ pc # "idle" /\ pc # "apply"
      BY <2>1, <3>1 DEF AfterLock
    <3>3. pc = "call" => req[x].op \in {"stop", "resume"}
      BY <2>9, <3>1
    <3> QED BY <1>4, <3>2, <3>3 DEF Admitted, RecInv, RowInv
  <2>11. r.row.life = "there" /\ (r.row.gen # NoGen => row'.gen # NoGen)
    BY <1>2, <2>2, <2>5, <2>8, NewRowTyped
  <2>12. r.op \in Starting => r.row = row /\ row'.life # "never"
    BY <1>2, <2>2, <2>5, <2>8 DEF Starting
  <2>13. r.pc \in {"call", "apply"} => r.row.gen # NoGen
    BY <2>2, <2>5, <2>9, <2>10
  <2>14. r.op \in Starting /\ r.pc # "lock" =>
           /\ holder' = x
           /\ r.row.gen = NoGen /\ r.pc \in Begins => row'.gen = NoGen
    BY <1>2, <2>6, <2>12
  <2>15. r.pc \in Making => r.op \in Starting
    <3>1. req[x].op \in {"ensure", "stop", "resume", "delete"}
      BY <1>2 DEF RecInv, ReadInv
    <3> QED BY <2>1, <2>5, <3>1 DEF AfterLock, Starting, Making
  <2>16. r.pc \notin AtSocket
    <3>1. req[x].op \in {"ensure", "stop", "resume", "delete"}
      BY <1>2 DEF RecInv, ReadInv
    <3> QED BY <2>1, <2>5, <3>1 DEF AfterLock, AtSocket
  <2> QED BY <1>2, <1>3, <2>5, <2>6, <2>7, <2>10, <2>11, <2>12, <2>13, <2>14, <2>15, <2>16, PutRec
<1>5. CASE ~Admitted(req[x].op)
  BY <1>1, <1>3, <1>5, ReturnReturns, ReturnRec DEF Acquire
<1> QED BY <1>4, <1>5

LEMMA GotoRec ==
  ASSUME TypeOK, RecInv, NEW x \in Tasks, NEW pc \in ReqPcs, Goto(x, pc), Later(req[x].pc, pc),
         UNCHANGED <<row, holder>>
  PROVE  RecInv'
<1> QED BY TypesOf, GotoPasses, PassRec

LEMMA PersistedTyped ==
  ASSUME NEW r \in Rows
  PROVE  Persisted(r) \in Rows /\ Persisted(r).gen # NoGen /\ Persisted(r).life = r.life
<1>1. PICK g : g = IF r.gen = NoGen THEN 0 ELSE r.gen
  OBVIOUS
<1>2. Persisted(r) = [r EXCEPT !.gen = g, !.runtime = "live"]
  BY <1>1 DEF Persisted
<1>3. g \in Gens /\ g # NoGen
  BY <1>1, Distinct, TerminalAssumption DEF Rows, Gens
<1> QED BY <1>2, <1>3 DEF Rows, Runtime

LEMMA PersistRec ==
  ASSUME TypeOK, RecInv, NEW x \in Tasks, Persist(x)
  PROVE  RecInv'
<1>1. req \in [Tasks -> Requests] /\ req[x] \in Requests /\ req[x].row \in Rows
  BY TypesOf, RequestFields
<1>2. PICK w : w = Persisted(req[x].row)
  OBVIOUS
<1>6. w \in Rows /\ w.gen # NoGen /\ w.life = req[x].row.life
  BY <1>1, <1>2, PersistedTyped
<1>7. PICK r : r = [req[x] EXCEPT !.pc = "call", !.row = w]
  OBVIOUS
<1>8. r \in Requests /\ r.pc = "call" /\ r.row = w /\ r.op = req[x].op
  BY <1>1, <1>6, <1>7 DEF Requests, ReqPcs, AtHost
<1>9. req' = [req EXCEPT ![x] = r] /\ row' = w /\ holder' = holder /\ req[x].pc = "persist"
  BY <1>2, <1>7 DEF Persist
<1>10. req'[x] = r /\ \A y \in Tasks \ {x} : req'[y] = req[y]
  BY <1>1, <1>9
<1>11. holder = x /\ w.life = "there"
  <2>1. req[x].op \in Starting /\ req[x].row.life = "there"
    BY <1>9 DEF RecInv, ReadInv, Making
  <2> QED BY <1>6, <1>9, <2>1 DEF RecInv, StartInv
<1>12. RowInv'
  BY <1>6, <1>9, <1>11 DEF RowInv, HasRuntime
<1>13. ReadInv'
  <2> SUFFICES ASSUME NEW y \in Tasks
               PROVE  /\ req'[y].row.life = "there"
                      /\ req'[y].row.gen # NoGen => row'.gen # NoGen
                      /\ req'[y].pc \in {"call", "apply"} => req'[y].row.gen # NoGen
                      /\ req'[y].pc = "lock" => y \in Controls /\ req'[y].op \in {"ensure", "stop", "resume", "delete"}
                      /\ y \in Sockets => req'[y].op \notin Starting
                      /\ req'[y].pc \in Making => req'[y].op \in Starting
                      /\ req'[y].op \in Starting => req'[y].pc # "idle"
                      /\ req'[y].pc \in AtSocket => y \in Sockets
    BY DEF ReadInv
  <2>1. CASE y = x
    BY <2>1, <1>6, <1>8, <1>9, <1>10, <1>11 DEF RecInv, ReadInv, Making, AtSocket
  <2>2. CASE y # x
    BY <2>2, <1>6, <1>9, <1>10 DEF RecInv, ReadInv
  <2> QED BY <2>1, <2>2
<1>14. StartInv'
  <2> SUFFICES ASSUME NEW y \in Tasks, req'[y].op \in Starting, req'[y].pc # "lock"
               PROVE  y = x
    BY <1>8, <1>9, <1>10, <1>11 DEF StartInv
  <2> QED BY <1>10, <1>11 DEF RecInv, StartInv
<1> QED BY <1>12, <1>13, <1>14 DEF RecInv

LEMMA MarkErrorRec ==
  ASSUME TypeOK, RecInv, NEW x \in Tasks, MarkError(x)
  PROVE  RecInv'
<1>1. req \in [Tasks -> Requests] /\ req[x].row \in Rows
  BY TypesOf, RequestFields
<1>2. Returned(x) /\ req[x].pc = "failed"
  BY <1>1, ReturnReturns DEF MarkError
<1>3. CASE req[x].op \in Starting /\ RowThere
  <2>1. PICK w : w = [req[x].row EXCEPT !.runtime = "error"]
    OBVIOUS
  <2>2. w.life = req[x].row.life /\ w.gen = req[x].row.gen /\ w.runtime = "error"
    BY <1>1, <2>1 DEF Rows
  <2>3. row' = w
    BY <1>3, <2>1 DEF MarkError, Starting
  <2>4. w.gen = NoGen <=> row.gen = NoGen
    BY <1>2, <1>3, <2>2 DEF RecInv, ReadInv, StartInv
  <2>5. w.life = "there"
    BY <2>2 DEF RecInv, ReadInv
  <2>6. RowWritten
    BY <2>2, <2>3, <2>4, <2>5 DEF RowWritten, HasRuntime
  <2> QED BY <1>2, <2>6, ReturnRec
<1>4. CASE ~(req[x].op \in Starting /\ RowThere)
  BY <1>2, <1>4, SameRowWritten, ReturnRec DEF MarkError, Starting
<1> QED BY <1>3, <1>4

LEMMA AdvancedGen ==
  ASSUME NEW r \in Rows, r.gen # NoGen, NEW resumed \in BOOLEAN, NEW state \in Panes
  PROVE  LET new == [Advanced(r, resumed) EXCEPT !.runtime = RuntimeOf(state)]
         IN  new \in Rows /\ new.gen # NoGen /\ new.life = r.life
<1>1. PICK g : g = IF resumed THEN IF r.gen = MaxGen THEN MaxGen ELSE r.gen + 1 ELSE r.gen
  OBVIOUS
<1>2. r.gen \in 0..MaxGen /\ MaxGen \in Nat
  BY TerminalAssumption DEF Rows, Gens
<1>3. g \in 0..MaxGen
  BY <1>1, <1>2
<1>4. g \in Gens /\ g # NoGen
  BY <1>2, <1>3, Distinct DEF Gens
<1>5. PICK rt : rt = RuntimeOf(state)
  OBVIOUS
<1>6. rt \in Runtime
  BY <1>5 DEF RuntimeOf, Panes, Runtime
<1>7. PICK ad : ad = Advanced(r, resumed)
  OBVIOUS
<1>8. ad \in Rows /\ ad.gen = g /\ ad.life = r.life
  <2>1. CASE resumed
    <3>1. ad = [r EXCEPT !.gen = g]
      BY <1>1, <1>7, <2>1 DEF Advanced
    <3> QED BY <3>1, <1>4 DEF Rows
  <2>2. CASE ~resumed
    BY <1>1, <1>7, <2>2 DEF Advanced
  <2> QED BY <2>1, <2>2
<1>9. PICK w : w = [ad EXCEPT !.runtime = rt]
  OBVIOUS
<1>10. w \in Rows /\ w.gen = g /\ w.life = r.life
  BY <1>6, <1>8, <1>9 DEF Rows
<1>11. w = [Advanced(r, resumed) EXCEPT !.runtime = RuntimeOf(state)]
  BY <1>5, <1>7, <1>9
<1> QED BY <1>4, <1>10, <1>11

\* what Apply writes, and where the handler goes
LEMMA ApplyEffect ==
  ASSUME TypeOK, RecInv, NEW x \in Tasks, Apply(x)
  PROVE  /\ req[x].pc = "apply" /\ RowWritten /\ row' \in Rows
         /\ \/ Returned(x)
            \/ /\ UNCHANGED holder /\ x \in Sockets
               /\ req' = [req EXCEPT ![x] = [NoReq EXCEPT !.op = "ws", !.pc = "upgrade"]]
<1>1. req \in [Tasks -> Requests] /\ req[x].row \in Rows /\ req[x].ans \in Answers
  BY TypesOf, RequestFields
<1>2. req[x].pc = "apply"
  BY DEF Apply
<1>3. req[x].row.gen # NoGen /\ row.gen # NoGen /\ req[x].row.life = "there"
  BY <1>2 DEF RecInv, ReadInv
<1>4. PICK b \in BOOLEAN : b = (req[x].op \in {"create", "ensure", "resume"} /\ req[x].ans.resumed)
  OBVIOUS
<1>5. PICK w : w = [Advanced(req[x].row, b) EXCEPT !.runtime = RuntimeOf(req[x].ans.state)]
  OBVIOUS
<1>6. w \in Rows /\ w.gen # NoGen /\ w.life = "there"
  BY <1>1, <1>3, <1>5, AdvancedGen DEF Answers
<1>7. row' = IF RowThere THEN w ELSE row
  BY <1>4, <1>5 DEF Apply
<1>8. RowWritten /\ row' \in Rows
  BY <1>3, <1>6, <1>7, TypesOf DEF RowWritten, HasRuntime, RowThere
<1>9. Return(x) \/ (/\ UNCHANGED holder /\ x \in Sockets
                    /\ req' = [req EXCEPT ![x] = [NoReq EXCEPT !.op = "ws", !.pc = "upgrade"]])
  BY DEF Apply
<1> QED BY <1>1, <1>2, <1>8, <1>9, ReturnReturns

LEMMA ApplyRec ==
  ASSUME TypeOK, RecInv, NEW x \in Tasks, Apply(x)
  PROVE  RecInv'
<1>1. CASE Returned(x)
  BY <1>1, ApplyEffect, ReturnRec
<1>2. CASE ~Returned(x)
  <2>1. PICK r : r = [NoReq EXCEPT !.op = "ws", !.pc = "upgrade"]
    OBVIOUS
  <2>2. r \in Requests /\ r.pc = "upgrade" /\ r.op = "ws" /\ r.row = NewRow
    BY <2>1, NoReqTyped DEF Requests, ReqPcs, AtHost
  <2>3. req' = [req EXCEPT ![x] = r] /\ holder' = holder /\ RowWritten
    BY <1>2, <2>1, ApplyEffect
  <2>4. r.op \notin Starting
    BY <2>2 DEF Starting
  <2>5. r.pc \notin Making
    BY <2>2 DEF Making
  <2> QED BY <1>2, <2>2, <2>3, <2>4, <2>5, NewRowTyped, PutRec, ApplyEffect
<1> QED BY <1>1, <1>2

LEMMA RecordMissingPasses ==
  ASSUME TypeOK, NEW x \in Tasks, RecordMissing(x)
  PROVE  Passes(x, OnError[req[x].pc]) /\ req[x].pc \in AtHost
<1>1. NoAnswer \in Answers
  BY NoReqTyped DEF NoAnswer, Answers, Panes
<1> QED BY <1>1, TypesOf, OutcomePasses DEF RecordMissing

LEMMA LockPasses ==
  ASSUME TypeOK, NEW x \in Tasks, Lock(x)
  PROVE  UNCHANGED req \/ (Passes(x, OnOk[req[x].pc]) /\ req[x].pc \in AtHost /\ job' = job)
<1>1. NoAnswer \in Answers
  BY NoReqTyped DEF NoAnswer, Answers, Panes
<1>2. req[x].pc \in AtHost
  BY DEF Lock
<1>3. UNCHANGED req \/ (req' = [req EXCEPT ![x] = Outcome(req[x], TRUE, NoAnswer)] /\ job' = job)
  BY DEF Lock
<1> QED BY <1>1, <1>2, <1>3, TypesOf, OutcomePasses

LEMMA TaskRec ==
  ASSUME TypeOK, RecInv, NEW x \in Tasks, TaskStep(x)
  PROVE  RecInv'
<1>1. req \in [Tasks -> Requests]
  BY TypesOf
<1>2. ASSUME req[x].pc \in {"create", "register"}, req[x].op \notin Starting, NEW pc \in {"adopt", "failed", "persist"}, Goto(x, pc), UNCHANGED <<row, holder>>
      PROVE  RecInv'
  BY <1>2, GotoRec DEF Later, Making, AtSocket, Begins, ReqPcs, AtHost
<1>3. CASE CreateRuntime(x)
  BY <1>3, GotoRec DEF CreateRuntime, clientVars, Later, Making, AtSocket, Begins, ReqPcs, AtHost
<1>4. CASE CreateFails(x)
  BY <1>4, GotoRec DEF CreateFails, clientVars, Later, Making, AtSocket, Begins, ReqPcs
<1>5. CASE LaunchFails(x)
  BY <1>5, GotoRec DEF LaunchFails, clientVars, Later, Making, AtSocket, Begins, ReqPcs
<1>6. CASE Register(x)
  BY <1>6, GotoRec DEF Register, clientVars, Later, Making, AtSocket, Begins, ReqPcs
<1>7. CASE PersistFails(x)
  BY <1>7, GotoRec DEF PersistFails, clientVars, Later, Making, AtSocket, Begins, ReqPcs
<1>8. CASE Forget(x)
  BY <1>8, GotoRec DEF Forget, clientVars, Later, Making, AtSocket, Begins, ReqPcs
<1>9. CASE Remove(x)
  BY <1>9, GotoRec DEF Remove, clientVars, Later, Making, AtSocket, Begins, ReqPcs
<1>10. CASE RemoveFails(x)
  BY <1>10, <1>1, ReturnReturns, ReturnRec, SameRowWritten DEF RemoveFails
<1>11. CASE Drop(x)
  <2>1. CASE req[x].op = "delete"
    BY <1>11, <2>1, GotoRec DEF Drop, Later, Making, AtSocket, Begins, ReqPcs
  <2>2. CASE req[x].op # "delete"
    BY <1>11, <2>2, <1>1, ReturnReturns, ReturnRec, SameRowWritten DEF Drop
  <2> QED BY <2>1, <2>2
<1>12. CASE Erase(x)
  <2>1. PICK w : w = [row EXCEPT !.life = "deleted"]
    OBVIOUS
  <2>2. w.life = "deleted" /\ w.gen = row.gen
    BY <2>1, TypesOf DEF Rows
  <2>3. row' = w /\ Returned(x)
    BY <1>12, <2>1, <1>1, ReturnReturns DEF Erase
  <2>4. RowWritten
    BY <2>2, <2>3 DEF RowWritten, HasRuntime, RowThere
  <2> QED BY <2>3, <2>4, ReturnRec
<1>13. CASE RecordMissing(x)
  BY <1>13, RecordMissingPasses, OutcomeLater, PassRec DEF RecordMissing, clientVars
<1>14. CASE Persist(x)
  BY <1>14, PersistRec
<1>15. CASE MarkError(x)
  BY <1>15, MarkErrorRec
<1>16. CASE Apply(x)
  BY <1>16, ApplyRec
<1> QED BY <1>3, <1>4, <1>5, <1>6, <1>7, <1>8, <1>9, <1>10, <1>11, <1>12, <1>13, <1>14, <1>15, <1>16
        DEF TaskStep

LEMMA LockRec ==
  ASSUME TypeOK, RecInv, NEW x \in Tasks, Lock(x)
  PROVE  RecInv'
<1>1. UNCHANGED <<row, holder>>
  BY DEF Lock, clientVars
<1> QED BY <1>1, LockPasses, OutcomeLater, PassRec, StutterRec

LEMMA SocketRec ==
  ASSUME TypeOK, RecInv, NEW a \in Sockets,
         SocketStep(a) \/ QueueFull(a) \/ Leave(a) \/ ResizeRefused(a) \/ ProxyEnds(a)
         \/ Appear(a) \/ NothingToAttach(a) \/ Depart(a)
  PROVE  RecInv'
<1>1. a \in Tasks
  BY DEF Tasks
<1>2. ASSUME req[a].pc = "served", NEW pc \in {"ending", "detach"}, Goto(a, pc), UNCHANGED <<row, holder>>
      PROVE  RecInv'
  BY <1>1, <1>2, GotoRec DEF Later, Making, AtSocket, Begins, ReqPcs, AtHost
<1>3. CASE Hear(a)
  BY <1>2, <1>3 DEF Hear, clientVars
<1>4. CASE Leave(a) \/ ResizeRefused(a) \/ ProxyEnds(a)
  BY <1>2, <1>4 DEF Leave, ResizeRefused, ProxyEnds, clientVars
<1>5. CASE ExecOver(a) \/ PaneMonitor(a) \/ QueueFull(a)
  BY <1>5, StutterRec DEF ExecOver, PaneMonitor, QueueFull, Tell, clientVars
<1>6. CASE Appear(a) \/ NothingToAttach(a) \/ Depart(a)
  BY <1>6, StutterRec DEF Appear, NothingToAttach, Depart, clientVars
<1> QED BY <1>3, <1>4, <1>5, <1>6 DEF SocketStep

\* what a restart of agent_host leaves of a request
LEMMA CutEffect ==
  ASSUME req \in [Tasks -> Requests], NEW x \in Tasks
  PROVE  /\ Cut(x) \in Requests
         /\ \/ /\ Cut(x).op = "none" /\ Cut(x).row = NewRow /\ Cut(x).pc \in {"done", "idle"}
            \/ /\ Cut(x).op = req[x].op /\ Cut(x).row = req[x].row /\ Cut(x).pc = "failed"
               /\ req[x].op \in Starting
               /\ req[x].pc \in Begins \cup {"call"} /\ req[x].pc # "failed"
            \/ Cut(x) = req[x] /\ req[x].pc \notin AtHost \cup {"served"}
<1>1. req[x] \in Requests
  OBVIOUS
<1>2. PICK r : r = [req[x] EXCEPT !.pc = "failed"]
  OBVIOUS
<1>3. r \in Requests /\ r.op = req[x].op /\ r.row = req[x].row /\ r.pc = "failed"
  BY <1>1, <1>2 DEF Requests, ReqPcs
<1>4. \/ Cut(x) = Rest(x)
      \/ /\ Cut(x) = r /\ req[x].op \in Starting
         /\ req[x].pc \in {"create", "adopt", "register", "call"}
      \/ Cut(x) = req[x] /\ req[x].pc \notin AtHost \cup {"served"}
  BY <1>2 DEF Cut, Starting
<1>5. Rest(x) \in Requests /\ Rest(x).op = "none" /\ Rest(x).row = NewRow /\ Rest(x).pc \in {"done", "idle"}
  BY RestTyped
<1>6. CASE Cut(x) = Rest(x)
  BY <1>5, <1>6
<1>7. CASE /\ Cut(x) = r /\ req[x].op \in Starting
           /\ req[x].pc \in {"create", "adopt", "register", "call"}
  BY <1>3, <1>7 DEF Begins
<1>8. CASE Cut(x) = req[x] /\ req[x].pc \notin AtHost \cup {"served"}
  BY <1>1, <1>8
<1> QED BY <1>4, <1>6, <1>7, <1>8

LEMMA RestartEffect ==
  ASSUME TypeOK, HostRestarts
  PROVE  /\ req' \in [Tasks -> Requests] /\ \A x \in Tasks : req'[x] = Cut(x)
         /\ holder' = IF holder # NoTask /\ req'[holder].pc = "idle" THEN NoTask ELSE holder
         /\ row' = row
<1>1. req' = [x \in Tasks |-> Cut(x)]
  BY DEF HostRestarts
<1>2. \A x \in Tasks : Cut(x) \in Requests
  BY CutEffect, TypesOf
<1> QED BY <1>1, <1>2 DEF HostRestarts

LEMMA RestartRec ==
  ASSUME TypeOK, RecInv, HostRestarts
  PROVE  RecInv'
<1>1. ASSUME NEW x \in Tasks
      PROVE  \/ req'[x].op = "none" /\ req'[x].row = NewRow /\ req'[x].pc \in {"done", "idle"}
             \/ /\ req'[x].op = req[x].op /\ req'[x].row = req[x].row /\ req'[x].pc = "failed"
                /\ req[x].op \in Starting
                /\ req[x].pc \in Begins \cup {"call"} /\ req[x].pc # "failed"
             \/ req'[x] = req[x]
  BY CutEffect, RestartEffect, TypesOf
<1>2. row' = row
  BY RestartEffect
<1>3. "none" \notin Starting /\ "lock" \notin Begins
  BY DEF Starting, Begins
<1>4. RowInv'
  BY <1>1, <1>2, <1>3 DEF RecInv, RowInv, HasRuntime, RowThere
<1>5. ReadInv'
  <2> SUFFICES ASSUME NEW x \in Tasks
               PROVE  /\ req'[x].row.life = "there"
                      /\ req'[x].row.gen # NoGen => row'.gen # NoGen
                      /\ req'[x].pc \in {"call", "apply"} => req'[x].row.gen # NoGen
                      /\ req'[x].pc = "lock" => x \in Controls /\ req'[x].op \in {"ensure", "stop", "resume", "delete"}
                      /\ x \in Sockets => req'[x].op \notin Starting
                      /\ req'[x].pc \in Making => req'[x].op \in Starting
                      /\ req'[x].op \in Starting => req'[x].pc # "idle"
                      /\ req'[x].pc \in AtSocket => x \in Sockets
    BY DEF ReadInv
  <2>1. CASE req'[x].op = "none" /\ req'[x].row = NewRow /\ req'[x].pc \in {"done", "idle"}
    BY <2>1, <1>3, NewRowTyped DEF Making, AtSocket
  <2>2. CASE /\ req'[x].op = req[x].op /\ req'[x].row = req[x].row /\ req'[x].pc = "failed"
             /\ req[x].op \in Starting
    BY <2>2, <1>2 DEF RecInv, ReadInv, Making, AtSocket
  <2>3. CASE req'[x] = req[x]
    BY <2>3, <1>2 DEF RecInv, ReadInv
  <2> QED BY <1>1, <2>1, <2>2, <2>3
<1>6. StartInv'
  <2> SUFFICES ASSUME NEW x \in Tasks, req'[x].op \in Starting, req'[x].pc # "lock"
               PROVE  /\ holder' = x
                      /\ req'[x].row.gen = NoGen /\ req'[x].pc \in Begins => row'.gen = NoGen
    BY DEF StartInv, Begins
  <2>1. req'[x].row = req[x].row /\ req[x].op \in Starting
    BY <1>1, <1>3
  <2>2. req[x].pc # "lock" /\ req'[x].pc # "idle"
    BY <1>1, <1>3, <1>5 DEF ReadInv
  <2>3. holder = x /\ (req[x].row.gen = NoGen /\ req[x].pc \in Begins => row.gen = NoGen)
    BY <2>1, <2>2 DEF RecInv, StartInv, Begins
  <2>4. req'[x].pc \in Begins => req[x].pc \in Begins \cup {"call"}
    BY <1>1, <1>3
  <2>5. req[x].pc = "call" => req[x].row.gen # NoGen
    BY DEF RecInv, ReadInv
  <2> QED BY <1>2, <2>1, <2>2, <2>3, <2>4, <2>5, RestartEffect
<1> QED BY <1>4, <1>5, <1>6 DEF RecInv

LEMMA StepRec ==
  ASSUME TypeOK, RecInv, JobInv, [Next]_vars
  PROVE  RecInv'
<1>1. CASE UNCHANGED vars
  BY <1>1, StutterRec DEF vars, clientVars
<1>2. ASSUME NEW x \in Tasks, Ask(x) \/ Acquire(x) \/ TaskStep(x) \/ Lock(x)
      PROVE  RecInv'
  BY <1>2, AskRec, AcquireRec, TaskRec, LockRec
<1>3. CASE JobStep
  BY <1>3, JobRec
<1>4. ASSUME NEW a \in Sockets,
             SocketStep(a) \/ QueueFull(a) \/ Leave(a) \/ ResizeRefused(a)
             \/ ProxyEnds(a) \/ Appear(a) \/ NothingToAttach(a) \/ Depart(a)
      PROVE  RecInv'
  BY <1>4, SocketRec
<1>5. CASE PaneExits \/ ContainerDies
  BY <1>5, StutterRec DEF PaneExits, ContainerDies, clientVars
<1>6. CASE HostRestarts
  BY <1>6, RestartRec
<1> QED BY <1>1, <1>2, <1>3, <1>4, <1>5, <1>6 DEF Next

\* a write of the row keeps what RecoveryRemembered asks for
LEMMA StepRemembers ==
  ASSUME TypeOK, RecInv, JobInv, [Next]_vars, row.life = "there", row.gen # NoGen
  PROVE  row'.gen # NoGen
<1>1. CASE UNCHANGED row
  BY <1>1
<1>2. ASSUME NEW x \in Tasks, Ask(x) PROVE row'.gen # NoGen
  BY <1>2 DEF Ask, AskUnlocked, CreateCli, AskEnsure, AskKill, AskLocked, clientVars
<1>3. ASSUME NEW x \in Tasks, Acquire(x) \/ Lock(x) PROVE row'.gen # NoGen
  BY <1>3 DEF Acquire, Lock, clientVars
<1>4. ASSUME NEW x \in Tasks, TaskStep(x) PROVE row'.gen # NoGen
  <2>1. CASE Persist(x)
    <3>1. PICK w : w = Persisted(req[x].row)
      OBVIOUS
    <3>2. req[x].row \in Rows
      BY TypesOf, RequestFields
    <3>3. w.gen # NoGen
      BY <3>1, <3>2, PersistedTyped
    <3> QED BY <2>1, <3>1, <3>3 DEF Persist
  <2>2. CASE MarkError(x)
    <3>1. PICK w : w = [req[x].row EXCEPT !.runtime = "error"]
      OBVIOUS
    <3>2. w.gen = req[x].row.gen
      BY <3>1, TypesOf, RequestFields DEF Rows
    <3>3. row' = row \/ (row' = w /\ req[x].op \in Starting)
      BY <2>2, <3>1 DEF MarkError, Starting
    <3>4. req[x].op \in Starting => req[x].row.gen # NoGen
      BY <2>2 DEF MarkError, RecInv, StartInv
    <3> QED BY <3>2, <3>3, <3>4
  <2>3. CASE Apply(x)
    BY <2>3, ApplyEffect DEF RowWritten
  <2>4. CASE Erase(x)
    BY <2>4, TypesOf DEF Erase, Rows
  <2>5. CASE \/ CreateRuntime(x) \/ CreateFails(x) \/ LaunchFails(x) \/ Register(x)
             \/ PersistFails(x) \/ Forget(x) \/ Remove(x) \/ RemoveFails(x) \/ Drop(x)
             \/ RecordMissing(x)
    BY <2>5 DEF CreateRuntime, CreateFails, LaunchFails, Register, PersistFails, Forget, Remove,
                RemoveFails, Drop, RecordMissing, clientVars
  <2> QED BY <1>4, <2>1, <2>2, <2>3, <2>4, <2>5 DEF TaskStep
<1>5. CASE JobStep
  BY <1>5, JobRequests
<1>6. ASSUME NEW a \in Sockets,
             SocketStep(a) \/ QueueFull(a) \/ Leave(a) \/ ResizeRefused(a)
             \/ ProxyEnds(a) \/ Appear(a) \/ NothingToAttach(a) \/ Depart(a)
      PROVE  row' = row
  BY <1>6 DEF SocketStep, ExecOver, PaneMonitor, Hear, QueueFull, Tell, Leave, ResizeRefused,
              ProxyEnds, Appear, NothingToAttach, Depart, clientVars
<1>7. CASE PaneExits \/ ContainerDies \/ HostRestarts
  BY <1>7 DEF PaneExits, ContainerDies, HostRestarts, clientVars
<1> QED BY <1>1, <1>2, <1>3, <1>4, <1>5, <1>6, <1>7 DEF Next, vars, clientVars

LEMMA ReqTyped ==
  ASSUME TypeOK, RecInv, JobInv, [Next]_vars
  PROVE  req' \in [Tasks -> Requests]
<1>1. req \in [Tasks -> Requests]
  BY TypesOf
<1>2. ASSUME UNCHANGED req PROVE req' \in [Tasks -> Requests]
  BY <1>1, <1>2
<1>3. ASSUME NEW x \in Tasks, NEW pc \in ReqPcs, Goto(x, pc) PROVE req' \in [Tasks -> Requests]
  BY <1>1, <1>3, GotoPasses DEF Passes
<1>4. ASSUME NEW x \in Tasks, Return(x) PROVE req' \in [Tasks -> Requests]
  BY <1>1, <1>4, ReturnReturns DEF Returned
<1>5. ASSUME NEW x \in Tasks, NEW r \in Requests, req' = [req EXCEPT ![x] = r] PROVE req' \in [Tasks -> Requests]
  BY <1>1, <1>5
<1>6. ASSUME NEW x \in Tasks, Ask(x) PROVE req' \in [Tasks -> Requests]
  <2>1. CASE AskUnlocked(x)
    <3>1. PICK op \in {"ws", "status"} : op = IF x \in Sockets THEN "ws" ELSE "status"
      OBVIOUS
    <3>2. PICK r : r = [NoReq EXCEPT !.op = op, !.pc = "call", !.row = row]
      OBVIOUS
    <3>3. r \in Requests
      BY <3>2, NoReqTyped, TypesOf DEF Requests, ReqPcs, AtHost
    <3>4. req' = [req EXCEPT ![x] = r]
      BY <2>1, <3>1, <3>2 DEF AskUnlocked
    <3> QED BY <3>3, <3>4, <1>5
  <2>2. ASSUME NEW op \in {"create", "ensure", "stop", "resume", "delete", "kill"},
               NEW pc \in {"create", "lock", "forget"},
               req' = [req EXCEPT ![x] = [NoReq EXCEPT !.op = op, !.pc = pc]]
        PROVE  req' \in [Tasks -> Requests]
    <3>1. PICK r : r = [NoReq EXCEPT !.op = op, !.pc = pc]
      OBVIOUS
    <3>2. r \in Requests
      BY <3>1, NoReqTyped DEF Requests, ReqPcs
    <3> QED BY <2>2, <3>1, <3>2, <1>5
  <2>3. CASE CreateCli(x) \/ AskEnsure(x) \/ AskKill(x)
    BY <2>2, <2>3 DEF CreateCli, AskEnsure, AskKill
  <2>4. ASSUME NEW op \in Ops, AskLocked(x, op) PROVE req' \in [Tasks -> Requests]
    <3>1. op \in {"stop", "resume", "delete"}
      BY <2>4 DEF AskLocked
    <3> QED BY <2>2, <2>4, <3>1 DEF AskLocked
  <2> QED BY <1>6, <2>1, <2>3, <2>4 DEF Ask
<1>7. ASSUME NEW x \in Tasks, Acquire(x) PROVE req' \in [Tasks -> Requests]
  <2>1. CASE Admitted(req[x].op)
    <3>1. PICK pc : pc = AfterLock(req[x].op)
      OBVIOUS
    <3>2. PICK rr : rr = IF req[x].op = "delete" THEN NewRow ELSE row
      OBVIOUS
    <3>3. PICK r : r = [req[x] EXCEPT !.pc = pc, !.row = rr]
      OBVIOUS
    <3>4. pc \in ReqPcs /\ rr \in Rows
      BY <3>1, <3>2, NewRowTyped, TypesOf DEF AfterLock, ReqPcs, AtHost
    <3>5. r \in Requests
      BY <1>1, <3>3, <3>4, RequestFields DEF Requests
    <3>6. req' = [req EXCEPT ![x] = r]
      BY <1>7, <2>1, <3>1, <3>2, <3>3 DEF Acquire
    <3> QED BY <3>5, <3>6, <1>5
  <2>2. CASE ~Admitted(req[x].op)
    BY <1>4, <1>7, <2>2 DEF Acquire
  <2> QED BY <2>1, <2>2
<1>8. ASSUME NEW x \in Tasks, TaskStep(x) PROVE req' \in [Tasks -> Requests]
  <2>1. CASE CreateRuntime(x) \/ CreateFails(x) \/ LaunchFails(x) \/ Register(x)
    BY <1>3, <2>1 DEF CreateRuntime, CreateFails, LaunchFails, Register, ReqPcs, AtHost
  <2>2. CASE PersistFails(x) \/ Forget(x) \/ Remove(x)
    BY <1>3, <2>2 DEF PersistFails, Forget, Remove, ReqPcs, AtHost
  <2>3. CASE Persist(x)
    <3>1. PICK w : w = Persisted(req[x].row)
      OBVIOUS
    <3>4. w \in Rows
      BY <1>1, <3>1, RequestFields, PersistedTyped
    <3>5. PICK r : r = [req[x] EXCEPT !.pc = "call", !.row = w]
      OBVIOUS
    <3>6. r \in Requests
      BY <1>1, <3>4, <3>5, RequestFields DEF Requests, ReqPcs, AtHost
    <3> QED BY <1>5, <2>3, <3>1, <3>5, <3>6 DEF Persist
  <2>4. CASE MarkError(x) \/ RemoveFails(x) \/ Erase(x)
    BY <1>4, <2>4 DEF MarkError, RemoveFails, Erase
  <2>5. CASE Apply(x)
    <3>1. PICK r : r = [NoReq EXCEPT !.op = "ws", !.pc = "upgrade"]
      OBVIOUS
    <3>2. r \in Requests
      BY <3>1, NoReqTyped DEF Requests, ReqPcs, AtHost
    <3> QED BY <2>5, <3>1, <3>2, <1>5, ApplyEffect DEF Returned
  <2>6. CASE Drop(x)
    <3>1. Goto(x, "erase") \/ Return(x)
      BY <2>6 DEF Drop
    <3> QED BY <3>1, <1>3, <1>4 DEF ReqPcs
  <2>7. CASE RecordMissing(x)
    BY <2>7, RecordMissingPasses DEF Passes
  <2> QED BY <1>8, <2>1, <2>2, <2>3, <2>4, <2>5, <2>6, <2>7 DEF TaskStep
<1>9. ASSUME NEW x \in Tasks, Lock(x) PROVE req' \in [Tasks -> Requests]
  BY <1>2, <1>9, LockPasses DEF Passes
<1>10. CASE JobStep
  BY <1>2, <1>10, JobRequests DEF Passes
<1>11. ASSUME NEW a \in Sockets,
             SocketStep(a) \/ QueueFull(a) \/ Leave(a) \/ ResizeRefused(a)
             \/ ProxyEnds(a) \/ Appear(a) \/ NothingToAttach(a) \/ Depart(a)
      PROVE  req' \in [Tasks -> Requests]
  <2>1. a \in Tasks
    BY DEF Tasks
  <2>2. CASE Hear(a) \/ Leave(a) \/ ResizeRefused(a) \/ ProxyEnds(a)
    <3>1. Goto(a, "ending") \/ Goto(a, "detach")
      BY <2>2 DEF Hear, Leave, ResizeRefused, ProxyEnds
    <3> QED BY <2>1, <3>1, <1>3 DEF ReqPcs, AtHost
  <2>3. CASE ExecOver(a) \/ PaneMonitor(a) \/ QueueFull(a) \/ Appear(a) \/ NothingToAttach(a) \/ Depart(a)
    BY <1>2, <2>3 DEF ExecOver, PaneMonitor, QueueFull, Tell, Appear, NothingToAttach, Depart
  <2> QED BY <1>11, <2>2, <2>3 DEF SocketStep
<1>12. CASE PaneExits \/ ContainerDies
  BY <1>2, <1>12 DEF PaneExits, ContainerDies
<1>13. CASE HostRestarts
  BY <1>13, RestartEffect
<1> QED BY <1>2, <1>6, <1>7, <1>8, <1>9, <1>10, <1>11, <1>12, <1>13 DEF Next, vars

LEMMA RowTyped ==
  ASSUME TypeOK, RecInv, JobInv, [Next]_vars
  PROVE  row' \in Rows /\ holder' \in Controls \cup {NoTask}
<1>1. row \in Rows /\ holder \in Controls \cup {NoTask} /\ req \in [Tasks -> Requests]
  BY TypesOf
<1>2. ASSUME UNCHANGED <<row, holder>> PROVE row' \in Rows /\ holder' \in Controls \cup {NoTask}
  BY <1>1, <1>2
<1>3. ASSUME NEW x \in Tasks, Return(x) PROVE holder' \in Controls \cup {NoTask}
  BY <1>1, <1>3 DEF Return
<1>4. ASSUME NEW x \in Tasks, Ask(x) PROVE row' \in Rows /\ holder' \in Controls \cup {NoTask}
  <2>1. CASE x \in Controls /\ CreateCli(x)
    BY <2>1, NewRowTyped DEF CreateCli
  <2>2. CASE AskUnlocked(x) \/ AskEnsure(x) \/ AskKill(x)
    BY <1>2, <2>2 DEF AskUnlocked, AskEnsure, AskKill, clientVars
  <2>3. ASSUME NEW op \in Ops, AskLocked(x, op) PROVE UNCHANGED <<row, holder>>
    BY <2>3 DEF AskLocked, clientVars
  <2> QED BY <1>2, <1>4, <2>1, <2>2, <2>3 DEF Ask
<1>5. ASSUME NEW x \in Tasks, Acquire(x) PROVE row' \in Rows /\ holder' \in Controls \cup {NoTask}
  <2>1. x \in Controls
    BY <1>5 DEF Acquire, RecInv, ReadInv
  <2> QED BY <1>1, <1>3, <1>5, <2>1 DEF Acquire
<1>6. ASSUME NEW x \in Tasks, TaskStep(x) PROVE row' \in Rows /\ holder' \in Controls \cup {NoTask}
  <2>1. CASE CreateRuntime(x) \/ CreateFails(x) \/ LaunchFails(x) \/ Register(x) \/ PersistFails(x)
             \/ Forget(x) \/ Remove(x) \/ RecordMissing(x)
    BY <1>2, <2>1 DEF CreateRuntime, CreateFails, LaunchFails, Register, PersistFails, Forget, Remove,
                      RecordMissing, clientVars
  <2>2. CASE Persist(x)
    <3>1. PICK w : w = Persisted(req[x].row)
      OBVIOUS
    <3>4. w \in Rows
      BY <1>1, <3>1, RequestFields, PersistedTyped
    <3> QED BY <1>1, <2>2, <3>1, <3>4 DEF Persist
  <2>3. CASE MarkError(x)
    <3>1. PICK w : w = [req[x].row EXCEPT !.runtime = "error"]
      OBVIOUS
    <3>2. w \in Rows
      BY <1>1, <3>1, RequestFields DEF Rows, Runtime
    <3>3. row' = row \/ row' = w
      BY <2>3, <3>1 DEF MarkError
    <3> QED BY <1>1, <1>3, <2>3, <3>2, <3>3 DEF MarkError
  <2>4. CASE Apply(x)
    BY <1>1, <2>4, ApplyEffect DEF Returned
  <2>5. CASE RemoveFails(x) \/ Drop(x)
    BY <1>1, <1>3, <2>5 DEF RemoveFails, Drop
  <2>6. CASE Erase(x)
    <3>1. PICK w : w = [row EXCEPT !.life = "deleted"]
      OBVIOUS
    <3>2. w \in Rows
      BY <1>1, <3>1 DEF Rows
    <3> QED BY <1>3, <2>6, <3>1, <3>2 DEF Erase
  <2> QED BY <1>6, <2>1, <2>2, <2>3, <2>4, <2>5, <2>6 DEF TaskStep
<1>7. ASSUME NEW x \in Tasks, Lock(x) PROVE row' \in Rows /\ holder' \in Controls \cup {NoTask}
  BY <1>2, <1>7 DEF Lock, clientVars
<1>8. CASE JobStep
  BY <1>2, <1>8, JobRequests
<1>9. ASSUME NEW a \in Sockets,
             SocketStep(a) \/ QueueFull(a) \/ Leave(a) \/ ResizeRefused(a)
             \/ ProxyEnds(a) \/ Appear(a) \/ NothingToAttach(a) \/ Depart(a)
      PROVE  UNCHANGED <<row, holder>>
  BY <1>9 DEF SocketStep, ExecOver, PaneMonitor, Hear, QueueFull, Tell, Leave, ResizeRefused,
              ProxyEnds, Appear, NothingToAttach, Depart, clientVars
<1>10. CASE PaneExits \/ ContainerDies
  BY <1>2, <1>10 DEF PaneExits, ContainerDies, clientVars
<1>11. CASE HostRestarts
  BY <1>1, <1>11, RestartEffect
<1> QED BY <1>2, <1>4, <1>5, <1>6, <1>7, <1>8, <1>9, <1>10, <1>11 DEF Next, vars, clientVars

\* which actions leave what alone
LEMMA QuietSteps ==
  ASSUME [Next]_vars
  PROVE  \/ UNCHANGED <<alive, volume, pane, again, client>>
         \/ \E x \in Tasks : CreateRuntime(x) \/ Remove(x)
         \/ DetachStale \/ Act \/ Exec \/ Unhook
         \/ \E a \in Sockets : Appear(a) \/ NothingToAttach(a) \/ Depart(a)
         \/ PaneExits \/ ContainerDies
<1>1. CASE UNCHANGED vars
  BY <1>1 DEF vars, kernelVars
<1>2. ASSUME NEW x \in Tasks, Ask(x) \/ Acquire(x) \/ Lock(x) PROVE UNCHANGED kernelVars
  BY <1>2 DEF Ask, AskUnlocked, CreateCli, AskEnsure, AskKill, AskLocked, Acquire, Lock
<1>3. ASSUME NEW x \in Tasks, TaskStep(x), ~(CreateRuntime(x) \/ Remove(x)) PROVE UNCHANGED kernelVars
  BY <1>3 DEF TaskStep, CreateFails, LaunchFails, Register, Persist, PersistFails, MarkError, Apply,
              Forget, RemoveFails, Drop, Erase, RecordMissing
<1>4. ASSUME JobStep, ~(DetachStale \/ Act \/ Exec \/ Unhook) PROVE UNCHANGED kernelVars
  BY <1>4 DEF JobStep, GetStatus, Reconcile, Settle, ResumeRefused, Find, FindFails, CallFails
<1>5. ASSUME NEW a \in Sockets, SocketStep(a) \/ QueueFull(a) \/ Leave(a) \/ ResizeRefused(a) \/ ProxyEnds(a)
      PROVE  UNCHANGED kernelVars
  BY <1>5 DEF SocketStep, ExecOver, PaneMonitor, Hear, QueueFull, Tell, Leave, ResizeRefused, ProxyEnds
<1>6. CASE HostRestarts
  BY <1>6 DEF HostRestarts, kernelVars
<1> QED BY <1>1, <1>2, <1>3, <1>4, <1>5, <1>6 DEF Next, kernelVars

LEMMA KernelTyped ==
  ASSUME TypeOK, [Next]_vars
  PROVE  /\ alive' \in BOOLEAN /\ volume' \in BOOLEAN /\ again' \in BOOLEAN
         /\ pane' \in Panes /\ client' \in Clients
<1>1. /\ alive \in BOOLEAN /\ volume \in BOOLEAN /\ again \in BOOLEAN
      /\ pane \in Panes /\ client \in Clients
  BY DEF TypeOK, Clients
<1>2. {"missing", "running", "exited"} \subseteq Panes
  BY DEF Panes
<1>3. AllGone \in Clients
  BY <1>1 DEF AllGone, Clients
<1>4. ASSUME NEW p PROVE Unhooked(p) \in Clients
  BY <1>1 DEF Unhooked, Clients
<1>5. CASE UNCHANGED <<alive, volume, pane, again, client>>
  BY <1>1, <1>5
<1>6. ASSUME NEW x \in Tasks, CreateRuntime(x) \/ Remove(x)
      PROVE  /\ alive' \in BOOLEAN /\ volume' \in BOOLEAN /\ again' \in BOOLEAN
             /\ pane' \in Panes /\ client' \in Clients
  <2>1. CASE CreateRuntime(x)
    BY <1>1, <1>2, <2>1 DEF CreateRuntime
  <2>2. CASE Remove(x)
    BY <1>1, <1>2, <1>3, <2>2 DEF Remove
  <2> QED BY <1>6, <2>1, <2>2
<1>7. CASE DetachStale
  BY <1>1, <1>4, <1>7 DEF DetachStale
<1>8. CASE Act
  <2>1. CASE KernelEnsure
    BY <1>1, <1>2, <1>8, <2>1 DEF Act, KernelEnsure
  <2>2. CASE KernelStop
    BY <1>1, <1>2, <1>8, <2>2 DEF Act, KernelStop, Clients
  <2>3. CASE KernelResume
    BY <1>1, <1>2, <1>8, <2>3 DEF Act, KernelResume
  <2> QED BY <1>8, <2>1, <2>2, <2>3 DEF Act
<1>9. CASE Exec
  BY <1>1, <1>9 DEF Exec, Clients
<1>10. CASE Unhook
  BY <1>1, <1>10 DEF Unhook, Clients
<1>11. ASSUME NEW a \in Sockets, Appear(a) \/ NothingToAttach(a) \/ Depart(a)
       PROVE  /\ alive' \in BOOLEAN /\ volume' \in BOOLEAN /\ again' \in BOOLEAN
              /\ pane' \in Panes /\ client' \in Clients
  BY <1>1, <1>11 DEF Appear, NothingToAttach, Depart, Clients
<1>12. CASE PaneExits \/ ContainerDies
  BY <1>1, <1>2, <1>3, <1>12 DEF PaneExits, ContainerDies
<1> QED BY <1>5, <1>6, <1>7, <1>8, <1>9, <1>10, <1>11, <1>12, QuietSteps

\* which actions leave the leases and what they were told alone
LEMMA QuietLeases ==
  ASSUME [Next]_vars
  PROVE  \/ UNCHANGED <<lease, told>>
         \/ \E x \in Tasks : Forget(x) \/ Lock(x)
         \/ Settle \/ Exec \/ Find \/ FindFails \/ Unhook \/ CallFails
         \/ \E a \in Sockets : ExecOver(a) \/ PaneMonitor(a) \/ QueueFull(a)
         \/ HostRestarts
<1>1. CASE UNCHANGED vars
  BY <1>1 DEF vars, hostVars
<1>2. ASSUME NEW x \in Tasks, Ask(x) \/ Acquire(x) PROVE UNCHANGED <<lease, told>>
  BY <1>2 DEF Ask, AskUnlocked, CreateCli, AskEnsure, AskKill, AskLocked, Acquire, hostVars
<1>3. ASSUME NEW x \in Tasks, TaskStep(x), ~Forget(x) PROVE UNCHANGED <<lease, told>>
  BY <1>3 DEF TaskStep, CreateRuntime, CreateFails, LaunchFails, Register, Persist, PersistFails, MarkError,
              Apply, Remove, RemoveFails, Drop, Erase, RecordMissing, hostVars
<1>4. ASSUME JobStep, ~(Settle \/ Exec \/ Find \/ FindFails \/ Unhook \/ CallFails)
      PROVE  UNCHANGED <<lease, told>>
  BY <1>4 DEF JobStep, GetStatus, Reconcile, DetachStale, Act, ResumeRefused
<1>5. ASSUME NEW a \in Sockets,
             \/ Hear(a) \/ Leave(a) \/ ResizeRefused(a) \/ ProxyEnds(a)
             \/ Appear(a) \/ NothingToAttach(a) \/ Depart(a)
      PROVE  UNCHANGED <<lease, told>>
  BY <1>5 DEF Hear, Leave, ResizeRefused, ProxyEnds, Appear, NothingToAttach, Depart, hostVars
<1>6. CASE PaneExits \/ ContainerDies
  BY <1>6 DEF PaneExits, ContainerDies, hostVars
<1> QED BY <1>1, <1>2, <1>3, <1>4, <1>5, <1>6 DEF Next, SocketStep

Leases == [Sockets -> Ptys \cup {NoPty, NoLease}]

LEMMA LeasesTyped ==
  ASSUME TypeOK, JobInv, [Next]_vars
  PROVE  lease' \in Leases /\ told' \in [Sockets -> {"none", "ended", "error"}]
<1>1. lease \in Leases /\ told \in [Sockets -> {"none", "ended", "error"}] /\ client \in Clients
  BY TypesOf DEF Leases
<1>2. CASE UNCHANGED <<lease, told>>
  BY <1>1, <1>2
<1>3. ASSUME NEW x \in Tasks, Forget(x) \/ Lock(x)
      PROVE  lease' \in Leases /\ told' \in [Sockets -> {"none", "ended", "error"}]
  BY <1>1, <1>3 DEF Forget, Lock, Leases
<1>4. CASE Settle
  BY <1>1, <1>4 DEF Settle, Leases
<1>5. CASE Exec
  BY <1>1, <1>5 DEF Exec, Leases
<1>6. CASE Find
  BY <1>1, <1>6 DEF Find, Leases
<1>7. CASE FindFails \/ CallFails
  BY <1>1, <1>7 DEF FindFails, CallFails, Leases
<1>8. CASE Unhook
  BY <1>1, <1>8 DEF Unhook, Leases
<1>9. ASSUME NEW a \in Sockets, ExecOver(a) \/ PaneMonitor(a) \/ QueueFull(a)
      PROVE  lease' \in Leases /\ told' \in [Sockets -> {"none", "ended", "error"}]
  BY <1>1, <1>9 DEF ExecOver, PaneMonitor, QueueFull, Tell
<1>10. CASE HostRestarts
  BY <1>10 DEF HostRestarts, Leases
<1> QED BY <1>2, <1>3, <1>4, <1>5, <1>6, <1>7, <1>8, <1>9, <1>10, QuietLeases

----------------------------------------------------------------------------
(* The holder of boundary_lock.                                            *)

LEMMA JobOpTyped ==
  ASSUME NEW r \in Requests
  PROVE  JobOp(r) \in {"status", "ensure", "stop", "resume", "attach", "detach"}
<1> QED BY DEF JobOp

LEMMA BeginTyped ==
  ASSUME TypeOK, NEW x \in Tasks
  PROVE  /\ Begin(x) \in Jobs
         /\ Begin(x).by = x /\ Begin(x).op = JobOp(req[x])
         /\ Begin(x).pc = IF JobOp(req[x]) = "stop" THEN "act" ELSE "status"
         /\ Begin(x).last = (JobOp(req[x]) \in {"status", "stop", "detach"})
<1>1. req[x] \in Requests
  BY TypesOf
<1>2. PICK op : op = JobOp(req[x])
  OBVIOUS
<1>3. PICK pc \in {"act", "status"} : pc = IF op = "stop" THEN "act" ELSE "status"
  OBVIOUS
<1>4. PICK last : last = (op \in {"status", "stop", "detach"})
  OBVIOUS
<1>8. last \in BOOLEAN
  BY <1>4
<1>5. Begin(x) = [NoJob EXCEPT !.by = x, !.op = op, !.pc = pc, !.last = last]
  BY <1>2, <1>3, <1>4 DEF Begin
<1>6. op \in {"status", "ensure", "stop", "resume", "attach", "detach"}
  BY <1>1, <1>2, JobOpTyped
<1>7. pc \in JobPcs
  BY DEF JobPcs
<1> QED BY <1>2, <1>3, <1>4, <1>5, <1>6, <1>7, <1>8, NoJobTyped DEF Jobs

\* what the steps of a job change of it
LEMMA JobEffect ==
  ASSUME TypeOK, JobInv, JobStep
  PROVE  /\ job' \in Jobs
         /\ \/ job' = NoJob
            \/ /\ UNCHANGED req /\ job'.by = job.by /\ job'.op = job.op
               /\ \/ job.pc = "status" /\ job'.pc = "reconcile" /\ job'.last = job.last
                  \/ job.pc = "reconcile" /\ job'.pc \in {"stale", "settle"} /\ job'.last = job.last
                  \/ job.pc = "stale" /\ job'.pc \in {"stale", "settle"} /\ job'.last = job.last
                  \/ /\ job.pc = "settle" /\ ~job.last /\ job'.last = job.last
                     /\ job'.pc = IF job.op = "attach" THEN "exec" ELSE "act"
                  \/ job.pc = "act" /\ job'.pc = "reconcile" /\ job'.last
                  \/ job.pc = "exec" /\ job'.pc = "find" /\ job'.last = job.last
                  \/ job.pc = "find" /\ job'.pc = "status" /\ job'.last
                  \/ job.pc = "unhook" /\ job'.pc = "status" /\ job'.last = job.last
<1>1. job \in Jobs /\ client \in Clients /\ pane \in Panes
  BY TypesOf
<1>2. NoJob \in Jobs
  BY NoJobTyped
<1>3. ASSUME NEW ok, End(ok, job.st) PROVE job' \in Jobs /\ job' = NoJob
  BY <1>2, <1>3 DEF End
<1>4. \A p \in Panes, cl \in Clients :
        Observed(p, cl) \in Statuses /\ Observed(p, cl).clients \in SUBSET [id : Ptys, att : Sockets]
  BY ObservedTyped
<1>5. {"status", "reconcile", "stale", "settle", "act", "exec", "find", "unhook"} \subseteq JobPcs
  BY DEF JobPcs
<1>6. CASE GetStatus
  <2>1. PICK st \in Statuses : st = Observed(pane, client) /\ st.clients \in SUBSET [id : Ptys, att : Sockets]
    BY <1>1, <1>4
  <2>2. job' = [job EXCEPT !.pc = "reconcile", !.st = st, !.seen = st.clients] /\ UNCHANGED req /\ job.pc = "status"
    BY <1>6, <2>1 DEF GetStatus
  <2> QED BY <1>1, <1>5, <2>1, <2>2 DEF Jobs
<1>7. CASE Reconcile
  <2>1. PICK todo : todo = Stale(job.st)
    OBVIOUS
  <2>2. todo \subseteq Ptys
    <3>1. job.st.clients \in SUBSET [id : Ptys, att : Sockets]
      BY <1>1 DEF Jobs, Statuses
    <3> QED BY <2>1, <3>1 DEF Stale
  <2>3. PICK pc \in {"settle", "stale"} : pc = IF todo = {} THEN "settle" ELSE "stale"
    OBVIOUS
  <2>4. Leased \subseteq Sockets
    BY DEF Leased
  <2>5. job' = [job EXCEPT !.active = Leased, !.todo = todo, !.pc = pc] /\ UNCHANGED req /\ job.pc = "reconcile"
    BY <1>7, <2>1, <2>3 DEF Reconcile
  <2> QED BY <1>1, <1>5, <2>2, <2>3, <2>4, <2>5 DEF Jobs
<1>8. CASE DetachStale
  <2>1. PICK p \in job.todo :
          job' = [job EXCEPT !.st = Observed(pane, Unhooked(p)), !.todo = @ \ {p},
                             !.pc = IF job.todo = {p} THEN "settle" ELSE "stale"]
    BY <1>8 DEF DetachStale
  <2>2. Unhooked(p) \in Clients
    BY <1>1 DEF Unhooked, Clients
  <2>3. PICK st \in Statuses : st = Observed(pane, Unhooked(p))
    BY <1>1, <1>4, <2>2
  <2>4. PICK pc \in {"settle", "stale"} : pc = IF job.todo = {p} THEN "settle" ELSE "stale"
    OBVIOUS
  <2>5. PICK todo : todo = job.todo \ {p}
    OBVIOUS
  <2>6. job' = [job EXCEPT !.st = st, !.todo = todo, !.pc = pc]
    BY <2>1, <2>3, <2>4, <2>5
  <2>7. todo \subseteq Ptys
    BY <1>1, <2>5, JobFields
  <2>8. UNCHANGED req /\ job.pc = "stale"
    BY <1>8 DEF DetachStale
  <2> QED BY <1>1, <1>5, <2>3, <2>4, <2>6, <2>7, <2>8 DEF Jobs
<1>9. CASE Settle
  <2>1. \/ End(TRUE, job.st) \/ End(FALSE, job.st)
        \/ /\ UNCHANGED req /\ ~job.last
           /\ job' = [job EXCEPT !.pc = IF job.op = "attach" THEN "exec" ELSE "act"]
    BY <1>9 DEF Settle
  <2>2. CASE UNCHANGED req /\ ~job.last /\ job' = [job EXCEPT !.pc = IF job.op = "attach" THEN "exec" ELSE "act"]
    <3>1. PICK pc \in {"exec", "act"} : pc = IF job.op = "attach" THEN "exec" ELSE "act"
      OBVIOUS
    <3>2. job' = [job EXCEPT !.pc = pc] /\ job.pc = "settle"
      BY <1>9, <2>2, <3>1 DEF Settle
    <3> QED BY <1>1, <1>5, <2>2, <3>1, <3>2 DEF Jobs
  <2> QED BY <1>3, <2>1, <2>2
<1>10. CASE Act
  <2>1. pane' \in Panes /\ client' \in Clients
    BY <1>10, KernelTyped DEF Next, JobStep
  <2>2. PICK st \in Statuses : st = Observed(pane', client')
    <3>1. ASSUME NEW p \in Panes, NEW cl \in Clients PROVE \E st \in Statuses : st = Observed(p, cl)
      BY <1>4
    <3> QED BY <2>1, <3>1
  <2>3. PICK b \in BOOLEAN : b = ((job.op = "ensure" /\ pane = "missing" /\ again) \/ job.op = "resume")
    OBVIOUS
  <2>4. job' = [job EXCEPT !.pc = "reconcile", !.last = TRUE, !.st = st, !.resumed = b]
    BY <1>10, <2>2, <2>3 DEF Act
  <2>5. UNCHANGED req /\ job.pc = "act"
    BY <1>10 DEF Act
  <2> QED BY <1>1, <1>5, <2>2, <2>4, <2>5 DEF Jobs
<1>11. CASE Exec
  <2>1. End(FALSE, job.st) \/ (job' = [job EXCEPT !.pc = "find"] /\ UNCHANGED req /\ job.pc = "exec")
    BY <1>11 DEF Exec
  <2>2. CASE job' = [job EXCEPT !.pc = "find"] /\ UNCHANGED req /\ job.pc = "exec"
    BY <1>1, <1>5, <2>2 DEF Jobs
  <2> QED BY <1>3, <2>1, <2>2
<1>12. CASE Find
  <2>1. job' = [job EXCEPT !.pc = "status", !.last = TRUE] /\ UNCHANGED req /\ job.pc = "find"
    BY <1>12 DEF Find
  <2> QED BY <1>1, <1>5, <2>1 DEF Jobs
<1>13. CASE Unhook
  <2>1. job' = [job EXCEPT !.pc = "status", !.todo = {}] /\ UNCHANGED req /\ job.pc = "unhook"
    BY <1>13 DEF Unhook
  <2> QED BY <1>1, <1>5, <2>1 DEF Jobs
<1>14. CASE ResumeRefused \/ FindFails \/ CallFails
  BY <1>3, <1>14 DEF ResumeRefused, FindFails, CallFails
<1> QED BY <1>6, <1>7, <1>8, <1>9, <1>10, <1>11, <1>12, <1>13, <1>14 DEF JobStep

\* only one handler moves, and never the one whose job is under way
LEMMA HandlerAlone ==
  ASSUME TypeOK, JobInv, NEW x \in Tasks, Ask(x) \/ Acquire(x) \/ TaskStep(x)
  PROVE  job' = job /\ x # job.by /\ \A y \in Tasks \ {x} : req'[y] = req[y]
<1>1. req \in [Tasks -> Requests]
  BY TypesOf
<1>2. req[x].pc \notin AtHost => x # job.by
  BY Distinct DEF JobInv
<1>3. CASE Ask(x)
  <2>1. req[x].pc = "idle"
    BY <1>3 DEF Ask
  <2>2. job' = job /\ \A y \in Tasks \ {x} : req'[y] = req[y]
    BY <1>1, <1>3 DEF Ask, AskUnlocked, CreateCli, AskEnsure, AskKill, AskLocked, hostVars
  <2> QED BY <1>2, <2>1, <2>2 DEF AtHost
<1>4. CASE Acquire(x)
  <2>1. req[x].pc = "lock" /\ job' = job
    BY <1>4 DEF Acquire, hostVars
  <2>2. \A y \in Tasks \ {x} : req'[y] = req[y]
    BY <1>1, <1>4 DEF Acquire, Return
  <2> QED BY <1>2, <2>1, <2>2 DEF AtHost
<1>5. CASE CreateRuntime(x) \/ CreateFails(x) \/ LaunchFails(x) \/ Register(x) \/ PersistFails(x)
           \/ Forget(x) \/ Remove(x)
  <2>1. req[x].pc \in {"create", "register", "persist", "forget", "remove"} /\ job' = job
    BY <1>5 DEF CreateRuntime, CreateFails, LaunchFails, Register, PersistFails, Forget, Remove, hostVars
  <2>2. \A y \in Tasks \ {x} : req'[y] = req[y]
    BY <1>1, <1>5 DEF CreateRuntime, CreateFails, LaunchFails, Register, PersistFails, Forget, Remove, Goto
  <2> QED BY <1>2, <2>1, <2>2 DEF AtHost
<1>6. CASE Persist(x) \/ MarkError(x) \/ RemoveFails(x) \/ Drop(x) \/ Erase(x)
  <2>1. req[x].pc \in {"persist", "failed", "remove", "drop", "erase"} /\ job' = job
    BY <1>6 DEF Persist, MarkError, RemoveFails, Drop, Erase, hostVars
  <2>2. \A y \in Tasks \ {x} : req'[y] = req[y]
    BY <1>1, <1>6 DEF Persist, MarkError, RemoveFails, Drop, Erase, Goto, Return
  <2> QED BY <1>2, <2>1, <2>2 DEF AtHost
<1>7. CASE Apply(x)
  <2>1. req[x].pc = "apply" /\ job' = job
    BY <1>7 DEF Apply, hostVars
  <2>2. \A y \in Tasks \ {x} : req'[y] = req[y]
    BY <1>1, <1>7 DEF Apply, Return
  <2> QED BY <1>2, <2>1, <2>2 DEF AtHost
<1>8. CASE RecordMissing(x)
  BY <1>1, <1>8 DEF RecordMissing, hostVars
<1> QED BY <1>3, <1>4, <1>5, <1>6, <1>7, <1>8 DEF TaskStep

LEMMA SocketAlone ==
  ASSUME TypeOK, JobInv, NEW a \in Sockets,
         SocketStep(a) \/ QueueFull(a) \/ Leave(a) \/ ResizeRefused(a) \/ ProxyEnds(a)
         \/ Appear(a) \/ NothingToAttach(a) \/ Depart(a)
  PROVE  /\ job' = job
         /\ \/ UNCHANGED req
            \/ /\ a # job.by /\ (\A y \in Tasks \ {a} : req'[y] = req[y])
               /\ req'[a].pc \in {"ending", "detach"} /\ UNCHANGED <<client, lease, told>>
<1>1. req \in [Tasks -> Requests] /\ a \in Tasks
  BY TypesOf DEF Tasks
<1>2. CASE Hear(a) \/ Leave(a) \/ ResizeRefused(a) \/ ProxyEnds(a)
  <2>1. /\ req[a].pc = "served" /\ job' = job /\ UNCHANGED <<client, lease, told>>
        /\ Goto(a, "ending") \/ Goto(a, "detach")
    BY <1>2 DEF Hear, Leave, ResizeRefused, ProxyEnds, kernelVars, hostVars
  <2>2. a # job.by
    BY <2>1, Distinct, <1>1 DEF JobInv, AtHost
  <2>3. ASSUME NEW pc \in {"ending", "detach"}, Goto(a, pc)
        PROVE  req'[a].pc = pc /\ \A y \in Tasks \ {a} : req'[y] = req[y]
    BY <1>1, <2>3, GotoPasses DEF Passes, ReqPcs, AtHost
  <2> QED BY <2>1, <2>2, <2>3
<1>3. CASE ExecOver(a) \/ PaneMonitor(a) \/ QueueFull(a)
  BY <1>3 DEF ExecOver, PaneMonitor, QueueFull, Tell
<1>4. CASE Appear(a) \/ NothingToAttach(a) \/ Depart(a)
  BY <1>4 DEF Appear, NothingToAttach, Depart, hostVars
<1> QED BY <1>2, <1>3, <1>4 DEF SocketStep

\* a job begins
LEMMA LockEffect ==
  ASSUME TypeOK, RecInv, NEW x \in Tasks, Lock(x)
  PROVE  /\ job = NoJob /\ req[x].pc \in AtHost
         /\ \/ job' = NoJob
            \/ /\ job' \in Jobs /\ UNCHANGED req
               /\ job'.by = x /\ job'.op = JobOp(req[x])
               /\ job'.pc \in {"act", "status", "unhook"}
               /\ job'.pc = "act" => job'.op = "stop"
               /\ job'.pc = "unhook" => job'.op = "detach"
               /\ job'.last = (job'.op \in {"status", "stop", "detach"})
<1>1. job = NoJob /\ req[x].pc \in AtHost
  BY DEF Lock
<1>2. PICK b : b = Begin(x)
  OBVIOUS
<1>3. /\ b \in Jobs /\ b.by = x /\ b.op = JobOp(req[x])
      /\ b.pc = IF JobOp(req[x]) = "stop" THEN "act" ELSE "status"
      /\ b.last = (JobOp(req[x]) \in {"status", "stop", "detach"})
  BY <1>2, BeginTyped
<1>4. CASE job' = b /\ UNCHANGED req
  BY <1>1, <1>3, <1>4
<1>5. CASE /\ req[x].pc = "detach" /\ lease[x] # NoLease /\ lease[x] # NoPty
           /\ job' = [b EXCEPT !.pc = "unhook", !.todo = {lease[x]}] /\ UNCHANGED req
  <2>1. x \in Sockets
    BY <1>5 DEF RecInv, ReadInv, AtSocket
  <2>2. lease[x] \in Ptys
    BY <1>5, <2>1, TypesOf
  <2>3. JobOp(req[x]) = "detach"
    BY <1>5 DEF JobOp
  <2>4. "unhook" \in JobPcs
    BY DEF JobPcs
  <2>5. /\ job' \in Jobs /\ job'.by = b.by /\ job'.op = b.op /\ job'.pc = "unhook" /\ job'.last = b.last
    BY <1>3, <1>5, <2>2, <2>4 DEF Jobs
  <2> QED BY <1>1, <1>3, <1>5, <2>3, <2>5
<1>6. CASE job' = job
  BY <1>1, <1>6
<1> QED BY <1>1, <1>2, <1>4, <1>5, <1>6 DEF Lock

LEMMA KeptJob ==
  ASSUME JobInv, job' = job, job.by # NoTask => req'[job.by] = req[job.by]
  PROVE  JobInv'
<1> QED BY DEF JobInv, JobOp

LEMMA EmptyJob ==
  ASSUME job' = NoJob
  PROVE  JobInv' /\ job' \in Jobs
<1> QED BY NoJobTyped DEF JobInv

LEMMA StepJob ==
  ASSUME TypeOK, RecInv, JobInv, [Next]_vars
  PROVE  JobInv' /\ job' \in Jobs
<1>1. job \in Jobs /\ (job.by # NoTask => job.by \in Tasks)
  BY TypesOf, JobFields
<1>2. CASE UNCHANGED vars
  BY <1>1, <1>2, KeptJob DEF vars, hostVars
<1>3. ASSUME NEW x \in Tasks, Ask(x) \/ Acquire(x) \/ TaskStep(x) PROVE JobInv' /\ job' \in Jobs
  BY <1>1, <1>3, HandlerAlone, KeptJob
<1>4. ASSUME NEW x \in Tasks, Lock(x) PROVE JobInv' /\ job' \in Jobs
  <2>1. CASE job' = NoJob
    BY <2>1, EmptyJob
  <2>2. CASE job' # NoJob
    <3>1. /\ job' \in Jobs /\ UNCHANGED req /\ req[x].pc \in AtHost
          /\ job'.by = x /\ job'.op = JobOp(req[x])
          /\ job'.pc \in {"act", "status", "unhook"}
          /\ job'.pc = "act" => job'.op = "stop"
          /\ job'.pc = "unhook" => job'.op = "detach"
          /\ job'.last = (job'.op \in {"status", "stop", "detach"})
      BY <1>4, <2>2, LockEffect
    <3>2. job'.by # NoTask => req'[job'.by].pc \in AtHost /\ job'.op = JobOp(req'[job'.by])
      BY <3>1
    <3>3. job'.pc # "none" => job'.by # NoTask
      BY <3>1, Distinct
    <3>4. job'.op \in {"status", "detach"} => job'.last
      BY <3>1
    <3> QED BY <3>1, <3>2, <3>3, <3>4 DEF JobInv
  <2> QED BY <2>1, <2>2
<1>5. CASE JobStep
  <2>1. CASE job' = NoJob
    BY <2>1, EmptyJob
  <2>2. CASE job' # NoJob
    <3>1. /\ job' \in Jobs /\ UNCHANGED req /\ job'.by = job.by /\ job'.op = job.op
          /\ \/ job.pc = "status" /\ job'.pc = "reconcile" /\ job'.last = job.last
             \/ job.pc = "reconcile" /\ job'.pc \in {"stale", "settle"} /\ job'.last = job.last
             \/ job.pc = "stale" /\ job'.pc \in {"stale", "settle"} /\ job'.last = job.last
             \/ /\ job.pc = "settle" /\ ~job.last /\ job'.last = job.last
                /\ job'.pc = IF job.op = "attach" THEN "exec" ELSE "act"
             \/ job.pc = "act" /\ job'.pc = "reconcile" /\ job'.last
             \/ job.pc = "exec" /\ job'.pc = "find" /\ job'.last = job.last
             \/ job.pc = "find" /\ job'.pc = "status" /\ job'.last
             \/ job.pc = "unhook" /\ job'.pc = "status" /\ job'.last = job.last
      BY <1>5, <2>2, JobEffect
    <3>2. job.by # NoTask
      BY <3>1 DEF JobInv
    <3>3. job.op \in {"status", "ensure", "stop", "resume", "attach", "detach"}
      BY <1>1, <3>2, TypesOf, JobOpTyped DEF JobInv
    <3>4. job'.by # NoTask => req'[job'.by].pc \in AtHost /\ job'.op = JobOp(req'[job'.by])
      BY <3>1, <3>2 DEF JobInv
    <3>5. job'.pc \in {"exec", "find"} => job'.op = "attach" /\ ~job'.last
      BY <3>1 DEF JobInv
    <3>6. job'.pc = "act" => job'.op \in {"ensure", "stop", "resume"}
      BY <3>1, <3>3 DEF JobInv
    <3>7. job'.op \in {"status", "detach"} => job'.last
      BY <3>1 DEF JobInv
    <3>8. job'.pc # "unhook"
      BY <3>1
    <3> QED BY <3>1, <3>2, <3>4, <3>5, <3>6, <3>7, <3>8 DEF JobInv
  <2> QED BY <2>1, <2>2
<1>6. ASSUME NEW a \in Sockets,
             SocketStep(a) \/ QueueFull(a) \/ Leave(a) \/ ResizeRefused(a)
             \/ ProxyEnds(a) \/ Appear(a) \/ NothingToAttach(a) \/ Depart(a)
      PROVE  JobInv' /\ job' \in Jobs
  BY <1>1, <1>6, SocketAlone, KeptJob
<1>7. CASE PaneExits \/ ContainerDies
  BY <1>1, <1>7, KeptJob DEF PaneExits, ContainerDies, hostVars
<1>8. CASE HostRestarts
  BY <1>8, EmptyJob DEF HostRestarts
<1> QED BY <1>2, <1>3, <1>4, <1>5, <1>6, <1>7, <1>8 DEF Next

LEMMA StepTyped ==
  ASSUME TypeOK, RecInv, JobInv, [Next]_vars
  PROVE  TypeOK'
<1>1. registered' \in BOOLEAN
  <2>1. registered' \in {registered, TRUE, FALSE}
    <3>1. ASSUME NEW x \in Tasks, Ask(x) \/ Acquire(x) \/ TaskStep(x) \/ Lock(x)
          PROVE  registered' \in {registered, TRUE, FALSE}
      BY <3>1 DEF Ask, AskUnlocked, CreateCli, AskEnsure, AskKill, AskLocked, Acquire, TaskStep, CreateRuntime,
                  CreateFails, LaunchFails, Register, Persist, PersistFails, MarkError, Apply, Forget, Remove,
                  RemoveFails, Drop, Erase, RecordMissing, Lock, hostVars
    <3>2. CASE JobStep
      BY <3>2 DEF JobStep, GetStatus, Reconcile, DetachStale, Settle, Act, ResumeRefused, Exec, Find, FindFails,
                  Unhook, CallFails
    <3>3. ASSUME NEW a \in Sockets,
                 SocketStep(a) \/ QueueFull(a) \/ Leave(a) \/ ResizeRefused(a)
                 \/ ProxyEnds(a) \/ Appear(a) \/ NothingToAttach(a) \/ Depart(a)
          PROVE  registered' \in {registered, TRUE, FALSE}
      BY <3>3 DEF SocketStep, ExecOver, PaneMonitor, Hear, QueueFull, Tell, Leave, ResizeRefused,
                  ProxyEnds, Appear, NothingToAttach, Depart, hostVars
    <3>4. CASE PaneExits \/ ContainerDies \/ HostRestarts \/ UNCHANGED vars
      BY <3>4 DEF PaneExits, ContainerDies, HostRestarts, vars, hostVars
    <3> QED BY <3>1, <3>2, <3>3, <3>4 DEF Next
  <2> QED BY <2>1 DEF TypeOK
<1>2. faults' \in 0..MaxFaults
  <2>1. ASSUME NEW kind, Fault(kind) PROVE faults' \in 0..MaxFaults
    BY <2>1, TerminalAssumption DEF Fault, TypeOK
  <2>2. ASSUME UNCHANGED faults PROVE faults' \in 0..MaxFaults
    BY <2>2 DEF TypeOK
  <2>3. ASSUME NEW x \in Tasks, Ask(x) \/ Acquire(x) \/ TaskStep(x) \/ Lock(x)
        PROVE  UNCHANGED faults \/ \E kind \in FaultKinds : Fault(kind)
    BY <2>3 DEF Ask, AskUnlocked, CreateCli, AskEnsure, AskKill, AskLocked, Acquire, TaskStep, CreateRuntime,
                CreateFails, LaunchFails, Register, Persist, PersistFails, MarkError, Apply, Forget, Remove,
                RemoveFails, Drop, Erase, RecordMissing, Lock, Fault
  <2>4. CASE JobStep
    <3>1. UNCHANGED faults \/ \E kind \in FaultKinds : Fault(kind)
      BY <2>4 DEF JobStep, GetStatus, Reconcile, DetachStale, Settle, Act, ResumeRefused, Exec, Find, FindFails,
                  Unhook, CallFails, Fault
    <3> QED BY <3>1, <2>1, <2>2
  <2>5. ASSUME NEW a \in Sockets,
               SocketStep(a) \/ QueueFull(a) \/ Leave(a) \/ ResizeRefused(a)
               \/ ProxyEnds(a) \/ Appear(a) \/ NothingToAttach(a) \/ Depart(a)
        PROVE  UNCHANGED faults \/ \E kind \in FaultKinds : Fault(kind)
    BY <2>5 DEF SocketStep, ExecOver, PaneMonitor, Hear, QueueFull, Tell, Leave, ResizeRefused,
                ProxyEnds, Appear, NothingToAttach, Depart, Fault
  <2>6. CASE PaneExits \/ ContainerDies \/ HostRestarts \/ UNCHANGED vars
    <3>1. UNCHANGED faults \/ \E kind \in FaultKinds : Fault(kind)
      BY <2>6 DEF PaneExits, ContainerDies, HostRestarts, vars, Fault
    <3> QED BY <3>1, <2>1, <2>2
  <2> QED BY <2>1, <2>2, <2>3, <2>4, <2>5, <2>6 DEF Next
<1> QED BY <1>1, <1>2, ReqTyped, RowTyped, KernelTyped, LeasesTyped, StepJob
        DEF TypeOK, Requests, Jobs, Clients, Leases

----------------------------------------------------------------------------
(* Attachments.                                                            *)

\* a is served, or its attachment is made and looked at a last time
Served(a) == req[a].pc = "served" \/ (job.by = a /\ job.op = "attach" /\ job.last)

Well(a) == told[a] # "none" \/ client[a] = "gone" \/ Attached(a)

Finding(a) == job.by = a /\ job.pc = "find"

WellFound(a) == lease[a] = NoPty \/ (lease[a] = NoLease /\ told[a] # "none")

LEMMA AttachParts ==
  AttachInv <=> \A a \in Sockets : (Served(a) => Well(a)) /\ (Finding(a) => WellFound(a))
<1> QED BY DEF AttachInv, Served, Well, Finding, WellFound

\* what a step may do to a socket without disturbing it
LEMMA KeptAttach ==
  ASSUME TypeOK, AttachInv, NEW a \in Sockets,
         Served(a)' => Served(a), Finding(a)' => Finding(a),
         \/ client'[a] = client[a]
         \/ client'[a] = "gone"
         \/ client[a] \in {"starting", "none"},
         \/ lease'[a] = lease[a] /\ (told[a] # "none" => told'[a] # "none")
         \/ lease'[a] = NoLease /\ told'[a] # "none"
  PROVE  (Served(a)' => Well(a)') /\ (Finding(a)' => WellFound(a)')
<1>1. (Served(a) => Well(a)) /\ (Finding(a) => WellFound(a))
  BY AttachParts
<1>2. client[a] \in {"starting", "none"} => client[a] # "gone" /\ client[a] \notin Ptys
  BY Distinct
<1> QED BY <1>1, <1>2 DEF Well, WellFound, Attached

\* no handler starts to be served by itself
LEMMA HandlerNotServed ==
  ASSUME TypeOK, NEW x \in Tasks, Ask(x) \/ Acquire(x) \/ TaskStep(x)
  PROVE  req'[x].pc # "served"
<1>1. req \in [Tasks -> Requests]
  BY TypesOf
<1>2. ASSUME NEW pc \in ReqPcs \ {"served"}, Goto(x, pc) PROVE req'[x].pc # "served"
  BY <1>1, <1>2, GotoPasses DEF Passes
<1>3. ASSUME Return(x) PROVE req'[x].pc # "served"
  BY <1>1, <1>3, ReturnReturns DEF Returned
<1>4. ASSUME NEW r, req' = [req EXCEPT ![x] = r], r.pc # "served" PROVE req'[x].pc # "served"
  BY <1>1, <1>4
<1>5. CASE Ask(x)
  <2>1. CASE AskUnlocked(x)
    <3>1. PICK op : op = IF x \in Sockets THEN "ws" ELSE "status"
      OBVIOUS
    <3>2. PICK r : r = [NoReq EXCEPT !.op = op, !.pc = "call", !.row = row]
      OBVIOUS
    <3>3. r.pc = "call"
      BY <3>2, NoReqTyped DEF Requests
    <3>4. req' = [req EXCEPT ![x] = r]
      BY <2>1, <3>1, <3>2 DEF AskUnlocked
    <3> QED BY <3>3, <3>4, <1>4
  <2>2. ASSUME NEW op, NEW pc \in {"create", "lock", "forget"},
               req' = [req EXCEPT ![x] = [NoReq EXCEPT !.op = op, !.pc = pc]]
        PROVE  req'[x].pc # "served"
    <3>1. PICK r : r = [NoReq EXCEPT !.op = op, !.pc = pc]
      OBVIOUS
    <3>2. r.pc = pc
      BY <3>1, NoReqTyped DEF Requests
    <3> QED BY <2>2, <3>1, <3>2, <1>4
  <2> QED BY <1>5, <2>1, <2>2 DEF Ask, CreateCli, AskEnsure, AskKill, AskLocked
<1>6. CASE Acquire(x)
  <2>1. CASE Admitted(req[x].op)
    <3>1. PICK pc : pc = AfterLock(req[x].op)
      OBVIOUS
    <3>2. PICK rr : rr = IF req[x].op = "delete" THEN NewRow ELSE row
      OBVIOUS
    <3>3. PICK r : r = [req[x] EXCEPT !.pc = pc, !.row = rr]
      OBVIOUS
    <3>4. r.pc = pc /\ pc # "served"
      BY <1>1, <3>1, <3>3, RequestFields DEF AfterLock, Requests
    <3>5. req' = [req EXCEPT ![x] = r]
      BY <1>6, <2>1, <3>1, <3>2, <3>3 DEF Acquire
    <3> QED BY <3>4, <3>5, <1>4
  <2>2. CASE ~Admitted(req[x].op)
    BY <1>3, <1>6, <2>2 DEF Acquire
  <2> QED BY <2>1, <2>2
<1>7. CASE CreateRuntime(x) \/ CreateFails(x) \/ LaunchFails(x) \/ Register(x) \/ PersistFails(x)
           \/ Forget(x) \/ Remove(x)
  BY <1>2, <1>7 DEF CreateRuntime, CreateFails, LaunchFails, Register, PersistFails, Forget, Remove,
                    ReqPcs, AtHost
<1>8. CASE Persist(x)
  <2>1. PICK w : w = Persisted(req[x].row)
    OBVIOUS
  <2>2. PICK r : r = [req[x] EXCEPT !.pc = "call", !.row = w]
    OBVIOUS
  <2>3. r.pc = "call"
    BY <1>1, <2>2, RequestFields DEF Requests
  <2> QED BY <1>4, <1>8, <2>1, <2>2, <2>3 DEF Persist
<1>9. CASE MarkError(x) \/ RemoveFails(x) \/ Erase(x)
  BY <1>3, <1>9 DEF MarkError, RemoveFails, Erase
<1>10. CASE Drop(x)
  <2>1. Goto(x, "erase") \/ Return(x)
    BY <1>10 DEF Drop
  <2> QED BY <2>1, <1>2, <1>3 DEF ReqPcs
<1>11. CASE Apply(x)
  <2>1. PICK r : r = [NoReq EXCEPT !.op = "ws", !.pc = "upgrade"]
    OBVIOUS
  <2>2. r.pc = "upgrade"
    BY <2>1, NoReqTyped DEF Requests
  <2>3. Return(x) \/ req' = [req EXCEPT ![x] = r]
    BY <1>11, <2>1 DEF Apply
  <2> QED BY <2>2, <2>3, <1>3, <1>4
<1>12. CASE RecordMissing(x)
  <2>1. Passes(x, OnError[req[x].pc]) /\ req[x].pc \in AtHost
    BY <1>12, RecordMissingPasses
  <2> QED BY <2>1 DEF Passes, OnError, AtHost
<1> QED BY <1>5, <1>6, <1>7, <1>8, <1>9, <1>10, <1>11, <1>12 DEF TaskStep

LEMMA HandlerAttach ==
  ASSUME TypeOK, JobInv, AttachInv, NEW x \in Tasks, Ask(x) \/ Acquire(x) \/ TaskStep(x)
  PROVE  AttachInv'
<1> SUFFICES ASSUME NEW a \in Sockets
             PROVE  (Served(a)' => Well(a)') /\ (Finding(a)' => WellFound(a)')
  BY AttachParts DEF AttachInv, Served, Well, Finding, WellFound, Attached
<1>1. job' = job /\ \A y \in Tasks \ {x} : req'[y] = req[y]
  BY HandlerAlone
<1>2. (Served(a)' => Served(a)) /\ (Finding(a)' => Finding(a))
  BY <1>1, HandlerNotServed DEF Served, Finding, Tasks
<1>3. client'[a] = client[a] \/ client'[a] = "gone" \/ client[a] \in {"starting", "none"}
  <2>1. CASE Remove(x)
    BY <2>1 DEF Remove, AllGone
  <2>2. CASE ~Remove(x)
    BY <2>2 DEF Ask, AskUnlocked, CreateCli, AskEnsure, AskKill, AskLocked, Acquire, TaskStep, CreateRuntime,
                CreateFails, LaunchFails, Register, Persist, PersistFails, MarkError, Apply, Forget,
                RemoveFails, Drop, Erase, RecordMissing, kernelVars
  <2> QED BY <2>1, <2>2
<1>4. \/ lease'[a] = lease[a] /\ (told[a] # "none" => told'[a] # "none")
      \/ lease'[a] = NoLease /\ told'[a] # "none"
  <2>1. CASE Forget(x)
    BY <2>1 DEF Forget
  <2>2. CASE ~Forget(x)
    BY <2>2 DEF Ask, AskUnlocked, CreateCli, AskEnsure, AskKill, AskLocked, Acquire, TaskStep, CreateRuntime,
                CreateFails, LaunchFails, Register, Persist, PersistFails, MarkError, Apply, Remove,
                RemoveFails, Drop, Erase, RecordMissing, hostVars
  <2> QED BY <2>1, <2>2
<1> QED BY <1>2, <1>3, <1>4, KeptAttach

LEMMA LockAttach ==
  ASSUME TypeOK, RecInv, AttachInv, NEW x \in Tasks, Lock(x)
  PROVE  AttachInv'
<1> SUFFICES ASSUME NEW a \in Sockets
             PROVE  (Served(a)' => Well(a)') /\ (Finding(a)' => WellFound(a)')
  BY AttachParts DEF AttachInv, Served, Well, Finding, WellFound, Attached
<1>1. a \in Tasks /\ req \in [Tasks -> Requests] /\ lease \in [Sockets -> Ptys \cup {NoPty, NoLease}]
  BY TypesOf DEF Tasks
<1>2. client' = client /\ told' = told
  BY DEF Lock, kernelVars
<1>3. ~(job'.op = "attach" /\ job'.last) /\ job'.pc # "find"
  BY LockEffect, NoJobTyped
<1>4. lease'[a] = lease[a] \/ (a = x /\ req[x].pc = "detach")
  BY <1>1 DEF Lock
<1>5. req'[a].pc = "served" => req[a].pc = "served" /\ a # x
  <2>1. CASE UNCHANGED req
    <3>1. req[x].pc \in AtHost
      BY DEF Lock
    <3> QED BY <2>1, <3>1 DEF AtHost
  <2>2. CASE ~UNCHANGED req
    <3>1. Passes(x, OnOk[req[x].pc]) /\ req[x].pc = "detach"
      BY <2>2, LockPasses DEF Lock
    <3>2. req'[x].pc = "done"
      BY <3>1 DEF Passes, OnOk
    <3> QED BY <1>1, <3>1, <3>2 DEF Passes
  <2> QED BY <2>1, <2>2
<1>6. (Served(a)' => Served(a)) /\ ~Finding(a)'
  BY <1>3, <1>5 DEF Served, Finding
<1>7. CASE lease'[a] = lease[a]
  BY <1>2, <1>6, <1>7, KeptAttach
<1>8. CASE a = x /\ req[x].pc = "detach"
  <2>1. ~Served(a)'
    BY <1>3, <1>5, <1>8 DEF Served
  <2> QED BY <1>6, <2>1
<1> QED BY <1>4, <1>7, <1>8

\* after an end without success nobody is served who was not
LEMMA EndAttach ==
  ASSUME TypeOK, JobInv, NEW ok \in BOOLEAN, End(ok, job.st), job.pc # "none", NEW a \in Sockets
  PROVE  /\ ~Finding(a)'
         /\ Served(a)' => \/ a # job.by /\ Served(a)
                          \/ ok /\ a = job.by /\ job.op = "attach"
<1>1. req \in [Tasks -> Requests] /\ job \in Jobs /\ job.by \in Tasks /\ job.by # NoTask /\ a \in Tasks
  BY TypesOf, JobFields DEF JobInv, Tasks
<1>2. job.st \in Statuses
  BY <1>1, JobFields
<1>3. /\ job' = NoJob
      /\ \/ ok /\ Passes(job.by, OnOk[req[job.by].pc])
         \/ Passes(job.by, OnError[req[job.by].pc])
  BY <1>1, <1>2, EndPasses
<1>4. job'.pc = "none" /\ job'.op = "none"
  BY <1>3, NoJobTyped
<1>5. req[job.by].pc \in AtHost /\ job.op = JobOp(req[job.by])
  BY <1>1 DEF JobInv
<1>6. a # job.by => req'[a] = req[a]
  BY <1>1, <1>3 DEF Passes
<1>7. ASSUME a = job.by, req'[a].pc = "served" PROVE ok /\ job.op = "attach"
  <2>1. OnError[req[a].pc] # "served"
    BY <1>5, <1>7 DEF OnError, AtHost
  <2>2. ok /\ OnOk[req[a].pc] = "served"
    BY <1>3, <1>7, <2>1 DEF Passes
  <2>3. req[a].pc = "attach"
    BY <1>5, <1>7, <2>2 DEF OnOk, AtHost
  <2> QED BY <1>5, <1>7, <2>2, <2>3 DEF JobOp
<1> QED BY <1>4, <1>6, <1>7 DEF Served, Finding

LEMMA JobAttach ==
  ASSUME TypeOK, RecInv, JobInv, AttachInv, JobStep
  PROVE  AttachInv'
<1> SUFFICES ASSUME NEW a \in Sockets
             PROVE  (Served(a)' => Well(a)') /\ (Finding(a)' => WellFound(a)')
  BY AttachParts DEF AttachInv, Served, Well, Finding, WellFound, Attached
<1>1. /\ client \in Clients /\ lease \in [Sockets -> Ptys \cup {NoPty, NoLease}]
      /\ told \in [Sockets -> {"none", "ended", "error"}] /\ job \in Jobs /\ a \in Tasks
  BY TypesOf DEF Tasks
<1>2. (Served(a) => Well(a)) /\ (Finding(a) => WellFound(a))
  BY AttachParts
<1>3. ASSUME job' # NoJob PROVE UNCHANGED req /\ job'.by = job.by /\ job'.op = job.op
  BY <1>3, JobEffect
<1>4. CASE GetStatus \/ Reconcile
  <2>1. job'.by = job.by /\ job'.op = job.op /\ job'.last = job.last /\ job'.pc # "find" /\ UNCHANGED req
    BY <1>1, <1>4 DEF GetStatus, Reconcile, Jobs
  <2>2. UNCHANGED <<client, lease, told>>
    BY <1>4 DEF GetStatus, Reconcile, kernelVars
  <2> QED BY <2>1, <2>2, KeptAttach DEF Served, Finding
<1>5. CASE DetachStale
  <2>1. job'.by = job.by /\ job'.op = job.op /\ job'.last = job.last /\ job'.pc # "find" /\ UNCHANGED req
    BY <1>1, <1>5 DEF DetachStale, Jobs
  <2>2. UNCHANGED <<lease, told>> /\ (client'[a] = client[a] \/ client'[a] = "gone")
    BY <1>5 DEF DetachStale, Unhooked
  <2> QED BY <2>1, <2>2, KeptAttach DEF Served, Finding
<1>6. CASE Settle
  <2>1. client' = client
    BY <1>6 DEF Settle, kernelVars
  <2>2. \/ lease'[a] = lease[a] /\ told'[a] = told[a]
        \/ lease'[a] = NoLease /\ told'[a] = "error"
    BY <1>6 DEF Settle
  <2>3. (Served(a)' => Served(a)) /\ ~Finding(a)'
    <3>1. CASE job.last
      <4>1. End(TRUE, job.st) /\ job.pc # "none"
        BY <1>6, <3>1 DEF Settle
      <4> QED BY <3>1, <4>1, EndAttach DEF Served
    <3>2. CASE ~job.last /\ End(FALSE, job.st)
      <4>1. job.pc # "none"
        BY <1>6 DEF Settle
      <4> QED BY <3>2, <4>1, EndAttach DEF Served
    <3>3. CASE ~job.last /\ ~End(FALSE, job.st)
      <4>1. \/ job' = [job EXCEPT !.pc = "act"] /\ UNCHANGED req
            \/ job' = [job EXCEPT !.pc = "exec"] /\ UNCHANGED req
        BY <1>6, <3>3 DEF Settle
      <4>2. job'.by = job.by /\ job'.op = job.op /\ job'.last = job.last /\ job'.pc # "find" /\ UNCHANGED req
        BY <1>1, <4>1 DEF Jobs
      <4> QED BY <4>2 DEF Served, Finding
    <3> QED BY <3>1, <3>2, <3>3
  <2> QED BY <2>1, <2>2, <2>3, KeptAttach
<1>7. CASE Act
  <2>1. UNCHANGED <<lease, told, req>> /\ job.pc = "act"
    BY <1>7 DEF Act
  <2>2. client'[a] = client[a] \/ client'[a] = "gone"
    BY <1>7 DEF Act, KernelEnsure, KernelStop, KernelResume
  <2>3. job'.op = job.op /\ job'.pc = "reconcile"
    BY <1>1, <1>7 DEF Act, Jobs
  <2>4. job.op # "attach"
    BY <2>1 DEF JobInv
  <2>5. (Served(a)' => Served(a)) /\ ~Finding(a)'
    BY <2>1, <2>3, <2>4 DEF Served, Finding
  <2> QED BY <2>1, <2>2, <2>5, KeptAttach
<1>8. CASE ResumeRefused
  <2>1. UNCHANGED <<client, lease, told>> /\ job.pc # "none" /\ End(FALSE, job.st)
    BY <1>8 DEF ResumeRefused, kernelVars
  <2> QED BY <2>1, EndAttach, KeptAttach
<1>9. CASE Exec
  <2>1. job.pc = "exec" /\ told' = told /\ job.op = "attach" /\ ~job.last /\ job.by # NoTask
    BY <1>9 DEF Exec, JobInv
  <2>2. a # job.by => client'[a] = client[a] /\ lease'[a] = lease[a]
    BY <1>1, <1>9 DEF Exec, Clients
  <2>3. CASE End(FALSE, job.st)
    <3>1. ~Finding(a)' /\ (Served(a)' => a # job.by /\ Served(a))
      BY <2>1, <2>3, EndAttach
    <3> QED BY <2>1, <2>2, <3>1, KeptAttach
  <2>4. CASE /\ lease' = [lease EXCEPT ![job.by] = NoPty]
             /\ job' = [job EXCEPT !.pc = "find"]
             /\ UNCHANGED req
    <3>1. job'.by = job.by /\ job'.op = job.op /\ job'.last = job.last /\ job'.pc = "find"
      BY <1>1, <2>4 DEF Jobs
    <3>2. CASE a # job.by
      BY <2>1, <2>2, <2>4, <3>1, <3>2, KeptAttach DEF Served, Finding
    <3>3. CASE a = job.by
      <4>1. req[a].pc # "served"
        BY <2>1, <3>3 DEF JobInv, AtHost
      <4>2. lease'[a] = NoPty
        BY <1>1, <2>4, <3>3
      <4> QED BY <2>1, <2>4, <3>1, <3>3, <4>1, <4>2 DEF Served, WellFound
    <3> QED BY <3>2, <3>3
  <2> QED BY <1>9, <2>3, <2>4 DEF Exec
<1>10. CASE Find
  <2>1. client' = client /\ told' = told /\ UNCHANGED req /\ job.pc = "find" /\ client[job.by] \in Ptys
    BY <1>10 DEF Find, kernelVars
  <2>2. job'.by = job.by /\ job'.op = job.op /\ job'.pc = "status"
    BY <1>1, <1>10 DEF Find, Jobs
  <2>3. CASE a # job.by
    <3>1. lease'[a] = lease[a]
      BY <1>1, <1>10, <2>3 DEF Find
    <3> QED BY <2>1, <2>2, <2>3, <3>1, KeptAttach DEF Served, Finding
  <2>4. CASE a = job.by
    <3>1. lease[a] = NoPty \/ (lease[a] = NoLease /\ told[a] # "none")
      BY <1>2, <2>1, <2>4 DEF Finding, WellFound
    <3>2. lease'[a] = IF lease[a] = NoLease THEN NoLease ELSE client[a]
      BY <1>1, <1>10, <2>4 DEF Find
    <3>3. Well(a)'
      BY <2>1, <2>4, <3>1, <3>2, Distinct DEF Well, Attached
    <3> QED BY <2>2, <3>3 DEF Finding
  <2> QED BY <2>3, <2>4
<1>11. CASE FindFails \/ CallFails
  <2>1. client' = client /\ told' = told /\ job.pc # "none" /\ End(FALSE, job.st)
    BY <1>11 DEF FindFails, CallFails, kernelVars
  <2>2. a # job.by => lease'[a] = lease[a]
    BY <1>1, <1>11 DEF FindFails, CallFails
  <2>3. ~Finding(a)' /\ (Served(a)' => a # job.by /\ Served(a))
    BY <2>1, EndAttach
  <2> QED BY <2>1, <2>2, <2>3, KeptAttach
<1>12. CASE Unhook
  <2>1. UNCHANGED <<lease, req>> /\ job.pc = "unhook" /\ job.op = "detach" /\ job.by # NoTask
    BY <1>12 DEF Unhook, JobInv
  <2>2. client'[a] = client[a] \/ client'[a] = "gone"
    BY <1>12 DEF Unhook
  <2>3. job'.by = job.by /\ job'.op = job.op /\ job'.last = job.last /\ job'.pc = "status"
    BY <1>1, <1>12 DEF Unhook, Jobs
  <2>4. a # job.by => told'[a] = told[a]
    BY <1>1, <1>12 DEF Unhook
  <2>5. (Served(a)' => Served(a) /\ a # job.by) /\ ~Finding(a)'
    BY <2>1, <2>3 DEF Served, Finding, JobInv, AtHost
  <2> QED BY <2>1, <2>2, <2>4, <2>5, KeptAttach
<1> QED BY <1>4, <1>5, <1>6, <1>7, <1>8, <1>9, <1>10, <1>11, <1>12 DEF JobStep

LEMMA SocketAttach ==
  ASSUME TypeOK, JobInv, AttachInv, NEW b \in Sockets,
         SocketStep(b) \/ QueueFull(b) \/ Leave(b) \/ ResizeRefused(b) \/ ProxyEnds(b)
         \/ Appear(b) \/ NothingToAttach(b) \/ Depart(b)
  PROVE  AttachInv'
<1> SUFFICES ASSUME NEW a \in Sockets
             PROVE  (Served(a)' => Well(a)') /\ (Finding(a)' => WellFound(a)')
  BY AttachParts DEF AttachInv, Served, Well, Finding, WellFound, Attached
<1>1. /\ client \in Clients /\ told \in [Sockets -> {"none", "ended", "error"}] /\ a \in Tasks
  BY TypesOf DEF Tasks
<1>2. /\ job' = job
      /\ \/ UNCHANGED req
         \/ /\ b # job.by /\ (\A y \in Tasks \ {b} : req'[y] = req[y])
            /\ req'[b].pc \in {"ending", "detach"} /\ UNCHANGED <<client, lease, told>>
  BY SocketAlone
<1>3. (Served(a)' => Served(a)) /\ (Finding(a)' => Finding(a))
  BY <1>1, <1>2 DEF Served, Finding
<1>4. CASE ~UNCHANGED req
  BY <1>2, <1>3, <1>4, KeptAttach
<1>5. CASE ExecOver(b) \/ PaneMonitor(b) \/ QueueFull(b)
  BY <1>1, <1>3, <1>5, KeptAttach DEF ExecOver, PaneMonitor, QueueFull, Tell, kernelVars
<1>6. CASE Appear(b) \/ NothingToAttach(b) \/ Depart(b)
  <2>1. UNCHANGED <<lease, told>>
    BY <1>6 DEF Appear, NothingToAttach, Depart, hostVars
  <2>2. client'[a] = client[a] \/ client'[a] = "gone" \/ client[a] = "starting"
    BY <1>1, <1>6 DEF Appear, NothingToAttach, Depart, Clients
  <2> QED BY <1>3, <2>1, <2>2, KeptAttach
<1>7. CASE Hear(b) \/ Leave(b) \/ ResizeRefused(b) \/ ProxyEnds(b)
  <2>1. UNCHANGED <<client, lease, told>>
    BY <1>7 DEF Hear, Leave, ResizeRefused, ProxyEnds, kernelVars, hostVars
  <2> QED BY <1>3, <2>1, KeptAttach
<1> QED BY <1>4, <1>5, <1>6, <1>7 DEF SocketStep

LEMMA StepAttach ==
  ASSUME TypeOK, RecInv, JobInv, AttachInv, [Next]_vars
  PROVE  AttachInv'
<1>1. CASE UNCHANGED vars
  BY <1>1 DEF vars, hostVars, kernelVars, AttachInv, Attached
<1>2. ASSUME NEW x \in Tasks, Ask(x) \/ Acquire(x) \/ TaskStep(x) PROVE AttachInv'
  BY <1>2, HandlerAttach
<1>3. ASSUME NEW x \in Tasks, Lock(x) PROVE AttachInv'
  BY <1>3, LockAttach
<1>4. CASE JobStep
  BY <1>4, JobAttach
<1>5. ASSUME NEW a \in Sockets,
             SocketStep(a) \/ QueueFull(a) \/ Leave(a) \/ ResizeRefused(a)
             \/ ProxyEnds(a) \/ Appear(a) \/ NothingToAttach(a) \/ Depart(a)
      PROVE  AttachInv'
  BY <1>5, SocketAttach
<1>6. CASE PaneExits
  BY <1>6 DEF PaneExits, hostVars, AttachInv, Attached
<1>7. CASE ContainerDies
  <2>1. UNCHANGED <<lease, told, job, req>> /\ client' = AllGone
    BY <1>7 DEF ContainerDies, hostVars
  <2>2. ASSUME NEW a \in Sockets PROVE (Served(a)' => Well(a)') /\ (Finding(a)' => WellFound(a)')
    <3>1. client'[a] = client[a] \/ client'[a] = "gone"
      BY <2>1 DEF AllGone
    <3>2. (Served(a)' => Served(a)) /\ (Finding(a)' => Finding(a))
      BY <2>1 DEF Served, Finding
    <3> QED BY <2>1, <3>1, <3>2, KeptAttach
  <2> QED BY <2>2 DEF AttachInv, Served, Well, Finding, WellFound, Attached
<1>8. CASE HostRestarts
  <2>1. job' = NoJob
    BY <1>8 DEF HostRestarts
  <2>2. ASSUME NEW a \in Sockets PROVE req'[a].pc # "served"
    <3>1. a \in Tasks
      BY DEF Tasks
    <3>2. req'[a] = Cut(a)
      BY <1>8, <3>1, RestartEffect
    <3> QED BY <3>1, <3>2, CutEffect, TypesOf
  <2> QED BY <2>1, <2>2, NoJobTyped DEF AttachInv
<1> QED BY <1>1, <1>2, <1>3, <1>4, <1>5, <1>6, <1>7, <1>8 DEF Next

\* an adoption in the hands of the job is disturbed by no step of others
LEMMA KeptAdopt ==
  ASSUME TypeOK, AdoptInv, job' = job,
         \A a \in Sockets : \/ client'[a] = client[a]
                            \/ client'[a] = "gone"
                            \/ client[a] \in {"starting", "none"},
         \A a \in Sockets : \/ lease'[a] = lease[a] /\ (told[a] # "none" => told'[a] # "none")
                            \/ lease'[a] = NoLease /\ told'[a] # "none"
  PROVE  AdoptInv'
<1>1. job.seen \in SUBSET [id : Ptys, att : Sockets] /\ job.active \subseteq Sockets
  BY TypesOf, JobFields
<1>2. SUFFICES ASSUME job.op = "status"
               PROVE  /\ job.pc = "reconcile" => job.seen = job.st.clients
                      /\ job.pc \in {"reconcile", "stale", "settle"} =>
                           \A c \in job.seen : client'[c.att] \in {c.id, "gone"}
                      /\ job.pc \in {"stale", "settle"} =>
                           \A c \in job.seen : client'[c.att] = c.id => c.id \in job.todo \/ Accounted(c)'
                      /\ job.pc = "settle" => job.todo = {}
  BY DEF AdoptInv
<1>3. ASSUME job.pc \in {"reconcile", "stale", "settle"}, NEW c \in job.seen
      PROVE  /\ client'[c.att] \in {c.id, "gone"}
             /\ client'[c.att] = c.id => client[c.att] = c.id
  <2>1. c.id \in Ptys /\ c.att \in Sockets
    BY <1>1
  <2>2. client[c.att] \in {c.id, "gone"}
    BY <1>2, <1>3 DEF AdoptInv
  <2> QED BY <2>1, <2>2, Distinct
<1>4. ASSUME job.pc \in {"stale", "settle"}, NEW c \in job.seen, client'[c.att] = c.id, c.id \notin job.todo
      PROVE  Accounted(c)'
  <2>1. client[c.att] = c.id
    BY <1>3, <1>4
  <2>2. Accounted(c)
    BY <1>2, <1>4, <2>1 DEF AdoptInv
  <2> QED BY <1>1, <2>2 DEF Accounted
<1> QED BY <1>2, <1>3, <1>4 DEF AdoptInv

LEMMA JobAdopt ==
  ASSUME TypeOK, JobInv, AdoptInv, JobStep
  PROVE  AdoptInv'
<1>1. job \in Jobs /\ client \in Clients /\ pane \in Panes /\ lease \in [Sockets -> Ptys \cup {NoPty, NoLease}]
  BY TypesOf
<1>2. CASE job' = NoJob
  BY <1>2, NoJobTyped DEF AdoptInv
<1>3. CASE job' # NoJob /\ job.op # "status"
  <2>1. job'.op = job.op
    BY <1>3, JobEffect
  <2> QED BY <1>3, <2>1 DEF AdoptInv
<1>4. CASE job' # NoJob /\ job.op = "status"
  <2>1. job.last /\ job.pc \notin {"act", "exec", "find", "unhook"}
    BY <1>4 DEF JobInv
  <2>2. CASE GetStatus
    <3>1. PICK st : st = Observed(pane, client)
      OBVIOUS
    <3>2. \A c \in st.clients : client[c.att] = c.id
      BY <1>1, <3>1, ObservedTyped
    <3>3. job' = [job EXCEPT !.pc = "reconcile", !.st = st, !.seen = st.clients] /\ client' = client
      BY <2>2, <3>1 DEF GetStatus, kernelVars
    <3>4. job'.pc = "reconcile" /\ job'.seen = job'.st.clients /\ job'.seen = st.clients
      BY <1>1, <3>3 DEF Jobs
    <3> QED BY <3>2, <3>3, <3>4 DEF AdoptInv
  <2>3. CASE Reconcile
    <3>1. PICK todo : todo = Stale(job.st)
      OBVIOUS
    <3>2. PICK pc \in {"settle", "stale"} : pc = IF todo = {} THEN "settle" ELSE "stale"
      OBVIOUS
    <3>3. /\ job' = [job EXCEPT !.active = Leased, !.todo = todo, !.pc = pc]
          /\ job.pc = "reconcile" /\ UNCHANGED <<client, lease, told>>
      BY <2>3, <3>1, <3>2 DEF Reconcile, kernelVars
    <3>4. job'.pc = pc /\ job'.seen = job.seen /\ job'.todo = todo /\ job'.active = Leased
      BY <1>1, <3>3 DEF Jobs
    <3>5. job.seen = job.st.clients /\ \A c \in job.seen : client[c.att] \in {c.id, "gone"}
      BY <1>4, <3>3 DEF AdoptInv
    <3>6. ASSUME NEW c \in job.seen, c.id \notin todo
          PROVE  \E a \in Leased : c.att = a \/ lease[a] = c.id
      BY <3>1, <3>5, <3>6 DEF Stale
    <3>7. ASSUME NEW c \in job.seen PROVE c.id \in todo \/ Accounted(c)'
      BY <3>3, <3>4, <3>6 DEF Accounted
    <3>8. pc = "settle" => todo = {}
      BY <3>2
    <3> QED BY <3>2, <3>3, <3>4, <3>5, <3>7, <3>8 DEF AdoptInv
  <2>4. CASE DetachStale
    <3>1. PICK p \in job.todo :
            /\ client' = Unhooked(p)
            /\ job' = [job EXCEPT !.st = Observed(pane, Unhooked(p)), !.todo = @ \ {p},
                                  !.pc = IF job.todo = {p} THEN "settle" ELSE "stale"]
      BY <2>4 DEF DetachStale
    <3>2. PICK st : st = Observed(pane, Unhooked(p))
      OBVIOUS
    <3>3. PICK pc \in {"settle", "stale"} : pc = IF job.todo = {p} THEN "settle" ELSE "stale"
      OBVIOUS
    <3>4. PICK todo : todo = job.todo \ {p}
      OBVIOUS
    <3>5. job' = [job EXCEPT !.st = st, !.todo = todo, !.pc = pc]
      BY <3>1, <3>2, <3>3, <3>4
    <3>6. job'.pc = pc /\ job'.seen = job.seen /\ job'.todo = todo /\ job'.active = job.active
      BY <1>1, <3>5 DEF Jobs
    <3>7. job.pc = "stale" /\ UNCHANGED <<lease, told>>
      BY <2>4 DEF DetachStale
    <3>8. \A c \in job.seen : client[c.att] \in {c.id, "gone"}
      BY <1>4, <3>7 DEF AdoptInv
    <3>9. \A c \in job.seen : client[c.att] = c.id => c.id \in job.todo \/ Accounted(c)
      BY <1>4, <3>7 DEF AdoptInv
    <3>10. job.seen \in SUBSET [id : Ptys, att : Sockets] /\ p \in Ptys
      BY <1>1, JobFields
    <3>11. ASSUME NEW c \in job.seen
           PROVE  /\ client'[c.att] \in {c.id, "gone"}
                  /\ client'[c.att] = c.id => client[c.att] = c.id /\ c.id # p
      <4>1. c.att \in Sockets /\ c.id \in Ptys
        BY <3>10
      <4>2. client'[c.att] = IF client[c.att] = p THEN "gone" ELSE client[c.att]
        BY <3>1, <4>1 DEF Unhooked
      <4> QED BY <3>8, <4>1, <4>2, Distinct
    <3>12. ASSUME NEW c \in job.seen, client'[c.att] = c.id
           PROVE  c.id \in todo \/ Accounted(c)'
      <4>1. c.id \in job.todo \/ Accounted(c)
        BY <3>9, <3>11, <3>12
      <4>2. Accounted(c) => Accounted(c)'
        BY <3>6, <3>7 DEF Accounted
      <4> QED BY <3>4, <3>11, <3>12, <4>1, <4>2
    <3>13. pc = "settle" => todo = {}
      BY <3>3, <3>4
    <3> QED BY <3>3, <3>6, <3>11, <3>12, <3>13 DEF AdoptInv
  <2>5. CASE Settle
    BY <1>2, <2>1, <2>5 DEF Settle, End
  <2>6. CASE ResumeRefused \/ FindFails \/ CallFails
    BY <1>2, <2>6 DEF ResumeRefused, FindFails, CallFails, End
  <2>7. ~(Act \/ Exec \/ Find \/ Unhook)
    BY <2>1 DEF Act, Exec, Find, Unhook
  <2> QED BY <2>2, <2>3, <2>4, <2>5, <2>6, <2>7 DEF JobStep
<1> QED BY <1>2, <1>3, <1>4

LEMMA StepAdopt ==
  ASSUME TypeOK, RecInv, JobInv, AdoptInv, [Next]_vars
  PROVE  AdoptInv'
<1> DEFINE ClientsKept == \A a \in Sockets : \/ client'[a] = client[a]
                                             \/ client'[a] = "gone"
                                             \/ client[a] \in {"starting", "none"}
           LeasesKept == \A a \in Sockets :
                           \/ lease'[a] = lease[a] /\ (told[a] # "none" => told'[a] # "none")
                           \/ lease'[a] = NoLease /\ told'[a] # "none"
<1>1. /\ client \in Clients /\ lease \in [Sockets -> Ptys \cup {NoPty, NoLease}]
      /\ told \in [Sockets -> {"none", "ended", "error"}]
  BY TypesOf
<1>2. CASE UNCHANGED vars
  BY <1>2, KeptAdopt DEF vars, hostVars, kernelVars
<1>3. ASSUME NEW x \in Tasks, Ask(x) \/ Acquire(x) \/ TaskStep(x) PROVE AdoptInv'
  <2>1. job' = job
    BY <1>3, HandlerAlone
  <2>2. ClientsKept
    <3>1. CASE Remove(x)
      BY <3>1 DEF Remove, AllGone
    <3>2. CASE ~Remove(x)
      BY <1>3, <3>2 DEF Ask, AskUnlocked, CreateCli, AskEnsure, AskKill, AskLocked, Acquire, TaskStep,
                CreateRuntime, CreateFails, LaunchFails, Register, Persist, PersistFails, MarkError, Apply,
                Forget, RemoveFails, Drop, Erase, RecordMissing, kernelVars
    <3> QED BY <3>1, <3>2
  <2>3. LeasesKept
    <3>1. CASE Forget(x)
      BY <3>1 DEF Forget
    <3>2. CASE ~Forget(x)
      BY <1>3, <3>2 DEF Ask, AskUnlocked, CreateCli, AskEnsure, AskKill, AskLocked, Acquire, TaskStep,
                CreateRuntime, CreateFails, LaunchFails, Register, Persist, PersistFails, MarkError, Apply,
                Remove, RemoveFails, Drop, Erase, RecordMissing, hostVars
    <3> QED BY <3>1, <3>2
  <2> QED BY <2>1, <2>2, <2>3, KeptAdopt
<1>4. ASSUME NEW x \in Tasks, Lock(x) PROVE AdoptInv'
  BY <1>4, LockEffect, NoJobTyped DEF AdoptInv
<1>5. CASE JobStep
  BY <1>5, JobAdopt
<1>6. ASSUME NEW b \in Sockets,
             SocketStep(b) \/ QueueFull(b) \/ Leave(b) \/ ResizeRefused(b)
             \/ ProxyEnds(b) \/ Appear(b) \/ NothingToAttach(b) \/ Depart(b)
      PROVE  AdoptInv'
  <2>1. job' = job
    BY <1>6, SocketAlone
  <2>2. CASE Hear(b) \/ Leave(b) \/ ResizeRefused(b) \/ ProxyEnds(b)
    BY <2>1, <2>2, KeptAdopt DEF Hear, Leave, ResizeRefused, ProxyEnds, kernelVars, hostVars
  <2>3. CASE ExecOver(b) \/ PaneMonitor(b) \/ QueueFull(b)
    <3>1. UNCHANGED <<client, lease>>
      BY <2>3 DEF ExecOver, PaneMonitor, QueueFull, Tell, kernelVars
    <3>2. \A a \in Sockets : told[a] # "none" => told'[a] # "none"
      BY <1>1, <2>3 DEF ExecOver, PaneMonitor, QueueFull, Tell
    <3> QED BY <2>1, <3>1, <3>2, KeptAdopt
  <2>4. CASE Appear(b) \/ NothingToAttach(b) \/ Depart(b)
    <3>1. UNCHANGED <<lease, told>>
      BY <2>4 DEF Appear, NothingToAttach, Depart, hostVars
    <3>2. \A a \in Sockets : client'[a] = client[a] \/ client'[a] = "gone" \/ client[a] = "starting"
      BY <1>1, <2>4 DEF Appear, NothingToAttach, Depart, Clients
    <3> QED BY <2>1, <3>1, <3>2, KeptAdopt
  <2> QED BY <1>6, <2>2, <2>3, <2>4 DEF SocketStep
<1>7. CASE PaneExits
  BY <1>7, KeptAdopt DEF PaneExits, hostVars
<1>8. CASE ContainerDies
  <2>1. UNCHANGED <<lease, told, job>> /\ client' = AllGone
    BY <1>8 DEF ContainerDies, hostVars
  <2>2. ClientsKept
    BY <2>1 DEF AllGone
  <2> QED BY <2>1, <2>2, KeptAdopt
<1>9. CASE HostRestarts
  BY <1>9, NoJobTyped DEF HostRestarts, AdoptInv
<1> QED BY <1>2, <1>3, <1>4, <1>5, <1>6, <1>7, <1>8, <1>9 DEF Next

\* only the last reconciliation of its own job lets an adoption go on
LEMMA AdoptionSettles ==
  ASSUME TypeOK, RecInv, JobInv, [Next]_vars, NEW x \in Tasks,
         req[x].pc = "adopt", req'[x].pc = "register"
  PROVE  Settle /\ job.op = "status"
<1>1. req \in [Tasks -> Requests]
  BY TypesOf
<1>2. ~UNCHANGED vars /\ ~UNCHANGED req
  BY DEF vars
<1>3. ASSUME NEW y \in Tasks, Ask(y) \/ Acquire(y) \/ TaskStep(y) PROVE FALSE
  <2>1. y = x
    BY <1>3, HandlerAlone
  <2> QED BY <1>3, <2>1 DEF Ask, Acquire, TaskStep, CreateRuntime, CreateFails, LaunchFails, Register, Persist,
             PersistFails, MarkError, Apply, Forget, Remove, RemoveFails, Drop, Erase, RecordMissing
<1>4. ASSUME NEW y \in Tasks, Lock(y) PROVE FALSE
  <2>1. Passes(y, OnOk[req[y].pc]) /\ req[y].pc = "detach"
    BY <1>2, <1>4, LockPasses DEF Lock
  <2>2. y = x
    BY <2>1 DEF Passes
  <2> QED BY <2>1, <2>2
<1>5. ASSUME NEW a \in Sockets,
             SocketStep(a) \/ QueueFull(a) \/ Leave(a) \/ ResizeRefused(a)
             \/ ProxyEnds(a) \/ Appear(a) \/ NothingToAttach(a) \/ Depart(a)
      PROVE  FALSE
  <2>1. a = x
    BY <1>2, <1>5, SocketAlone
  <2> QED BY <1>2, <1>5, <2>1, SocketAlone
<1>6. ~(PaneExits \/ ContainerDies)
  BY <1>2 DEF PaneExits, ContainerDies
<1>7. ~HostRestarts
  BY <1>1, RestartEffect, CutEffect
<1>8. JobStep
  BY <1>2, <1>3, <1>4, <1>5, <1>6, <1>7 DEF Next
<1>9. x = job.by /\ job' = NoJob /\ req'[x].pc # OnError[req[x].pc]
  <2>1. /\ job.by \in Tasks /\ job' = NoJob
        /\ Passes(job.by, OnOk[req[job.by].pc]) \/ Passes(job.by, OnError[req[job.by].pc])
    BY <1>2, <1>8, JobRequests
  <2>2. x = job.by
    BY <2>1 DEF Passes
  <2>3. OnError["adopt"] = "failed"
    BY DEF OnError
  <2>4. req[x].pc = "adopt" /\ req'[x].pc = "register"
    OBVIOUS
  <2>5. OnError[req[x].pc] = "failed"
    BY <2>3, <2>4
  <2> QED BY <2>1, <2>2, <2>4, <2>5
<1>10. job.op = "status" /\ job.by # NoTask
  BY <1>9, Distinct DEF JobInv, JobOp
<1>11. ~End(FALSE, job.st)
  <2> SUFFICES ASSUME End(FALSE, job.st) PROVE FALSE
    OBVIOUS
  <2>1. Passes(job.by, OnError[req[job.by].pc])
    BY <1>1, <1>10, EndPasses, TypesOf, JobFields
  <2> QED BY <1>9, <2>1 DEF Passes
<1>12. ~(GetStatus \/ Reconcile \/ DetachStale \/ Act \/ Find \/ Unhook)
  BY <1>2 DEF GetStatus, Reconcile, DetachStale, Act, Find, Unhook
<1>13. ~(ResumeRefused \/ FindFails \/ CallFails \/ Exec)
  BY <1>2, <1>11 DEF ResumeRefused, FindFails, CallFails, Exec
<1> QED BY <1>8, <1>10, <1>12, <1>13 DEF JobStep

----------------------------------------------------------------------------
(* The theorems.                                                           *)

TerminalInv == TypeOK /\ RecInv /\ JobInv /\ AttachInv /\ AdoptInv

LEMMA InitTerminalInv ==
  ASSUME Init
  PROVE  TerminalInv
<1>1. req = [x \in Tasks |-> NoReq] /\ job = NoJob /\ row = [NewRow EXCEPT !.life = "never"]
  BY DEF Init
<1>2. \A x \in Tasks : req[x].op = "none" /\ req[x].pc = "idle" /\ req[x].row = NewRow
  BY <1>1, NoReqTyped
<1>3. row \in Rows /\ row.life = "never" /\ row.gen = NoGen
  BY <1>1, NewRowTyped DEF Rows
<1>4. TypeOK
  <2>1. req \in [Tasks -> Requests] /\ job \in Jobs
    BY <1>1, NoReqTyped, NoJobTyped
  <2>2. faults \in 0..MaxFaults
    BY TerminalAssumption DEF Init
  <2>3. alive \in BOOLEAN /\ volume \in BOOLEAN /\ again \in BOOLEAN /\ registered \in BOOLEAN /\ pane \in Panes
    BY DEF Init, Panes
  <2>4. /\ client \in [Sockets -> Ptys \cup {"none", "starting", "gone"}]
        /\ lease \in [Sockets -> Ptys \cup {NoPty, NoLease}]
        /\ told \in [Sockets -> {"none", "ended", "error"}]
        /\ holder \in Controls \cup {NoTask}
    BY DEF Init
  <2> QED BY <1>3, <2>1, <2>2, <2>3, <2>4 DEF TypeOK, Requests, Jobs
<1>5. RecInv
  <2>1. RowInv
    BY <1>2, <1>3 DEF RowInv, HasRuntime, RowThere, Starting
  <2>2. ReadInv
    BY <1>2, NewRowTyped DEF ReadInv, Starting, Making, AtSocket
  <2>3. StartInv
    BY <1>2 DEF StartInv, Starting
  <2> QED BY <2>1, <2>2, <2>3 DEF RecInv
<1>6. JobInv
  BY <1>1, NoJobTyped DEF JobInv
<1>7. AttachInv
  <2>1. \A a \in Sockets : req[a].pc # "served"
    BY <1>2 DEF Tasks
  <2> QED BY <1>1, <2>1, NoJobTyped DEF AttachInv
<1>8. AdoptInv
  BY <1>1, NoJobTyped DEF AdoptInv
<1> QED BY <1>4, <1>5, <1>6, <1>7, <1>8 DEF TerminalInv

LEMMA TerminalInvariance == Spec => []TerminalInv
<1>1. Init => TerminalInv
  BY InitTerminalInv
<1>2. TerminalInv /\ [Next]_vars => TerminalInv'
  <2> SUFFICES ASSUME TerminalInv, [Next]_vars PROVE TerminalInv'
    OBVIOUS
  <2> QED BY StepTyped, StepRec, StepJob, StepAttach, StepAdopt DEF TerminalInv
<1> QED BY <1>1, <1>2, PTL DEF Spec

(* Every variable keeps its type, and the locks are held by handlers that    *)
(* are under way: whatever the routes of client_service, the jobs of         *)
(* TerminalService and the container do to each other.                       *)
THEOREM TerminalTyped == Spec => []TypeOK
<1>1. TerminalInv => TypeOK
  BY DEF TerminalInv
<1> QED BY <1>1, TerminalInvariance, PTL

(* A row that names a generation of the runtime goes on naming one, although *)
(* terminal_status and terminal_websocket write back a row they read before  *)
(* agent_host answered: an ensure never passes for a first start.            *)
THEOREM GenerationsRemembered == Spec => RecoveryRemembered
<1>1. TerminalInv /\ [Next]_vars => (row.life = "there" /\ row.gen # NoGen => row'.gen # NoGen)
  BY StepRemembers DEF TerminalInv
<1> QED BY <1>1, TerminalInvariance, PTL DEF Spec, RecoveryRemembered

(* A served browser that was not told of an end is, while its exec lives,    *)
(* attached under the name its lease has: forget_session, which takes no     *)
(* lock, and reconcile_status_locked take no lease away in silence.  And of  *)
(* the clients that tmux listed when an adoption began, one that ended well  *)
(* leaves only those of its own leases, or of a lease that forget_session    *)
(* took away meanwhile and told its socket of.  Leases of browsers that are  *)
(* no longer served are not in it: one may outlive its client.               *)
THEOREM AttachmentsAccounted == Spec => LeasesMatchClients
<1>1. TerminalInv => AttachedUnlessTold
  <2> SUFFICES ASSUME TerminalInv, NEW a \in Sockets, req[a].pc = "served", told[a] = "none", client[a] # "gone"
               PROVE  client[a] \in Ptys /\ lease[a] = client[a]
    BY DEF AttachedUnlessTold
  <2> QED BY DEF TerminalInv, AttachInv, Attached
<1>2. TerminalInv /\ [Next]_vars => AdoptionDetaches
  <2> SUFFICES ASSUME TerminalInv, [Next]_vars, NEW x \in Tasks, req[x].pc = "adopt", req'[x].pc = "register",
                      NEW c \in job.seen, client'[c.att] = c.id
               PROVE  \/ c.att \in job.active
                      \/ \E a \in job.active : lease[a] = c.id \/ (lease[a] = NoLease /\ told[a] # "none")
    BY DEF AdoptionDetaches
  <2>1. Settle /\ job.op = "status"
    BY AdoptionSettles DEF TerminalInv
  <2>2. job.pc = "settle" /\ client' = client
    BY <2>1 DEF Settle, kernelVars
  <2> QED BY <2>1, <2>2 DEF TerminalInv, AdoptInv, Accounted
<1> QED BY <1>1, <1>2, TerminalInvariance, PTL DEF Spec, LeasesMatchClients
=============================================================================
