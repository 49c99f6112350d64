---------------------------- MODULE Turns_proofs ----------------------------
(***************************************************************************)
(* Proofs about Turns, for any number of readers, turns, events and faults *)
(* and any capacity of a channel.                                          *)
(***************************************************************************)
EXTENDS Turns, SequenceTheorems, TLAPS

\* a turn between its entry in active_turns and the drop of its guard
Working == {"busy", "user", "placeholder", "await", "open", "reading", "broadcast",
            "finalize", "get", "final", "drop"}

\* active_turns has exactly the turn at work
ActiveInv == \A t \in TurnIds : turn[t].pc \in Working <=> active = t

\* the reader whose request a turn still is posts that turn, and a turn that is
\* being started is somebody's request
CallerInv ==
  \A t \in TurnIds :
    /\ turn[t].pc \in Starting => turn[t].caller # Nobody
    /\ turn[t].caller # Nobody => /\ reader[turn[t].caller].phase = "posting"
                                  /\ reader[turn[t].caller].on = t

PostInv ==
  \A r \in Readers : reader[r].phase = "posting" => /\ reader[r].on \in TurnIds
                                                    /\ turn[reader[r].on].caller = r

\* a subscriber of a turn is a reader of that turn, and waits for its end
SubsInv ==
  \A t \in TurnIds : \A r \in subs[t] :
    /\ reader[r].on = t /\ reader[r].phase \in {"posting", "attached"}
    /\ \A i \in 1..Len(reader[r].queue) : reader[r].queue[i] # Final

\* the other readers have no channel
QuietInv ==
  \A r \in Readers :
    /\ reader[r].phase \in {"viewed", "attached"} => reader[r].on \in TurnIds
    /\ reader[r].phase # "attached" => reader[r].queue = <<>> /\ reader[r].seen = 0

\* who subscribes when: nobody before the stream is made, nobody to a
\* synchronous turn, and nobody once the final payload is out
StreamOf(t) ==
  /\ turn[t].pc \in {"none", "ensure", "begin", "drop", "done"} => subs[t] = {}
  /\ turn[t].mode = "sync" => subs[t] = {}
  /\ turn[t].pc = "await" => turn[t].mode = "sync"
  /\ turn[t].pc = "drop" /\ turn[t].mode = "stream" => final[t]

\* what is stored of a turn, against the events it has read, and when it has
\* been handed to its task
StoredOf(t) ==
  /\ turn[t].pc \in Starting \cup {"none", "await"} => stored[t] = 0 /\ turn[t].n = 0
  /\ turn[t].pc \in {"open", "reading", "broadcast", "finalize"} => stored[t] <= turn[t].n + 1
  /\ turn[t].pc = "broadcast" => turn[t].n # Final /\ (there => stored[t] = turn[t].n + 1)
  /\ turn[t].pc \in {"none", "open", "reading", "broadcast", "finalize", "final"}
       => turn[t].caller = Nobody
  /\ turn[t].pc \in {"get", "drop"} /\ turn[t].mode = "stream" => turn[t].caller = Nobody

TurnInv == \A t \in TurnIds : StreamOf(t) /\ StoredOf(t)

\* SeenIsStored, said of every item
SeenBy(r) ==
  /\ reader[r].seen # Final => reader[r].seen < stored[reader[r].on]
  /\ \A i \in 1..Len(reader[r].queue) :
       reader[r].queue[i] # Final => reader[r].queue[i] < stored[reader[r].on]

SeenInv == there => \A r \in Readers : reader[r].phase = "attached" => SeenBy(r)

Parts == ActiveInv /\ CallerInv /\ PostInv /\ SubsInv /\ QuietInv /\ TurnInv /\ SeenInv

IndInv == TypeOK /\ Parts

----------------------------------------------------------------------------
(* Types                                                                   *)

LEMMA FaultTypes ==
  ASSUME faults \in 0..MaxFaults, NEW f, NEW stands
  PROVE  /\ Fault(f) => faults' \in 0..MaxFaults
         /\ Fails(f, stands) => faults' \in 0..MaxFaults
BY TurnsAssumption DEF Fault, Fails

LEMMA Constants ==
  /\ Unsent \in TurnSet /\ Over \in TurnSet
  /\ Idle \in ReaderSet /\ Idle.queue = <<>>
  /\ Empty \in [TurnIds -> 0..(MaxEvents + 1)]
  /\ Final \in 0..MaxEvents
<1> USE TurnsAssumption
<1>1. Unsent \in TurnSet
  BY DEF Unsent, TurnSet, PcStates, Statuses
<1>2. Over \in TurnSet
  BY <1>1 DEF Over, TurnSet, PcStates
<1>3. Empty \in [TurnIds -> 0..(MaxEvents + 1)]
  BY DEF Empty
<1>4. <<>> \in Seq(0..MaxEvents)
  OBVIOUS
<1>5. Idle \in ReaderSet /\ Idle.queue = <<>>
  BY <1>3, <1>4 DEF Idle, ReaderSet, Phases
<1>6. Final \in 0..MaxEvents
  BY DEF Final
<1> QED
  BY <1>1, <1>2, <1>3, <1>5, <1>6

\* the part of TypeOK about readers
ReaderTypes ==
  /\ reader \in [Readers -> ReaderSet]
  /\ \A r \in Readers : Len(reader[r].queue) <= Capacity

LEMMA IdleTypes ==
  ASSUME TypeOK, NEW x, reader' = [reader EXCEPT ![x] = Idle]
  PROVE  ReaderTypes'
<1>1. reader' \in [Readers -> ReaderSet]
  BY Constants DEF TypeOK
<1>2. ASSUME NEW r \in Readers PROVE Len(reader'[r].queue) <= Capacity
  <2>1. reader'[r] = reader[r] \/ reader'[r] = Idle
    BY DEF TypeOK
  <2>2. Len(Idle.queue) = 0
    BY DEF Idle
  <2> QED
    BY <2>1, <2>2, TurnsAssumption DEF TypeOK
<1> QED
  BY <1>1, <1>2 DEF ReaderTypes

LEMMA PhaseTypes ==
  ASSUME TypeOK, NEW x, NEW p \in Phases, reader' = [reader EXCEPT ![x].phase = p]
  PROVE  ReaderTypes'
<1>1. reader' \in [Readers -> ReaderSet]
  BY DEF TypeOK, ReaderSet
<1>2. \A r \in Readers : reader'[r].queue = reader[r].queue
  BY DEF TypeOK, ReaderSet
<1> QED
  BY <1>1, <1>2 DEF ReaderTypes, TypeOK

LEMMA PushTypes ==
  ASSUME TypeOK, NEW t \in TurnIds, NEW item \in 0..MaxEvents, Push(t, item)
  PROVE  ReaderTypes'
<1>1. ASSUME NEW r \in Readers PROVE reader'[r] \in ReaderSet /\ Len(reader'[r].queue) <= Capacity
  <2>1. CASE r \in subs[t] /\ HasRoom(r)
    <3>1. /\ Append(reader[r].queue, item) \in Seq(0..MaxEvents)
          /\ Len(Append(reader[r].queue, item)) = Len(reader[r].queue) + 1
      BY DEF TypeOK, ReaderSet
    <3>2. reader'[r] = [reader[r] EXCEPT !.queue = Append(@, item)]
      BY <2>1 DEF Push
    <3>3. reader[r] \in ReaderSet /\ Len(reader[r].queue) \in Nat
      BY DEF TypeOK, ReaderSet
    <3>4. reader'[r] \in ReaderSet /\ reader'[r].queue = Append(reader[r].queue, item)
      BY <3>1, <3>2, <3>3 DEF ReaderSet
    <3> QED
      BY <2>1, <3>1, <3>3, <3>4, TurnsAssumption DEF HasRoom
  <2>2. CASE ~(r \in subs[t] /\ HasRoom(r))
    BY <2>2 DEF Push, TypeOK
  <2> QED
    BY <2>1, <2>2
<1>2. reader' = [r \in Readers |-> reader'[r]]
  BY DEF Push
<1> QED
  BY <1>1, <1>2 DEF ReaderTypes

LEMMA AtTypes ==
  ASSUME TypeOK, NEW t \in TurnIds, NEW p \in PcStates, At(t, p)
  PROVE  turn' \in [TurnIds -> TurnSet]
<1>1. turn \in [TurnIds -> TurnSet]
  BY DEF TypeOK
<1>2. [turn[t] EXCEPT !.pc = p] \in TurnSet
  BY <1>1 DEF TurnSet
<1> QED
  BY <1>1, <1>2 DEF At

LEMMA OverTypes ==
  ASSUME TypeOK, NEW x, turn' = [turn EXCEPT ![x] = Over]
  PROVE  turn' \in [TurnIds -> TurnSet]
BY Constants DEF TypeOK

LEMMA ReleaseTypes ==
  ASSUME TypeOK, NEW x, Release(x)
  PROVE  /\ turn' \in [TurnIds -> TurnSet]
         /\ subs' \in [TurnIds -> SUBSET Readers]
         /\ active' \in TurnIds \cup {NoTurn}
<1>1. turn' \in [TurnIds -> TurnSet]
  BY OverTypes DEF Release
<1> QED
  BY <1>1 DEF TypeOK, Release

LEMMA BrokenTypes ==
  ASSUME TypeOK, NEW t \in TurnIds, Broken(t)
  PROVE  turn' \in [TurnIds -> TurnSet]
<1>1. turn' = [turn EXCEPT ![t] = [turn[t] EXCEPT !.pc = "finalize", !.broken = TRUE]]
  BY DEF Broken, TypeOK, TurnSet
<1>2. [turn[t] EXCEPT !.pc = "finalize", !.broken = TRUE] \in TurnSet
  BY DEF TypeOK, TurnSet, PcStates
<1> QED
  BY <1>1, <1>2 DEF TypeOK

LEMMA CutOffTypes ==
  ASSUME TypeOK
  PROVE  /\ CutOff \in [TurnIds -> TurnSet]
         /\ \A t \in TurnIds : /\ CutOff[t].pc = turn[t].pc /\ CutOff[t].mode = turn[t].mode
                               /\ CutOff[t].caller = turn[t].caller /\ CutOff[t].n = turn[t].n
<1>1. ASSUME NEW t \in TurnIds, NEW b \in BOOLEAN
      PROVE  [turn[t] EXCEPT !.cut = b] \in TurnSet
  BY DEF TypeOK, TurnSet
<1>2. \A t \in TurnIds : turn[t].cut \in BOOLEAN
  BY DEF TypeOK, TurnSet
<1>3. CutOff \in [TurnIds -> TurnSet]
  BY <1>1, <1>2 DEF CutOff
<1> QED
  BY <1>3 DEF CutOff, TypeOK, TurnSet

LEMMA DestroyTypes ==
  ASSUME TypeOK, DestroyUpstream
  PROVE  turn' \in [TurnIds -> TurnSet] /\ upstream' \in {"none", "idle", "busy"}
BY CutOffTypes DEF DestroyUpstream

\* the runtime is destroyed again, or stays without a row
LEMMA UnpersistedTypes ==
  ASSUME TypeOK, NEW rest, Unpersisted(rest)
  PROVE  /\ rest \in [TurnIds -> TurnSet] /\ upstream' \in {"none", "idle", "busy"}
         /\ status' = status /\ faults' \in 0..MaxFaults
BY CutOffTypes, FaultTypes DEF Unpersisted, Created, TypeOK

LEMMA RunTypes ==
  ASSUME TypeOK, NEW t \in TurnIds, Run(t), turn[t].pc = "begin" => turn[t].caller # Nobody
  PROVE  TypeOK'
<1> USE TurnsAssumption
<1>a. turn[t] \in TurnSet
  BY DEF TypeOK
<1>b. turn[t].n \in 0..MaxEvents /\ MaxEvents \in Nat
  BY <1>a DEF TurnSet
<1>1. CASE Ensure(t)
  <2>1. ReaderTypes'
    BY <1>1, IdleTypes DEF Ensure, Answer, ReaderTypes, TypeOK
  <2>2. CASE \E rest \in {turn, CutOff} : Unpersisted(rest) /\ turn' = [rest EXCEPT ![t] = Over]
    <3>1. PICK rest : Unpersisted(rest) /\ turn' = [rest EXCEPT ![t] = Over]
      BY <2>2
    <3>2. turn' \in [TurnIds -> TurnSet]
      BY <3>1, UnpersistedTypes, Constants
    <3> QED
      BY <1>1, <2>1, <3>1, <3>2, UnpersistedTypes DEF TypeOK, ReaderTypes, Ensure
  <2>3. CASE At(t, "begin") \/ turn' = [turn EXCEPT ![t] = Over]
    <3>1. turn' \in [TurnIds -> TurnSet]
      BY <2>3, AtTypes, OverTypes DEF PcStates, Starting
    <3>2. upstream' \in {"none", "idle", "busy"} /\ status' \in Statuses /\ faults' \in 0..MaxFaults
      BY <1>1, <2>3, UnpersistedTypes, FaultTypes DEF TypeOK, Ensure, RuntimeUp, Created, Statuses
    <3> QED
      BY <1>1, <2>1, <3>1, <3>2 DEF TypeOK, ReaderTypes, Ensure
  <2> QED
    BY <1>1, <2>2, <2>3 DEF Ensure
<1>2. CASE Begin(t)
  <2>1. turn' \in [TurnIds -> TurnSet]
    BY <1>2, AtTypes DEF Begin, PcStates, Starting
  <2>2. ReaderTypes'
    BY <1>2 DEF Begin, ReaderTypes, TypeOK
  <2>3. subs' \in [TurnIds -> SUBSET Readers]
    <3>1. turn[t].caller \in Readers
      BY <1>2 DEF Begin, TypeOK, TurnSet
    <3> QED
      BY <1>2, <3>1 DEF Begin, TypeOK
  <2> QED
    BY <1>2, <2>1, <2>2, <2>3 DEF TypeOK, ReaderTypes, Begin, store
<1>3. CASE Refuse(t)
  <2>1. turn' \in [TurnIds -> TurnSet]
    BY <1>3, OverTypes DEF Refuse
  <2>2. ReaderTypes'
    BY <1>3, IdleTypes DEF Refuse, Answer
  <2> QED
    BY <1>3, <2>1, <2>2 DEF TypeOK, ReaderTypes, Refuse, store
<1>4. CASE MarkBusy(t)
  <2>1. turn' \in [TurnIds -> TurnSet]
    BY <1>4, AtTypes, ReleaseTypes DEF MarkBusy, PcStates, Starting
  <2>2. ReaderTypes'
    BY <1>4, IdleTypes DEF MarkBusy, Answer, ReaderTypes, TypeOK
  <2> QED
    BY <1>4, <2>1, <2>2, FaultTypes, ReleaseTypes DEF TypeOK, ReaderTypes, MarkBusy, StoreFails, Statuses
<1>5. CASE AppendUser(t)
  <2>1. turn' \in [TurnIds -> TurnSet]
    <3> DEFINE next == [turn[t] EXCEPT !.pc = IF turn[t].mode = "stream" THEN "placeholder" ELSE "await",
                                     !.cut = turn[t].mode = "sync" /\ upstream = "none"]
    <3>1. turn' = [turn EXCEPT ![t] = next] \/ Release(t)
      BY <1>5 DEF AppendUser, TypeOK, TurnSet
    <3>2. next \in TurnSet
      BY <1>a DEF TurnSet, PcStates, Starting
    <3> QED
      BY <3>1, <3>2, ReleaseTypes DEF TypeOK
  <2>2. ReaderTypes'
    BY <1>5, IdleTypes DEF AppendUser, Answer, ReaderTypes, TypeOK
  <2> QED
    BY <1>5, <2>1, <2>2, FaultTypes, ReleaseTypes DEF TypeOK, ReaderTypes, AppendUser, StoreFails
<1>6. CASE Placeholder(t)
  <2>1. turn' \in [TurnIds -> TurnSet]
    <3> DEFINE next == [turn[t] EXCEPT !.pc = "open", !.caller = Nobody]
    <3>1. turn' = [turn EXCEPT ![t] = next] \/ Release(t)
      BY <1>6 DEF Placeholder, TypeOK, TurnSet
    <3>2. next \in TurnSet
      BY <1>a DEF TurnSet, PcStates
    <3> QED
      BY <3>1, <3>2, ReleaseTypes DEF TypeOK, PcStates
  <2>2. ReaderTypes'
    BY <1>6, IdleTypes, PhaseTypes DEF Placeholder, Answer, Phases
  <2>3. stored' \in [TurnIds -> 0..(MaxEvents + 1)]
    <3>1. stored' = stored \/ stored' = [stored EXCEPT ![t] = 1]
      BY <1>6 DEF Placeholder
    <3>2. 1 \in 0..(MaxEvents + 1)
      BY <1>b
    <3> QED
      BY <3>1, <3>2 DEF TypeOK
  <2> QED
    BY <1>6, <2>1, <2>2, <2>3, FaultTypes, ReleaseTypes DEF TypeOK, ReaderTypes, Placeholder, StoreFails
<1>7. CASE OpenStream(t)
  <2>1. turn' \in [TurnIds -> TurnSet]
    BY <1>7, AtTypes, BrokenTypes DEF OpenStream, PcStates
  <2>2. ReaderTypes'
    BY <1>7 DEF ReaderTypes, TypeOK, OpenStream
  <2> QED
    BY <1>7, <2>1, <2>2, FaultTypes DEF TypeOK, ReaderTypes, OpenStream, CallFails, store
<1>8. CASE NextEvent(t)
  <2>1. turn' \in [TurnIds -> TurnSet]
    <3> DEFINE read == [turn[t] EXCEPT !.n = @ + 1]
    <3>1. read \in TurnSet
      <4>1. turn[t].n + 1 \in 0..MaxEvents
        BY <1>b, <1>8 DEF NextEvent
      <4> QED
        BY <1>a, <4>1 DEF TurnSet
    <3>2. /\ [read EXCEPT !.pc = "broadcast"] \in TurnSet
          /\ [read EXCEPT !.pc = "finalize", !.broken = TRUE] \in TurnSet
      BY <3>1 DEF TurnSet, PcStates
    <3> QED
      BY <1>8, <3>2 DEF NextEvent, TypeOK
  <2>2. ReaderTypes'
    BY <1>8 DEF ReaderTypes, TypeOK, NextEvent
  <2>3. stored' \in [TurnIds -> 0..(MaxEvents + 1)]
    <3>1. [turn[t] EXCEPT !.n = @ + 1].n = turn[t].n + 1
      BY <1>a DEF TurnSet
    <3>2. stored' = stored \/ stored' = [stored EXCEPT ![t] = turn[t].n + 2]
      BY <1>b, <1>8, <3>1 DEF NextEvent
    <3>3. turn[t].n + 2 \in 0..(MaxEvents + 1)
      BY <1>b, <1>8 DEF NextEvent
    <3> QED
      BY <3>2, <3>3 DEF TypeOK
  <2> QED
    BY <1>8, <2>1, <2>2, <2>3, FaultTypes DEF TypeOK, ReaderTypes, NextEvent, StoreFails
<1>9. CASE Broadcast(t)
  <2>1. turn' \in [TurnIds -> TurnSet]
    BY <1>9, AtTypes DEF Broadcast, PcStates
  <2>2. ReaderTypes'
    BY <1>9, PushTypes DEF Broadcast, TypeOK, TurnSet
  <2> QED
    BY <1>9, <2>1, <2>2 DEF TypeOK, ReaderTypes, Broadcast, store
<1>10. CASE EndOfStream(t)
  <2>1. turn' \in [TurnIds -> TurnSet]
    BY <1>10, AtTypes, BrokenTypes DEF EndOfStream, PcStates
  <2>2. ReaderTypes'
    BY <1>10 DEF ReaderTypes, TypeOK, EndOfStream
  <2> QED
    BY <1>10, <2>1, <2>2, FaultTypes DEF TypeOK, ReaderTypes, EndOfStream, StreamLost, store
<1>11. CASE Finalize(t)
  <2>1. turn' \in [TurnIds -> TurnSet]
    <3> DEFINE next == [turn[t] EXCEPT !.pc = "get", !.asRead = status]
    <3>1. turn' = [turn EXCEPT ![t] = next] \/ At(t, "final")
      BY <1>11 DEF Finalize, TypeOK, TurnSet
    <3>2. next \in TurnSet
      BY <1>a DEF TypeOK, TurnSet, PcStates
    <3> QED
      BY <3>1, <3>2, AtTypes DEF TypeOK, PcStates
  <2>2. ReaderTypes'
    BY <1>11 DEF ReaderTypes, TypeOK, Finalize
  <2>3. stored' \in [TurnIds -> 0..(MaxEvents + 1)]
    BY <1>b, <1>11 DEF Finalize, TypeOK
  <2> QED
    BY <1>11, <2>1, <2>2, <2>3, FaultTypes DEF TypeOK, ReaderTypes, Finalize, StoreFails
<1>12. CASE GetUpstream(t)
  <2>1. turn' \in [TurnIds -> TurnSet]
    BY <1>12, AtTypes DEF GetUpstream, PcStates
  <2>2. ReaderTypes'
    BY <1>12 DEF ReaderTypes, TypeOK, GetUpstream
  <2> QED
    BY <1>12, <2>1, <2>2, FaultTypes
       DEF TypeOK, ReaderTypes, GetUpstream, StoreFails, CallFails, TurnSet, Statuses
<1>13. CASE SendFinal(t)
  <2>1. turn' \in [TurnIds -> TurnSet]
    BY <1>13, AtTypes DEF SendFinal, PcStates
  <2>2. ReaderTypes'
    BY <1>13, PushTypes, Constants DEF SendFinal
  <2> QED
    BY <1>13, <2>1, <2>2 DEF TypeOK, ReaderTypes, SendFinal, store
<1>14. CASE DropGuard(t)
  <2>1. turn' \in [TurnIds -> TurnSet]
    BY <1>14, ReleaseTypes DEF DropGuard
  <2>2. ReaderTypes'
    BY <1>14, IdleTypes DEF DropGuard, Answer, ReaderTypes, TypeOK
  <2> QED
    BY <1>14, <2>1, <2>2, ReleaseTypes DEF TypeOK, ReaderTypes, DropGuard, store
<1>15. CASE SyncReply(t)
  <2>1. turn' \in [TurnIds -> TurnSet]
    <3> DEFINE next == [turn[t] EXCEPT !.pc = "get", !.asRead = status]
    <3>1. turn' = [turn EXCEPT ![t] = next] \/ Release(t)
      BY <1>15 DEF SyncReply, TypeOK, TurnSet
    <3>2. next \in TurnSet
      BY <1>a DEF TypeOK, TurnSet, PcStates
    <3> QED
      BY <3>1, <3>2, ReleaseTypes DEF TypeOK, PcStates
  <2>2. ReaderTypes'
    BY <1>15, IdleTypes DEF SyncReply, Answer, ReaderTypes, TypeOK
  <2> QED
    BY <1>15, <2>1, <2>2, FaultTypes, ReleaseTypes DEF TypeOK, ReaderTypes, SyncReply, StoreFails, StreamLost
<1> QED
  BY <1>1, <1>2, <1>3, <1>4, <1>5, <1>6, <1>7, <1>8, <1>9, <1>10, <1>11, <1>12, <1>13, <1>14, <1>15 DEF Run

LEMMA ReadTypes ==
  ASSUME TypeOK, NEW r \in Readers,
         \/ \E t \in TurnIds, m \in {"stream", "sync"} : Send(r, t, m)
         \/ ViewRead(r) \/ Read(r) \/ LeaveStream(r) \/ LeaveRequest(r)
         \/ DeleteCall(r) \/ KillCall(r)
  PROVE  TypeOK'
<1> USE TurnsAssumption
<1>a. reader[r] \in ReaderSet /\ reader[r].queue \in Seq(0..MaxEvents)
  BY DEF TypeOK, ReaderSet
<1>1. CASE \E t \in TurnIds, m \in {"stream", "sync"} : Send(r, t, m)
  <2>1. PICK t \in TurnIds, m \in {"stream", "sync"} : Send(r, t, m)
    BY <1>1
  <2>2. turn' \in [TurnIds -> TurnSet]
    <3> DEFINE next == [Unsent EXCEPT !.pc = "ensure", !.mode = m, !.caller = r]
    <3>1. next \in TurnSet
      BY Constants DEF TurnSet, PcStates, Starting
    <3> QED
      BY <2>1, <3>1 DEF Send, TypeOK
  <2>3. ReaderTypes'
    <3> DEFINE next == [reader[r] EXCEPT !.phase = "posting", !.on = t]
    <3>1. next \in ReaderSet /\ next.queue = reader[r].queue
      BY <1>a DEF ReaderSet, Phases
    <3>2. reader' = [reader EXCEPT ![r] = next]
      BY <2>1 DEF Send, TypeOK, ReaderSet
    <3> QED
      BY <3>1, <3>2 DEF ReaderTypes, TypeOK
  <2> QED
    BY <2>1, <2>2, <2>3 DEF TypeOK, ReaderTypes, Send, store
<1>2. CASE ViewRead(r)
  <2>1. ReaderTypes'
    <3> DEFINE next == [reader[r] EXCEPT !.phase = "viewing", !.view = stored]
    <3>1. next \in ReaderSet /\ next.queue = reader[r].queue
      BY <1>a DEF ReaderSet, Phases, TypeOK
    <3>2. reader' = [reader EXCEPT ![r] = next]
      BY <1>2 DEF ViewRead, TypeOK, ReaderSet
    <3> QED
      BY <3>1, <3>2 DEF ReaderTypes, TypeOK
  <2> QED
    BY <1>2, <2>1 DEF TypeOK, ReaderTypes, ViewRead, store
<1>3. CASE ViewEnsured(r)
  <2>1. ReaderTypes'
    BY <1>3, IdleTypes, PhaseTypes DEF ViewEnsured, Becomes, Phases
  <2>2. CASE \E rest \in {turn, CutOff} : Unpersisted(rest) /\ turn' = rest
    BY <1>3, <2>1, <2>2, UnpersistedTypes DEF TypeOK, ReaderTypes, ViewEnsured
  <2>3. CASE turn' = turn
    BY <1>3, <2>1, <2>3, FaultTypes, UnpersistedTypes
       DEF TypeOK, ReaderTypes, ViewEnsured, RuntimeUp, Created, Statuses
  <2> QED
    BY <1>3, <2>2, <2>3 DEF ViewEnsured
<1>4. CASE ViewReply(r)
  <2>1. ReaderTypes'
    <3> DEFINE next == [Idle EXCEPT !.phase = "viewed", !.on = active]
    <3>1. next \in ReaderSet /\ next.queue = <<>> /\ Len(next.queue) = 0
      BY Constants DEF ReaderSet, Phases, TypeOK
    <3>2. CASE reader' = [reader EXCEPT ![r] = Idle]
      BY <3>2, IdleTypes
    <3>3. CASE reader' = [reader EXCEPT ![r] = next]
      BY <3>1, <3>3 DEF ReaderTypes, TypeOK
    <3> QED
      BY <1>4, <3>2, <3>3 DEF ViewReply
  <2> QED
    BY <1>4, <2>1 DEF TypeOK, ReaderTypes, ViewReply, store
<1>5. CASE Attach(r)
  <2>1. CASE final[reader[r].on]
    <3> DEFINE next == [reader[r] EXCEPT !.phase = "attached", !.queue = <<Final>>]
    <3>1. <<Final>> \in Seq(0..MaxEvents) /\ Len(<<Final>>) = 1
      BY Constants
    <3>2. next \in ReaderSet /\ next.queue = <<Final>>
      BY <1>a, <3>1 DEF ReaderSet, Phases
    <3>3. reader' = [reader EXCEPT ![r] = next]
      BY <1>5, <2>1 DEF Attach, TypeOK, ReaderSet
    <3>4. ReaderTypes'
      BY <3>1, <3>2, <3>3 DEF ReaderTypes, TypeOK
    <3> QED
      BY <1>5, <2>1, <3>4 DEF TypeOK, ReaderTypes, Attach, store
  <2>2. CASE ~final[reader[r].on]
    <3>1. ReaderTypes'
      BY <1>5, <2>2, PhaseTypes DEF Attach, Becomes, Phases
    <3>2. subs' \in [TurnIds -> SUBSET Readers]
      <4>1. subs' = [subs EXCEPT ![reader[r].on] = @ \cup {r}]
        BY <1>5, <2>2 DEF Attach
      <4> QED
        BY <4>1 DEF TypeOK
    <3> QED
      BY <1>5, <3>1, <3>2 DEF TypeOK, ReaderTypes, Attach, store
  <2> QED
    BY <2>1, <2>2
<1>6. CASE TurnNotFound(r) \/ Cut(r)
  <2>1. ReaderTypes'
    BY <1>6, IdleTypes DEF TurnNotFound, Cut
  <2> QED
    BY <1>6, <2>1 DEF TypeOK, ReaderTypes, TurnNotFound, Cut, store
<1>7. CASE Receive(r)
  <2>1. ReaderTypes'
    <3> DEFINE item == Head(reader[r].queue)
               next == [reader[r] EXCEPT !.queue = Tail(reader[r].queue), !.seen = item]
    <3>1. /\ item \in 0..MaxEvents
          /\ Tail(reader[r].queue) \in Seq(0..MaxEvents)
          /\ Len(Tail(reader[r].queue)) = Len(reader[r].queue) - 1
      <4>1. reader[r].queue # <<>>
        BY <1>7 DEF Receive
      <4> QED
        BY <1>a, <4>1, HeadTailProperties
    <3>2. next \in ReaderSet /\ next.queue = Tail(reader[r].queue)
      BY <1>a, <3>1 DEF ReaderSet
    <3>3. Len(next.queue) <= Capacity
      BY <1>a, <3>1, <3>2 DEF TypeOK
    <3>4. CASE reader' = [reader EXCEPT ![r] = Idle]
      BY <3>4, IdleTypes
    <3>5. CASE reader' = [reader EXCEPT ![r] = next]
      BY <3>2, <3>3, <3>5 DEF ReaderTypes, TypeOK
    <3>6. CASE item = Final
      BY <1>7, <3>4, <3>6 DEF Receive
    <3>7. CASE item # Final
      <4>1. reader' = [reader EXCEPT ![r] = next]
        BY <1>7, <3>7 DEF Receive
      <4> QED
        BY <3>5, <4>1
    <3> QED
      BY <3>6, <3>7
  <2> QED
    BY <1>7, <2>1 DEF TypeOK, ReaderTypes, Receive, store
<1>8. CASE LeaveStream(r)
  <2>1. ReaderTypes'
    BY <1>8, IdleTypes DEF LeaveStream
  <2> QED
    BY <1>8, <2>1 DEF TypeOK, ReaderTypes, LeaveStream, store
<1>9. CASE LeaveRequest(r)
  <2>1. ReaderTypes'
    BY <1>9, IdleTypes DEF LeaveRequest, Answer
  <2>2. Release(reader[r].on)
    BY <1>9 DEF LeaveRequest
  <2> QED
    BY <1>9, <2>1, <2>2, ReleaseTypes, FaultTypes DEF TypeOK, ReaderTypes, LeaveRequest, StreamLost, store
<1>10. CASE DeleteCall(r)
  <2>1. ReaderTypes'
    BY <1>10, PhaseTypes DEF DeleteCall, Becomes, Phases, ReaderTypes, TypeOK
  <2> QED
    BY <1>10, <2>1, DestroyTypes, FaultTypes DEF TypeOK, ReaderTypes, DeleteCall, store
<1>11. CASE DeleteRow(r)
  <2>1. ReaderTypes'
    BY <1>11, IdleTypes DEF DeleteRow
  <2> QED
    BY <1>11, <2>1, Constants DEF TypeOK, ReaderTypes, DeleteRow
<1>12. CASE KillCall(r)
  <2>1. ReaderTypes'
    BY <1>12, PhaseTypes DEF KillCall, Becomes, Phases
  <2> QED
    BY <1>12, <2>1, DestroyTypes, FaultTypes DEF TypeOK, ReaderTypes, KillCall, store
<1>13. CASE KillRow(r)
  <2>1. ReaderTypes'
    BY <1>13, IdleTypes DEF KillRow
  <2> QED
    BY <1>13, <2>1 DEF TypeOK, ReaderTypes, KillRow, Statuses
<1> QED
  BY <1>1, <1>2, <1>3, <1>4, <1>5, <1>6, <1>7, <1>8, <1>9, <1>10, <1>11, <1>12, <1>13 DEF Read

LEMMA RestartTypes ==
  ASSUME TypeOK, ClientRestart
  PROVE  TypeOK'
<1>1. ReaderTypes'
  <2>1. Len(Idle.queue) = 0
    BY DEF Idle
  <2> QED
    BY <2>1, TurnsAssumption, Constants DEF ReaderTypes, ClientRestart
<1>2. turn' \in [TurnIds -> TurnSet]
  BY Constants DEF ClientRestart
<1> QED
  BY <1>1, <1>2, FaultTypes DEF TypeOK, ReaderTypes, ClientRestart, store

LEMMA TypeInit == Init => TypeOK
<1> SUFFICES ASSUME Init PROVE TypeOK
  OBVIOUS
<1>1. ReaderTypes
  <2>1. Len(Idle.queue) = 0
    BY DEF Idle
  <2> QED
    BY <2>1, TurnsAssumption, Constants DEF ReaderTypes, Init
<1> QED
  BY <1>1, TurnsAssumption, Constants DEF TypeOK, ReaderTypes, Init, Statuses

LEMMA TypeStep ==
  ASSUME TypeOK, CallerInv, [Next]_vars
  PROVE  TypeOK'
<1>1. CASE \E t \in TurnIds : Run(t)
  BY <1>1, RunTypes DEF CallerInv, Starting
<1>2. CASE \E r \in Readers : \/ \E t \in TurnIds, m \in {"stream", "sync"} : Send(r, t, m)
                             \/ ViewRead(r) \/ Read(r) \/ LeaveStream(r) \/ LeaveRequest(r)
                             \/ DeleteCall(r) \/ KillCall(r)
  BY <1>2, ReadTypes
<1>3. CASE ClientRestart
  BY <1>3, RestartTypes
<1>4. CASE UNCHANGED vars
  BY <1>4 DEF TypeOK, vars, store
<1> QED
  BY <1>1, <1>2, <1>3, <1>4 DEF Next

----------------------------------------------------------------------------
(* The shapes of a step                                                    *)

\* a turn goes on by itself
LEMMA GoesOn ==
  ASSUME IndInv, TypeOK', NEW t \in TurnIds,
         \A u \in TurnIds : turn'[u].caller = turn[u].caller /\ turn'[u].mode = turn[u].mode,
         \A u \in TurnIds \ {t} : /\ turn'[u].pc = turn[u].pc /\ turn'[u].n = turn[u].n
                                  /\ stored'[u] = stored[u],
         there' = there, active' = active, subs' = subs, final' = final, reader' = reader,
         turn'[t].pc \in Working <=> turn[t].pc \in Working,
         turn'[t].pc \in Starting => turn[t].pc \in Starting,
         stored[t] <= stored'[t],
         StreamOf(t)', StoredOf(t)'
  PROVE  Parts'
<1> USE DEF IndInv, Parts
<1>1. ActiveInv'
  BY DEF ActiveInv
<1>2. CallerInv'
  BY DEF CallerInv
<1>3. PostInv'
  BY DEF PostInv
<1>4. SubsInv'
  BY DEF SubsInv
<1>5. QuietInv'
  BY DEF QuietInv
<1>6. TurnInv'
  <2>1. ASSUME NEW u \in TurnIds \ {t} PROVE StreamOf(u)' /\ StoredOf(u)'
    BY DEF TurnInv, StreamOf, StoredOf
  <2> QED
    BY <2>1 DEF TurnInv
<1>7. SeenInv'
  <2>1. ASSUME NEW r \in Readers, reader[r].phase = "attached", SeenBy(r)
        PROVE  SeenBy(r)'
    <3>1. reader[r].on \in TurnIds
      BY <2>1 DEF QuietInv
    <3>2. /\ stored[reader[r].on] \in Nat /\ stored'[reader[r].on] \in Nat
          /\ stored[reader[r].on] <= stored'[reader[r].on]
      <4>1. stored[reader[r].on] \in 0..(MaxEvents + 1) /\ stored'[reader[r].on] \in 0..(MaxEvents + 1)
        BY <3>1 DEF TypeOK
      <4>2. stored[reader[r].on] <= stored'[reader[r].on]
        BY <3>1, <4>1, TurnsAssumption
      <4> QED
        BY <4>1, <4>2, TurnsAssumption
    <3>3. /\ reader[r].seen \in Nat
          /\ \A i \in 1..Len(reader[r].queue) : reader[r].queue[i] \in Nat
      <4>1. reader[r].seen \in 0..MaxEvents /\ reader[r].queue \in Seq(0..MaxEvents)
        BY DEF TypeOK, ReaderSet
      <4> QED
        BY <4>1, ElementOfSeq, TurnsAssumption
    <3> QED
      BY <2>1, <3>2, <3>3 DEF SeenBy
  <2> QED
    BY <2>1 DEF SeenInv
<1> QED
  BY <1>1, <1>2, <1>3, <1>4, <1>5, <1>6, <1>7

\* a turn is over, and the request that it still is
LEMMA Finishes ==
  ASSUME IndInv, TypeOK', NEW t \in TurnIds, turn'[t] = Over,
         \A u \in TurnIds \ {t} : /\ turn'[u].pc = turn[u].pc /\ turn'[u].mode = turn[u].mode
                                  /\ turn'[u].caller = turn[u].caller /\ turn'[u].n = turn[u].n,
         \A r \in Readers : reader'[r] = IF r = turn[t].caller THEN Idle ELSE reader[r],
         active' = IF active = t THEN NoTurn ELSE active,
         subs' = [subs EXCEPT ![t] = {}],
         there' = there, final' = final, stored' = stored
  PROVE  Parts'
<1> USE DEF IndInv, Parts
<1>a. /\ turn'[t] = Over /\ Over.pc = "done" /\ Over.caller = Nobody /\ Over.mode = "stream"
      /\ \A u \in TurnIds \ {t} : /\ turn'[u].pc = turn[u].pc /\ turn'[u].mode = turn[u].mode
                                  /\ turn'[u].caller = turn[u].caller /\ turn'[u].n = turn[u].n
  BY DEF Over, Unsent
<1>b. subs'[t] = {} /\ \A u \in TurnIds \ {t} : subs'[u] = subs[u]
  BY DEF TypeOK
<1>c. /\ Idle.phase = "idle" /\ Idle.queue = <<>> /\ Idle.seen = 0
  BY DEF Idle
<1>1. ActiveInv'
  BY <1>a, TurnsAssumption DEF ActiveInv, Working
<1>2. CallerInv'
  <2>1. ASSUME NEW u \in TurnIds, u # t PROVE turn[u].caller = turn[t].caller => turn[u].caller = Nobody
    BY <2>1 DEF CallerInv
  <2>2. \A u \in TurnIds : turn[u].caller \in Readers \cup {Nobody}
    BY DEF TypeOK, TurnSet
  <2> QED
    BY <1>a, <2>1, <2>2 DEF CallerInv, Starting
<1>3. PostInv'
  BY <1>a, <1>c DEF PostInv
<1>4. SubsInv'
  <2>1. ASSUME NEW u \in TurnIds \ {t}, NEW r \in subs[u] PROVE reader'[r] = reader[r]
    <3>1. r \in Readers /\ reader[r].on = u
      BY DEF SubsInv, TypeOK
    <3>2. r # turn[t].caller
      BY <3>1, TurnsAssumption DEF CallerInv
    <3> QED
      BY <3>1, <3>2
  <2> QED
    BY <1>b, <2>1 DEF SubsInv
<1>5. QuietInv'
  BY <1>c DEF QuietInv
<1>6. TurnInv'
  <2>1. ASSUME NEW u \in TurnIds \ {t} PROVE StreamOf(u)' /\ StoredOf(u)'
    BY <1>a, <1>b DEF TurnInv, StreamOf, StoredOf
  <2>2. StreamOf(t)' /\ StoredOf(t)'
    BY <1>a, <1>b DEF StreamOf, StoredOf, Starting
  <2> QED
    BY <2>1, <2>2 DEF TurnInv
<1>7. SeenInv'
  BY <1>c DEF SeenInv, SeenBy
<1> QED
  BY <1>1, <1>2, <1>3, <1>4, <1>5, <1>6, <1>7

\* a reader that has no stream and no message under way does something else
LEMMA LooksOn ==
  ASSUME IndInv, TypeOK', NEW r \in Readers,
         reader[r].phase \notin {"posting", "attached"},
         reader'[r].phase \notin {"posting", "attached"},
         reader'[r].queue = <<>>, reader'[r].seen = 0,
         reader'[r].phase = "viewed" => reader'[r].on \in TurnIds,
         \A s \in Readers \ {r} : reader'[s] = reader[s],
         \A u \in TurnIds : /\ turn'[u].pc = turn[u].pc /\ turn'[u].mode = turn[u].mode
                            /\ turn'[u].caller = turn[u].caller /\ turn'[u].n = turn[u].n,
         active' = active, subs' = subs, final' = final,
         \/ there' = there /\ stored' = stored
         \/ ~there' /\ stored' = Empty
  PROVE  Parts'
<1> USE DEF IndInv, Parts
<1>1. ActiveInv'
  BY DEF ActiveInv
<1>2. CallerInv'
  <2>1. \A u \in TurnIds : turn[u].caller \in Readers \cup {Nobody}
    BY DEF TypeOK, TurnSet
  <2> QED
    BY <2>1 DEF CallerInv
<1>3. PostInv'
  BY DEF PostInv
<1>4. SubsInv'
  <2>1. \A u \in TurnIds : subs[u] \subseteq Readers \ {r}
    BY DEF SubsInv, TypeOK
  <2> QED
    BY <2>1 DEF SubsInv
<1>5. QuietInv'
  BY DEF QuietInv
<1>6. TurnInv'
  <2>1. ASSUME NEW u \in TurnIds PROVE StreamOf(u)'
    BY DEF TurnInv, StreamOf
  <2>2. ASSUME NEW u \in TurnIds PROVE StoredOf(u)'
    <3>1. stored' = Empty => stored'[u] = 0
      BY DEF Empty
    <3>2. turn[u].n \in Nat
      BY DEF TypeOK, TurnSet
    <3> QED
      BY <3>1, <3>2 DEF TurnInv, StoredOf
  <2> QED
    BY <2>1, <2>2 DEF TurnInv
<1>7. SeenInv'
  BY DEF SeenInv, SeenBy
<1> QED
  BY <1>1, <1>2, <1>3, <1>4, <1>5, <1>6, <1>7

----------------------------------------------------------------------------
(* Every step of a turn                                                    *)

\* one field of turn t, or more, is set
LEMMA Fields ==
  ASSUME TypeOK, NEW t \in TurnIds, NEW next, turn' = [turn EXCEPT ![t] = next]
  PROVE  turn'[t] = next /\ \A u \in TurnIds \ {t} : turn'[u] = turn[u]
BY DEF TypeOK

LEMMA AtFields ==
  ASSUME TypeOK, NEW t \in TurnIds, NEW p, At(t, p)
  PROVE  /\ turn'[t].pc = p
         /\ \A u \in TurnIds : /\ turn'[u].caller = turn[u].caller /\ turn'[u].mode = turn[u].mode
                               /\ turn'[u].n = turn[u].n
         /\ \A u \in TurnIds \ {t} : turn'[u] = turn[u]
BY DEF TypeOK, TurnSet, At

LEMMA BrokenFields ==
  ASSUME TypeOK, NEW t \in TurnIds, Broken(t)
  PROVE  /\ turn'[t].pc = "finalize"
         /\ \A u \in TurnIds : /\ turn'[u].caller = turn[u].caller /\ turn'[u].mode = turn[u].mode
                               /\ turn'[u].n = turn[u].n
         /\ \A u \in TurnIds \ {t} : turn'[u] = turn[u]
BY DEF TypeOK, TurnSet, Broken

LEMMA ReleaseFinishes ==
  ASSUME IndInv, TypeOK', NEW t \in TurnIds, Release(t), Answer(t), UNCHANGED <<there, final, stored>>
  PROVE  Parts'
<1>1. \A r \in Readers : reader'[r] = IF r = turn[t].caller THEN Idle ELSE reader[r]
  BY DEF Answer, IndInv, TypeOK
<1>2. turn'[t] = Over /\ \A u \in TurnIds \ {t} : turn'[u] = turn[u]
  BY Fields DEF Release, IndInv
<1>3. active' = IF active = t THEN NoTurn ELSE active
  BY DEF Release
<1>4. subs' = [subs EXCEPT ![t] = {}]
  BY DEF Release
<1> QED
  BY <1>1, <1>2, <1>3, <1>4, Finishes

\* a turn that is not registered yet has no subscribers
LEMMA RefusalFinishes ==
  ASSUME IndInv, TypeOK', NEW t \in TurnIds, turn[t].pc \in {"ensure", "begin"},
         turn'[t] = Over,
         \A u \in TurnIds \ {t} : /\ turn'[u].pc = turn[u].pc /\ turn'[u].mode = turn[u].mode
                                  /\ turn'[u].caller = turn[u].caller /\ turn'[u].n = turn[u].n,
         Answer(t), UNCHANGED <<there, final, stored, active, subs>>
  PROVE  Parts'
<1>1. active # t
  BY DEF IndInv, Parts, ActiveInv, Working
<1>2. subs' = [subs EXCEPT ![t] = {}]
  BY DEF IndInv, Parts, TurnInv, StreamOf, TypeOK
<1>3. \A r \in Readers : reader'[r] = IF r = turn[t].caller THEN Idle ELSE reader[r]
  BY DEF Answer, IndInv, TypeOK
<1> QED
  BY <1>1, <1>2, <1>3, Finishes

LEMMA StoredTypes ==
  ASSUME TypeOK, NEW t \in TurnIds
  PROVE  stored[t] \in Nat /\ turn[t].n \in Nat
<1>1. stored[t] \in 0..(MaxEvents + 1) /\ turn[t].n \in 0..MaxEvents
  BY DEF TypeOK, TurnSet
<1> QED
  BY <1>1, TurnsAssumption

LEMMA ItemTypes ==
  ASSUME TypeOK, NEW r \in Readers
  PROVE  /\ reader[r].seen \in Nat
         /\ \A i \in 1..Len(reader[r].queue) : reader[r].queue[i] \in Nat
<1>1. reader[r].seen \in 0..MaxEvents /\ reader[r].queue \in Seq(0..MaxEvents)
  BY DEF TypeOK, ReaderSet
<1> QED
  BY <1>1, ElementOfSeq, TurnsAssumption

LEMMA StartSteps ==
  ASSUME IndInv, TypeOK', NEW t \in TurnIds,
         Ensure(t) \/ Refuse(t) \/ MarkBusy(t) \/ AppendUser(t)
  PROVE  Parts'
<1> USE DEF IndInv, Parts
<1>a. StreamOf(t) /\ StoredOf(t) /\ stored[t] \in Nat
  BY StoredTypes DEF TurnInv
<1>1. CASE Ensure(t)
  <2>1. CASE At(t, "begin") /\ reader' = reader
    <3>1. turn[t].pc = "ensure" /\ UNCHANGED <<there, active, subs, final, stored>>
      BY <1>1 DEF Ensure
    <3>2. StreamOf(t)' /\ StoredOf(t)'
      BY <1>a, <2>1, <3>1, AtFields DEF StreamOf, StoredOf, Starting
    <3> QED
      BY <1>a, <2>1, <3>1, <3>2, AtFields, GoesOn DEF Working, Starting
  <2>2. CASE turn' = [turn EXCEPT ![t] = Over] /\ Answer(t)
    BY <1>1, <2>2, RefusalFinishes, Fields DEF Ensure
  <2>3. CASE turn' = [CutOff EXCEPT ![t] = Over] /\ Answer(t)
    <3>1. turn'[t] = Over /\ \A u \in TurnIds \ {t} : turn'[u] = CutOff[u]
      BY <2>3, CutOffTypes
    <3> QED
      BY <1>1, <2>3, <3>1, CutOffTypes, RefusalFinishes DEF Ensure
  <2> QED
    BY <1>1, <2>1, <2>2, <2>3 DEF Ensure
<1>2. CASE Refuse(t)
  BY <1>2, RefusalFinishes, Fields DEF Refuse, store
<1>3. CASE MarkBusy(t)
  <2>1. CASE At(t, "user") /\ UNCHANGED <<active, subs, reader>>
    <3>1. turn[t].pc = "busy" /\ UNCHANGED <<there, final, stored>>
      BY <1>3 DEF MarkBusy
    <3>2. StreamOf(t)' /\ StoredOf(t)'
      BY <1>a, <2>1, <3>1, AtFields DEF StreamOf, StoredOf, Starting
    <3> QED
      BY <1>a, <2>1, <3>1, <3>2, AtFields, GoesOn DEF Working, Starting
  <2>2. CASE Release(t) /\ Answer(t)
    BY <1>3, <2>2, ReleaseFinishes DEF MarkBusy
  <2> QED
    BY <1>3, <2>1, <2>2 DEF MarkBusy
<1>4. CASE AppendUser(t)
  <2> DEFINE next == [turn[t] EXCEPT !.pc = IF turn[t].mode = "stream" THEN "placeholder" ELSE "await",
                                     !.cut = turn[t].mode = "sync" /\ upstream = "none"]
  <2>1. CASE turn' = [turn EXCEPT ![t] = next] /\ UNCHANGED <<active, subs, reader>>
    <3>1. turn[t].pc = "user" /\ UNCHANGED <<there, final, stored>>
      BY <1>4 DEF AppendUser
    <3>2. turn[t] \in TurnSet
      BY DEF TypeOK
    <3>3. /\ turn'[t].pc \in {"placeholder", "await"}
          /\ turn'[t].pc = "await" => turn[t].mode = "sync"
          /\ turn'[t].mode = turn[t].mode /\ turn'[t].caller = turn[t].caller /\ turn'[t].n = turn[t].n
          /\ \A u \in TurnIds \ {t} : turn'[u] = turn[u]
      <4>1. turn'[t] = next /\ \A u \in TurnIds \ {t} : turn'[u] = turn[u]
        BY <2>1, Fields
      <4> QED
        BY <3>2, <4>1 DEF TurnSet
    <3>4. StreamOf(t)' /\ StoredOf(t)'
      BY <1>a, <2>1, <3>1, <3>3 DEF StreamOf, StoredOf, Starting
    <3> QED
      BY <1>a, <2>1, <3>1, <3>3, <3>4, GoesOn DEF Working, Starting
  <2>2. CASE Release(t) /\ Answer(t)
    BY <1>4, <2>2, ReleaseFinishes DEF AppendUser
  <2>3. [turn EXCEPT ![t].pc = IF turn[t].mode = "stream" THEN "placeholder" ELSE "await",
                     ![t].cut = turn[t].mode = "sync" /\ upstream = "none"] = [turn EXCEPT ![t] = next]
    BY DEF TypeOK, TurnSet
  <2> HIDE DEF next
  <2> QED
    BY <1>4, <2>1, <2>2, <2>3 DEF AppendUser
<1> QED
  BY <1>1, <1>2, <1>3, <1>4

LEMMA BeginStep ==
  ASSUME IndInv, TypeOK', NEW t \in TurnIds, Begin(t)
  PROVE  Parts'
<1> USE DEF IndInv, Parts
<1>a. StreamOf(t) /\ StoredOf(t) /\ turn[t].pc = "begin"
  BY DEF TurnInv, Begin
<1>b. /\ turn'[t].pc = "busy"
      /\ \A u \in TurnIds : /\ turn'[u].caller = turn[u].caller /\ turn'[u].mode = turn[u].mode
                            /\ turn'[u].n = turn[u].n
      /\ \A u \in TurnIds \ {t} : turn'[u] = turn[u]
  BY AtFields DEF Begin
<1>c. active = NoTurn /\ active' = t /\ UNCHANGED <<there, stored, final, reader>>
  BY DEF Begin, store
<1>d. /\ subs'[t] = IF turn[t].mode = "stream" THEN {turn[t].caller} ELSE {}
      /\ \A u \in TurnIds \ {t} : subs'[u] = subs[u]
  BY DEF Begin, TypeOK
<1>e. turn[t].caller \in Readers /\ reader[turn[t].caller].phase = "posting"
                                 /\ reader[turn[t].caller].on = t
  BY <1>a DEF CallerInv, Starting, TypeOK, TurnSet
<1>1. ActiveInv'
  BY <1>b, <1>c, TurnsAssumption DEF ActiveInv, Working
<1>2. CallerInv'
  BY <1>a, <1>b, <1>c DEF CallerInv, Starting
<1>3. PostInv'
  BY <1>b, <1>c DEF PostInv
<1>4. SubsInv'
  <2>1. ASSUME NEW r \in subs'[t] PROVE r = turn[t].caller /\ reader[r].queue = <<>>
    BY <1>d, <1>e DEF QuietInv
  <2> QED
    BY <1>c, <1>d, <1>e, <2>1 DEF SubsInv
<1>5. QuietInv'
  BY <1>c DEF QuietInv
<1>6. TurnInv'
  <2>1. ASSUME NEW u \in TurnIds \ {t} PROVE StreamOf(u)' /\ StoredOf(u)'
    BY <1>b, <1>c, <1>d DEF TurnInv, StreamOf, StoredOf
  <2>2. StreamOf(t)' /\ StoredOf(t)'
    BY <1>a, <1>b, <1>c, <1>d DEF StreamOf, StoredOf, Starting
  <2> QED
    BY <2>1, <2>2 DEF TurnInv
<1>7. SeenInv'
  BY <1>c DEF SeenInv, SeenBy
<1> QED
  BY <1>1, <1>2, <1>3, <1>4, <1>5, <1>6, <1>7

LEMMA PlaceholderStep ==
  ASSUME IndInv, TypeOK', NEW t \in TurnIds, Placeholder(t)
  PROVE  Parts'
<1> USE DEF IndInv, Parts
<1> DEFINE c == turn[t].caller
           next == [turn[t] EXCEPT !.pc = "open", !.caller = Nobody]
           Goes == /\ stored' = [stored EXCEPT ![t] = 1]
                   /\ turn' = [turn EXCEPT ![t] = next]
                   /\ reader' = [reader EXCEPT ![c].phase = "attached"]
                   /\ UNCHANGED <<active, subs>>
<1>a. StreamOf(t) /\ StoredOf(t) /\ turn[t].pc = "placeholder" /\ UNCHANGED <<there, final>>
  BY DEF TurnInv, Placeholder
<1>b. Goes \/ (Release(t) /\ Answer(t) /\ stored' = stored)
  <2>1. [turn EXCEPT ![t].pc = "open", ![t].caller = Nobody] = [turn EXCEPT ![t] = next]
    BY DEF TypeOK, TurnSet
  <2> QED
    BY <2>1 DEF Placeholder
<1>c. CASE Release(t) /\ Answer(t) /\ stored' = stored
  BY <1>a, <1>c, ReleaseFinishes
<1>d. CASE Goes
  <2>a. /\ turn'[t].pc = "open" /\ turn'[t].caller = Nobody
        /\ turn'[t].mode = turn[t].mode /\ turn'[t].n = turn[t].n
        /\ \A u \in TurnIds \ {t} : turn'[u] = turn[u]
    <3>1. turn[t] \in TurnSet
      BY DEF TypeOK
    <3>2. turn'[t] = next /\ \A u \in TurnIds \ {t} : turn'[u] = turn[u]
      BY <1>d, Fields
    <3> QED
      BY <3>1, <3>2 DEF TurnSet
  <2>b. c \in Readers /\ reader[c].phase = "posting" /\ reader[c].on = t
    BY <1>a DEF CallerInv, Starting, TypeOK, TurnSet
  <2>c. /\ reader'[c].phase = "attached" /\ reader'[c].on = t /\ reader'[c].queue = reader[c].queue
        /\ reader'[c].seen = reader[c].seen
        /\ \A r \in Readers \ {c} : reader'[r] = reader[r]
    BY <1>d, <2>b DEF TypeOK, ReaderSet
  <2>d. stored'[t] = 1 /\ stored[t] = 0 /\ turn[t].n = 0 /\ \A u \in TurnIds \ {t} : stored'[u] = stored[u]
    BY <1>a, <1>d DEF StoredOf, Starting, TypeOK
  <2>e. UNCHANGED <<active, subs>>
    BY <1>d
  <2>f. reader[c].queue = <<>> /\ reader[c].seen = 0
    BY <2>b DEF QuietInv
  <2> HIDE DEF Goes, next
  <2>1. ActiveInv'
    BY <1>a, <2>a, <2>e DEF ActiveInv, Working
  <2>2. CallerInv'
    <3>1. ASSUME NEW u \in TurnIds \ {t}
          PROVE  /\ turn[u].caller \in Readers \cup {Nobody}
                 /\ turn[u].caller = c => turn[u].caller = Nobody
      BY <2>b DEF CallerInv, TypeOK, TurnSet
    <3> QED
      BY <2>a, <2>b, <2>c, <3>1, TurnsAssumption DEF CallerInv, Starting
  <2>3. PostInv'
    BY <2>a, <2>b, <2>c DEF PostInv
  <2>4. SubsInv'
    <3>1. ASSUME NEW r \in Readers
          PROVE  /\ reader'[r].on = reader[r].on /\ reader'[r].queue = reader[r].queue
                 /\ reader[r].phase \in {"posting", "attached"}
                      => reader'[r].phase \in {"posting", "attached"}
      BY <2>b, <2>c
    <3>2. \A u \in TurnIds : subs[u] \subseteq Readers
      BY DEF TypeOK
    <3> QED
      BY <2>e, <3>1, <3>2 DEF SubsInv
  <2>5. QuietInv'
    BY <2>c DEF QuietInv
  <2>6. TurnInv'
    <3>1. ASSUME NEW u \in TurnIds \ {t} PROVE StreamOf(u)' /\ StoredOf(u)'
      BY <1>a, <2>a, <2>d, <2>e DEF TurnInv, StreamOf, StoredOf
    <3>2. StreamOf(t)' /\ StoredOf(t)'
      BY <1>a, <2>a, <2>d, <2>e DEF StreamOf, StoredOf, Starting
    <3> QED
      BY <3>1, <3>2 DEF TurnInv
  <2>7. SeenInv'
    <3>1. ASSUME NEW r \in Readers, r = c PROVE SeenBy(r)'
      BY <2>c, <2>f, <3>1 DEF SeenBy, Final
    <3>2. ASSUME NEW r \in Readers \ {c}, reader[r].phase = "attached", SeenBy(r)
          PROVE  SeenBy(r)'
      <4>1. /\ reader[r].on \in TurnIds
            /\ reader[r].seen \in Nat
            /\ \A i \in 1..Len(reader[r].queue) : reader[r].queue[i] \in Nat
        BY <3>2, ItemTypes DEF QuietInv
      <4>2. reader[r].on = t => stored'[reader[r].on] = 1 /\ stored[reader[r].on] = 0
        BY <2>d
      <4>3. reader[r].on # t => stored'[reader[r].on] = stored[reader[r].on]
        BY <2>d, <4>1
      <4> QED
        BY <2>c, <3>2, <4>1, <4>2, <4>3 DEF SeenBy
    <3> QED
      BY <1>a, <2>c, <3>1, <3>2 DEF SeenInv
  <2> QED
    BY <2>1, <2>2, <2>3, <2>4, <2>5, <2>6, <2>7
<1> QED
  BY <1>b, <1>c, <1>d

LEMMA RunningSteps ==
  ASSUME IndInv, TypeOK', NEW t \in TurnIds,
         OpenStream(t) \/ NextEvent(t) \/ EndOfStream(t) \/ Finalize(t) \/ GetUpstream(t)
  PROVE  Parts'
<1> USE DEF IndInv, Parts
<1>a. StreamOf(t) /\ StoredOf(t) /\ stored[t] \in Nat /\ turn[t].n \in Nat /\ turn[t] \in TurnSet
  BY StoredTypes DEF TurnInv, TypeOK
<1>1. CASE OpenStream(t) \/ EndOfStream(t)
  <2>1. /\ turn[t].pc \in {"open", "reading"} /\ UNCHANGED <<there, active, subs, final, reader, stored>>
        /\ At(t, "reading") \/ At(t, "finalize") \/ Broken(t)
    BY <1>1 DEF OpenStream, EndOfStream, store
  <2>2. /\ turn'[t].pc \in {"reading", "finalize"}
        /\ \A u \in TurnIds : /\ turn'[u].caller = turn[u].caller /\ turn'[u].mode = turn[u].mode
                              /\ turn'[u].n = turn[u].n
        /\ \A u \in TurnIds \ {t} : turn'[u] = turn[u]
    BY <2>1, AtFields, BrokenFields
  <2>3. StreamOf(t)' /\ StoredOf(t)'
    BY <1>a, <2>1, <2>2 DEF StreamOf, StoredOf, Starting
  <2> QED
    BY <1>a, <2>1, <2>2, <2>3, GoesOn DEF Working, Starting
<1>2. CASE NextEvent(t)
  <2> DEFINE read == [turn[t] EXCEPT !.n = @ + 1]
  <2>1. /\ turn[t].pc = "reading" /\ UNCHANGED <<there, active, subs, final, reader>>
        /\ \/ /\ turn' = [turn EXCEPT ![t] = [read EXCEPT !.pc = "broadcast"]]
              /\ stored' = [stored EXCEPT ![t] = read.n + 1]
           \/ /\ turn' = [turn EXCEPT ![t] = [read EXCEPT !.pc = "finalize", !.broken = TRUE]]
              /\ stored' = stored
    BY <1>2 DEF NextEvent
  <2>2. read \in [pc : PcStates, mode : {"stream", "sync"}, caller : Readers \cup {Nobody},
                  n : Nat, cut : BOOLEAN, broken : BOOLEAN, asRead : Statuses]
        /\ read.n = turn[t].n + 1 /\ read.caller = turn[t].caller /\ read.mode = turn[t].mode
    BY <1>a DEF TurnSet
  <2> HIDE DEF read
  <2>a. LET b == [read EXCEPT !.pc = "broadcast"]
            f == [read EXCEPT !.pc = "finalize", !.broken = TRUE]
        IN /\ b.pc = "broadcast" /\ b.n = read.n /\ b.caller = read.caller /\ b.mode = read.mode
           /\ f.pc = "finalize" /\ f.n = read.n /\ f.caller = read.caller /\ f.mode = read.mode
    BY <2>2
  <2>3. /\ turn'[t].pc \in {"broadcast", "finalize"} /\ turn'[t].n = read.n
        /\ turn'[t].caller = read.caller /\ turn'[t].mode = read.mode
    BY <2>1, <2>a, Fields
  <2>4. \A u \in TurnIds \ {t} : turn'[u] = turn[u] /\ stored'[u] = stored[u]
    BY <2>1 DEF TypeOK
  <2>5. \/ turn'[t].pc = "broadcast" /\ stored'[t] = read.n + 1
        \/ turn'[t].pc = "finalize" /\ stored'[t] = stored[t]
    <3>1. stored' = [stored EXCEPT ![t] = read.n + 1] => stored'[t] = read.n + 1
      BY DEF TypeOK
    <3> QED
      BY <2>1, <2>a, <3>1, Fields
  <2>6. StreamOf(t)' /\ StoredOf(t)' /\ stored[t] <= stored'[t]
    BY <1>a, <2>1, <2>2, <2>3, <2>5 DEF StreamOf, StoredOf, Starting, Final
  <2> QED
    BY <1>a, <2>1, <2>2, <2>3, <2>4, <2>6, GoesOn DEF Working, Starting
<1>3. CASE Finalize(t)
  <2> DEFINE next == [turn[t] EXCEPT !.pc = "get", !.asRead = status]
  <2>1. /\ turn[t].pc = "finalize" /\ UNCHANGED <<there, active, subs, final, reader>>
        /\ \/ turn' = [turn EXCEPT ![t] = next] /\ stored' = [stored EXCEPT ![t] = turn[t].n + 1]
           \/ At(t, "final") /\ stored' = stored
    <3>1. [turn EXCEPT ![t].pc = "get", ![t].asRead = status] = [turn EXCEPT ![t] = next]
      BY DEF TypeOK, TurnSet
    <3> QED
      BY <1>3, <3>1 DEF Finalize
  <2>2. next.pc = "get" /\ next.n = turn[t].n /\ next.caller = turn[t].caller /\ next.mode = turn[t].mode
    BY <1>a DEF TurnSet
  <2> HIDE DEF next
  <2>3. CASE turn' = [turn EXCEPT ![t] = next] /\ stored' = [stored EXCEPT ![t] = turn[t].n + 1]
    <3>1. turn'[t] = next /\ \A u \in TurnIds \ {t} : turn'[u] = turn[u]
      BY <2>3, Fields
    <3>2. stored'[t] = turn[t].n + 1 /\ \A u \in TurnIds \ {t} : stored'[u] = stored[u]
      BY <2>3 DEF TypeOK
    <3>3. StreamOf(t)' /\ StoredOf(t)' /\ stored[t] <= stored'[t]
      BY <1>a, <2>1, <2>2, <3>1, <3>2 DEF StreamOf, StoredOf, Starting
    <3> QED
      BY <1>a, <2>1, <2>2, <3>1, <3>2, <3>3, GoesOn DEF Working, Starting
  <2>4. CASE At(t, "final") /\ stored' = stored
    <3>1. StreamOf(t)' /\ StoredOf(t)'
      BY <1>a, <2>1, <2>4, AtFields DEF StreamOf, StoredOf, Starting
    <3> QED
      BY <1>a, <2>1, <2>4, <3>1, AtFields, GoesOn DEF Working, Starting
  <2> QED
    BY <2>1, <2>3, <2>4
<1>4. CASE GetUpstream(t)
  <2>1. /\ turn[t].pc = "get" /\ UNCHANGED <<there, stored, active, subs, final, reader>>
        /\ At(t, IF turn[t].mode = "stream" THEN "final" ELSE "drop")
    BY <1>4 DEF GetUpstream
  <2>2. turn[t].mode \in {"stream", "sync"}
    BY <1>a DEF TurnSet
  <2>3. StreamOf(t)' /\ StoredOf(t)'
    BY <1>a, <2>1, <2>2, AtFields DEF StreamOf, StoredOf, Starting
  <2> QED
    BY <1>a, <2>1, <2>3, AtFields, GoesOn DEF Working, Starting
<1> QED
  BY <1>1, <1>2, <1>3, <1>4

LEMMA EndSteps ==
  ASSUME IndInv, TypeOK', NEW t \in TurnIds, DropGuard(t) \/ SyncReply(t)
  PROVE  Parts'
<1> USE DEF IndInv, Parts
<1>a. StreamOf(t) /\ StoredOf(t) /\ stored[t] \in Nat /\ turn[t] \in TurnSet
  BY StoredTypes DEF TurnInv, TypeOK
<1>1. CASE DropGuard(t)
  <2>1. Release(t) /\ UNCHANGED <<there, stored, final>> /\ turn[t].pc = "drop"
    BY <1>1 DEF DropGuard, store
  <2>2. CASE turn[t].mode = "sync"
    BY <1>1, <2>1, <2>2, ReleaseFinishes DEF DropGuard
  <2>3. CASE turn[t].mode = "stream"
    <3>1. turn[t].caller = Nobody /\ reader' = reader
      BY <1>1, <1>a, <2>1, <2>3 DEF StoredOf, DropGuard
    <3>2. Answer(t)
      BY <3>1, TurnsAssumption DEF Answer, TypeOK
    <3> QED
      BY <2>1, <3>2, ReleaseFinishes
  <2> QED
    BY <1>a, <2>2, <2>3 DEF TurnSet
<1>2. CASE SyncReply(t)
  <2> DEFINE next == [turn[t] EXCEPT !.pc = "get", !.asRead = status]
             Reply == /\ turn' = [turn EXCEPT ![t] = next] /\ UNCHANGED <<active, subs, reader>>
                      /\ \E k \in 0..MaxEvents : stored' = [stored EXCEPT ![t] = k + 1]
  <2>1. turn[t].pc = "await" /\ UNCHANGED <<there, final>>
    BY <1>2 DEF SyncReply
  <2>2. Reply \/ (Release(t) /\ Answer(t) /\ stored' = stored)
    <3>1. [turn EXCEPT ![t].pc = "get", ![t].asRead = status] = [turn EXCEPT ![t] = next]
      BY DEF TypeOK, TurnSet
    <3> QED
      BY <1>2, <3>1 DEF SyncReply
  <2>3. next.pc = "get" /\ next.n = turn[t].n /\ next.caller = turn[t].caller /\ next.mode = turn[t].mode
    BY <1>a DEF TurnSet
  <2> HIDE DEF next
  <2>4. CASE Reply
    <3>1. turn'[t] = next /\ \A u \in TurnIds \ {t} : turn'[u] = turn[u]
      BY <2>4, Fields
    <3>2. stored'[t] \in Nat /\ \A u \in TurnIds \ {t} : stored'[u] = stored[u]
      BY <2>4 DEF TypeOK
    <3>3. stored[t] = 0 /\ turn[t].mode = "sync"
      BY <1>a, <2>1 DEF StoredOf, StreamOf
    <3>4. StreamOf(t)' /\ StoredOf(t)'
      BY <1>a, <2>1, <2>3, <2>4, <3>1, <3>3 DEF StreamOf, StoredOf, Starting
    <3> QED
      BY <1>a, <2>1, <2>3, <2>4, <3>1, <3>2, <3>3, <3>4, GoesOn DEF Working, Starting
  <2>5. CASE Release(t) /\ Answer(t) /\ stored' = stored
    BY <2>1, <2>5, ReleaseFinishes
  <2> QED
    BY <2>2, <2>4, <2>5
<1> QED
  BY <1>1, <1>2

\* what a broadcast does to each reader
LEMMA PushEffect ==
  ASSUME TypeOK, NEW t \in TurnIds, NEW item \in Nat, Push(t, item), NEW r \in Readers
  PROVE  /\ reader'[r].phase = reader[r].phase /\ reader'[r].on = reader[r].on
         /\ reader'[r].seen = reader[r].seen
         /\ \/ reader'[r].queue = reader[r].queue /\ ~(r \in subs[t] /\ HasRoom(r))
            \/ /\ r \in subs[t] /\ HasRoom(r)
               /\ reader'[r].queue = Append(reader[r].queue, item)
<1>1. reader'[r] = IF r \in subs[t] /\ HasRoom(r)
                     THEN [reader[r] EXCEPT !.queue = Append(reader[r].queue, item)] ELSE reader[r]
  BY DEF Push
<1>2. reader[r] \in ReaderSet
  BY DEF TypeOK
<1> QED
  BY <1>1, <1>2 DEF ReaderSet

\* the items of a channel after one more
LEMMA Appended ==
  ASSUME NEW q \in Seq(0..MaxEvents), NEW item \in Nat,
         NEW i \in 1..Len(Append(q, item))
  PROVE  \/ i \in 1..Len(q) /\ Append(q, item)[i] = q[i]
         \/ Append(q, item)[i] = item
OBVIOUS

\* every subscriber of a turn that its task runs has its stream
LEMMA Attached ==
  ASSUME IndInv, NEW t \in TurnIds, turn[t].caller = Nobody, NEW r \in subs[t]
  PROVE  /\ r \in Readers /\ reader[r].phase = "attached" /\ reader[r].on = t
         /\ \A i \in 1..Len(reader[r].queue) : reader[r].queue[i] # Final
<1>1. r \in Readers
  BY DEF IndInv, TypeOK
<1>2. reader[r].phase # "posting"
  BY <1>1, TurnsAssumption DEF IndInv, Parts, SubsInv, PostInv
<1> QED
  BY <1>1, <1>2 DEF IndInv, Parts, SubsInv

LEMMA SentSteps ==
  ASSUME IndInv, TypeOK', NEW t \in TurnIds, Broadcast(t) \/ SendFinal(t)
  PROVE  Parts'
<1> USE DEF IndInv, Parts
<1> DEFINE item == IF turn[t].pc = "broadcast" THEN turn[t].n ELSE Final
<1>a. StreamOf(t) /\ StoredOf(t) /\ turn[t].n \in Nat /\ stored[t] \in Nat
  BY StoredTypes DEF TurnInv
<1>b. /\ turn[t].pc \in {"broadcast", "final"} /\ UNCHANGED <<there, stored, active>>
      /\ Push(t, item)
      /\ \A u \in TurnIds \ {t} : subs'[u] = subs[u] /\ final'[u] = final[u]
  BY DEF Broadcast, SendFinal, store, TypeOK
<1>c. /\ turn'[t].pc = IF turn[t].pc = "broadcast" THEN "reading" ELSE "drop"
      /\ \A u \in TurnIds : /\ turn'[u].caller = turn[u].caller /\ turn'[u].mode = turn[u].mode
                            /\ turn'[u].n = turn[u].n
      /\ \A u \in TurnIds \ {t} : turn'[u] = turn[u]
  BY AtFields DEF Broadcast, SendFinal
<1>d. /\ turn[t].pc = "broadcast" => subs'[t] = {r \in subs[t] : HasRoom(r)}
      /\ turn[t].pc = "final" => subs'[t] = {} /\ final'[t]
  BY DEF Broadcast, SendFinal, TypeOK
<1>e. turn[t].caller = Nobody /\ item \in Nat
  BY <1>a, <1>b DEF StoredOf, Final
<1>f. /\ turn[t].pc = "broadcast" => item # Final
      /\ item # Final => (there => item < stored[t])
  BY <1>a, <1>b DEF StoredOf
<1> HIDE DEF item
<1>1. ActiveInv'
  BY <1>b, <1>c DEF ActiveInv, Working
<1>2. CallerInv'
  <2>1. \A u \in TurnIds : turn[u].caller \in Readers \cup {Nobody}
    BY DEF TypeOK, TurnSet
  <2> QED
    BY <1>b, <1>c, <1>e, <2>1, PushEffect DEF CallerInv, Starting
<1>3. PostInv'
  BY <1>b, <1>c, <1>e, PushEffect DEF PostInv
<1>4. SubsInv'
  <2>1. ASSUME NEW u \in TurnIds, NEW r \in subs'[u]
        PROVE  /\ reader'[r].on = u /\ reader'[r].phase \in {"posting", "attached"}
               /\ \A i \in 1..Len(reader'[r].queue) : reader'[r].queue[i] # Final
    <3>1. r \in subs[u] /\ r \in Readers
      BY <1>b, <1>d DEF TypeOK
    <3>2. /\ reader[r].on = u /\ reader[r].phase \in {"posting", "attached"}
          /\ \A i \in 1..Len(reader[r].queue) : reader[r].queue[i] # Final
      BY <3>1 DEF SubsInv
    <3>3. reader'[r].on = u /\ reader'[r].phase \in {"posting", "attached"}
      BY <1>b, <1>e, <3>1, <3>2, PushEffect
    <3>4. CASE reader'[r].queue = reader[r].queue
      BY <3>2, <3>3, <3>4
    <3>5. CASE r \in subs[t] /\ reader'[r].queue = Append(reader[r].queue, item)
      <4>1. u = t
        BY <3>2, <3>5 DEF SubsInv
      <4>2. item # Final
        BY <1>b, <1>d, <1>f, <4>1
      <4>3. reader[r].queue \in Seq(0..MaxEvents)
        BY <3>1 DEF TypeOK, ReaderSet
      <4> QED
        BY <1>e, <3>2, <3>3, <3>5, <4>2, <4>3, Appended
    <3> QED
      BY <1>b, <1>e, <3>1, <3>4, <3>5, PushEffect
  <2> QED
    BY <2>1 DEF SubsInv
<1>5. QuietInv'
  <2>1. ASSUME NEW r \in Readers, reader[r].phase # "attached" PROVE r \notin subs[t]
    BY <1>e, <2>1, Attached
  <2> QED
    BY <1>b, <1>e, <2>1, PushEffect DEF QuietInv
<1>6. TurnInv'
  <2>1. ASSUME NEW u \in TurnIds \ {t} PROVE StreamOf(u)' /\ StoredOf(u)'
    BY <1>b, <1>c DEF TurnInv, StreamOf, StoredOf
  <2>2. StreamOf(t)'
    BY <1>a, <1>b, <1>c, <1>d DEF StreamOf, Starting
  <2>3. StoredOf(t)'
    BY <1>a, <1>b, <1>c, <1>e DEF StoredOf, Starting
  <2> QED
    BY <2>1, <2>2, <2>3 DEF TurnInv
<1>7. SeenInv'
  <2>1. ASSUME there, NEW r \in Readers, reader[r].phase = "attached"
        PROVE  SeenBy(r)'
    <3>1. SeenBy(r)
      BY <2>1 DEF SeenInv
    <3>2. /\ reader'[r].phase = reader[r].phase /\ reader'[r].on = reader[r].on
          /\ reader'[r].seen = reader[r].seen /\ stored' = stored
      BY <1>b, <1>e, PushEffect
    <3>3. CASE reader'[r].queue = reader[r].queue
      BY <3>1, <3>2, <3>3 DEF SeenBy
    <3>4. CASE r \in subs[t] /\ reader'[r].queue = Append(reader[r].queue, item)
      <4>1. reader[r].on = t
        BY <3>4 DEF SubsInv
      <4>2. reader[r].queue \in Seq(0..MaxEvents)
        BY DEF TypeOK, ReaderSet
      <4> QED
        BY <1>e, <1>f, <2>1, <3>1, <3>2, <3>4, <4>1, <4>2, Appended DEF SeenBy
    <3> QED
      BY <1>b, <1>e, <3>3, <3>4, PushEffect
  <2> QED
    BY <1>b, <1>e, <2>1, PushEffect DEF SeenInv
<1> QED
  BY <1>1, <1>2, <1>3, <1>4, <1>5, <1>6, <1>7

----------------------------------------------------------------------------
(* Every step of a reader                                                  *)

LEMMA SendStep ==
  ASSUME IndInv, TypeOK', NEW r \in Readers, NEW t \in TurnIds, NEW m \in {"stream", "sync"},
         Send(r, t, m)
  PROVE  Parts'
<1> USE DEF IndInv, Parts
<1>a. StreamOf(t) /\ StoredOf(t) /\ turn[t].pc = "none" /\ reader[r].phase = "idle"
  BY DEF TurnInv, Send
<1>b. UNCHANGED <<there, stored, active, subs, final>>
  BY DEF Send, store
<1>c. /\ turn'[t].pc = "ensure" /\ turn'[t].caller = r /\ turn'[t].n = 0
      /\ \A u \in TurnIds \ {t} : turn'[u] = turn[u]
  <2> DEFINE next == [Unsent EXCEPT !.pc = "ensure", !.mode = m, !.caller = r]
  <2>1. next.pc = "ensure" /\ next.caller = r /\ next.n = 0
    BY DEF Unsent
  <2>2. turn' = [turn EXCEPT ![t] = next]
    BY DEF Send
  <2> HIDE DEF next
  <2> QED
    BY <2>1, <2>2, Fields
<1>d. /\ reader'[r].phase = "posting" /\ reader'[r].on = t /\ reader'[r].queue = reader[r].queue
      /\ reader'[r].seen = reader[r].seen
      /\ \A s \in Readers \ {r} : reader'[s] = reader[s]
  BY DEF Send, TypeOK, ReaderSet
<1>e. /\ \A u \in TurnIds : r \notin subs[u]
      /\ \A u \in TurnIds : turn[u].caller # r /\ turn[u].caller \in Readers \cup {Nobody}
  <2>1. \A u \in TurnIds : turn[u].caller \in Readers \cup {Nobody}
    BY DEF TypeOK, TurnSet
  <2>2. \A u \in TurnIds : r \notin subs[u]
    BY <1>a DEF SubsInv
  <2>3. \A u \in TurnIds : turn[u].caller # r
    BY <1>a, TurnsAssumption DEF CallerInv
  <2> QED
    BY <2>1, <2>2, <2>3
<1>1. ActiveInv'
  BY <1>a, <1>b, <1>c DEF ActiveInv, Working
<1>2. CallerInv'
  BY <1>c, <1>d, <1>e, TurnsAssumption DEF CallerInv, Starting
<1>3. PostInv'
  <2>1. ASSUME NEW s \in Readers \ {r}, reader[s].phase = "posting" PROVE reader[s].on # t
    <3>1. turn[t].caller = Nobody
      BY <1>a DEF StoredOf
    <3> QED
      BY <2>1, <3>1, TurnsAssumption DEF PostInv
  <2> QED
    BY <1>c, <1>d, <2>1 DEF PostInv
<1>4. SubsInv'
  <2>1. \A u \in TurnIds : subs[u] \subseteq Readers \ {r}
    BY <1>e DEF TypeOK
  <2> QED
    BY <1>b, <1>d, <2>1 DEF SubsInv
<1>5. QuietInv'
  BY <1>a, <1>d DEF QuietInv
<1>6. TurnInv'
  <2>1. ASSUME NEW u \in TurnIds \ {t} PROVE StreamOf(u)' /\ StoredOf(u)'
    BY <1>b, <1>c DEF TurnInv, StreamOf, StoredOf
  <2>2. StreamOf(t)' /\ StoredOf(t)'
    BY <1>a, <1>b, <1>c DEF StreamOf, StoredOf, Starting
  <2> QED
    BY <2>1, <2>2 DEF TurnInv
<1>7. SeenInv'
  BY <1>b, <1>d DEF SeenInv, SeenBy
<1> QED
  BY <1>1, <1>2, <1>3, <1>4, <1>5, <1>6, <1>7

LEMMA LookSteps ==
  ASSUME IndInv, TypeOK', NEW r \in Readers,
         \/ ViewRead(r) \/ ViewEnsured(r) \/ ViewReply(r) \/ TurnNotFound(r)
         \/ DeleteCall(r) \/ DeleteRow(r) \/ KillCall(r) \/ KillRow(r)
  PROVE  Parts'
<1> USE DEF IndInv, Parts
<1>a. /\ Idle.phase = "idle" /\ Idle.queue = <<>> /\ Idle.seen = 0
  BY DEF Idle
<1>b. reader[r].phase \notin {"posting", "attached"}
  BY DEF ViewRead, ViewEnsured, ViewReply, TurnNotFound, DeleteCall, DeleteRow, KillCall, KillRow
<1>c. reader[r].queue = <<>> /\ reader[r].seen = 0 /\ reader[r] \in ReaderSet
  BY <1>b DEF QuietInv, TypeOK
<1>d. /\ reader'[r].phase \notin {"posting", "attached"} /\ reader'[r].queue = <<>> /\ reader'[r].seen = 0
      /\ reader'[r].phase = "viewed" => reader'[r].on \in TurnIds
      /\ \A s \in Readers \ {r} : reader'[s] = reader[s]
  <2>1. CASE \E p \in {"ensured", "deleting", "killing"} : Becomes(r, p)
    <3>1. PICK p \in {"ensured", "deleting", "killing"} : reader' = [reader EXCEPT ![r].phase = p]
      BY <2>1 DEF Becomes
    <3>2. /\ reader'[r].phase = p /\ reader'[r].queue = reader[r].queue /\ reader'[r].seen = reader[r].seen
          /\ \A s \in Readers \ {r} : reader'[s] = reader[s]
      BY <1>c, <3>1 DEF TypeOK, ReaderSet
    <3> QED
      BY <1>c, <3>2
  <2>2. CASE reader' = [reader EXCEPT ![r] = Idle]
    BY <1>a, <2>2 DEF TypeOK
  <2>3. CASE ViewRead(r)
    BY <1>c, <2>3 DEF ViewRead, TypeOK, ReaderSet
  <2>4. CASE ViewReply(r) /\ active # NoTurn
    <3> DEFINE next == [Idle EXCEPT !.phase = "viewed", !.on = active]
    <3>1. next.phase = "viewed" /\ next.on = active /\ next.queue = <<>> /\ next.seen = 0
      BY DEF Idle
    <3>2. reader' = [reader EXCEPT ![r] = next]
      BY <2>4 DEF ViewReply
    <3> HIDE DEF next
    <3> QED
      BY <2>4, <3>1, <3>2 DEF TypeOK
  <2>5. CASE DeleteCall(r) /\ reader' = reader
    BY <1>b, <1>c, <2>5 DEF DeleteCall
  <2>6. ViewReply(r) /\ active = NoTurn => reader' = [reader EXCEPT ![r] = Idle]
    BY DEF ViewReply
  <2>7. DeleteRow(r) \/ KillRow(r) \/ TurnNotFound(r) => reader' = [reader EXCEPT ![r] = Idle]
    BY DEF DeleteRow, KillRow, TurnNotFound
  <2>8. ViewEnsured(r) => Becomes(r, "ensured") \/ reader' = [reader EXCEPT ![r] = Idle]
    BY DEF ViewEnsured
  <2>9. /\ DeleteCall(r) => Becomes(r, "deleting") \/ reader' = reader
        /\ KillCall(r) => Becomes(r, "killing")
    BY DEF DeleteCall, KillCall
  <2> QED
    BY <2>1, <2>2, <2>3, <2>4, <2>5, <2>6, <2>7, <2>8, <2>9
<1>e. \A u \in TurnIds : /\ turn'[u].pc = turn[u].pc /\ turn'[u].mode = turn[u].mode
                         /\ turn'[u].caller = turn[u].caller /\ turn'[u].n = turn[u].n
  <2>1. CASE turn' = turn
    BY <2>1
  <2>2. CASE turn' = CutOff
    BY <2>2, CutOffTypes
  <2> QED
    BY <2>1, <2>2 DEF ViewRead, ViewEnsured, ViewReply, TurnNotFound, DeleteCall, DeleteRow, KillCall, KillRow,
                      DestroyUpstream
<1>f. /\ UNCHANGED <<active, subs, final>>
      /\ \/ there' = there /\ stored' = stored
         \/ ~there' /\ stored' = Empty
  BY DEF ViewRead, ViewEnsured, ViewReply, TurnNotFound, DeleteCall, DeleteRow, KillCall, KillRow, store
<1> QED
  BY <1>b, <1>d, <1>e, <1>f, LooksOn

\* a stream changes, its reader stays or goes; turns go on
LEMMA StreamStep ==
  ASSUME IndInv, TypeOK', NEW r \in Readers, NEW t \in TurnIds, reader[r].on = t,
         reader[r].phase \in {"viewed", "attached"},
         \A s \in Readers \ {r} : reader'[s] = reader[s],
         \/ reader'[r].phase = "idle" /\ reader'[r].queue = <<>> /\ reader'[r].seen = 0
         \/ reader'[r].phase = "attached" /\ reader'[r].on = t,
         turn' = turn, active' = active, final' = final, there' = there, stored' = stored,
         \A u \in TurnIds \ {t} : subs'[u] = subs[u],
         subs'[t] \ {r} = subs[t] \ {r},
         r \in subs'[t] => /\ reader'[r].phase = "attached" /\ (r \in subs[t] \/ ~final[t])
                           /\ active = t /\ turn[t].mode = "stream"
                           /\ \A i \in 1..Len(reader'[r].queue) : reader'[r].queue[i] # Final,
         there /\ reader'[r].phase = "attached" => SeenBy(r)'
  PROVE  Parts'
<1> USE DEF IndInv, Parts
<1>a. StreamOf(t) /\ StoredOf(t)
  BY DEF TurnInv
<1>1. ActiveInv'
  BY DEF ActiveInv
<1>2. CallerInv'
  <2>1. \A u \in TurnIds : turn[u].caller \in Readers \cup {Nobody}
    BY DEF TypeOK, TurnSet
  <2> QED
    BY <2>1 DEF CallerInv
<1>3. PostInv'
  BY DEF PostInv
<1>4. SubsInv'
  <2>1. \A u \in TurnIds \ {t} : subs[u] \subseteq Readers \ {r}
    BY DEF SubsInv, TypeOK
  <2>2. ASSUME NEW s \in subs'[t], s # r PROVE s \in subs[t] /\ reader'[s] = reader[s]
    BY <2>2 DEF TypeOK
  <2>3. \A u \in TurnIds \ {t} : \A s \in subs'[u] : s \in subs[u] /\ reader'[s] = reader[s]
    BY <2>1
  <2> QED
    BY <2>2, <2>3 DEF SubsInv
<1>5. QuietInv'
  BY DEF QuietInv
<1>6. TurnInv'
  <2>1. ASSUME NEW u \in TurnIds \ {t} PROVE StreamOf(u)' /\ StoredOf(u)'
    BY DEF TurnInv, StreamOf, StoredOf
  <2>2. StreamOf(t)'
    <3>1. CASE r \notin subs'[t]
      BY <1>a, <3>1 DEF StreamOf
    <3>2. CASE r \in subs'[t]
      <4>1. turn[t].pc \in Working /\ turn[t].mode = "stream"
        BY <3>2 DEF ActiveInv
      <4>2. turn[t].pc # "drop"
        BY <1>a, <3>2, <4>1 DEF StreamOf
      <4> QED
        BY <1>a, <4>1, <4>2 DEF StreamOf, Working
    <3> QED
      BY <3>1, <3>2
  <2>3. StoredOf(t)'
    BY <1>a DEF StoredOf
  <2> QED
    BY <2>1, <2>2, <2>3 DEF TurnInv
<1>7. SeenInv'
  <2>1. ASSUME NEW s \in Readers \ {r}, there, reader'[s].phase = "attached" PROVE SeenBy(s)'
    BY <2>1 DEF SeenInv, SeenBy
  <2> QED
    BY <2>1 DEF SeenInv
<1> QED
  BY <1>1, <1>2, <1>3, <1>4, <1>5, <1>6, <1>7

\* a stream with a subscriber is that of the active turn
LEMMA Subscribed ==
  ASSUME IndInv, NEW t \in TurnIds, subs[t] # {}
  PROVE  active = t /\ turn[t].mode = "stream"
<1>1. turn[t].pc \notin {"none", "ensure", "begin", "drop", "done"} /\ turn[t].mode # "sync"
  BY DEF IndInv, Parts, TurnInv, StreamOf
<1>2. turn[t].pc \in PcStates /\ turn[t].mode \in {"stream", "sync"}
  BY DEF IndInv, TypeOK, TurnSet
<1>3. turn[t].pc \in Working
  BY <1>1, <1>2 DEF PcStates, Starting, Working
<1> QED
  BY <1>1, <1>2, <1>3 DEF IndInv, Parts, ActiveInv

LEMMA StreamSteps ==
  ASSUME IndInv, TypeOK', NEW r \in Readers,
         Attach(r) \/ Receive(r) \/ Cut(r) \/ LeaveStream(r)
  PROVE  Parts'
<1> USE DEF IndInv, Parts
<1>a. PICK t \in TurnIds : reader[r].on = t
  BY DEF QuietInv, Attach, Receive, Cut, LeaveStream
<1>b. reader[r].phase \in {"viewed", "attached"} /\ UNCHANGED <<turn, active, final, there, stored>>
  BY DEF Attach, Receive, Cut, LeaveStream, store
<1>c. reader[r] \in ReaderSet /\ reader[r].queue \in Seq(0..MaxEvents) /\ Final = 0
  BY DEF TypeOK, ReaderSet, Final
<1>d. /\ Idle.phase = "idle" /\ Idle.queue = <<>> /\ Idle.seen = 0
  BY DEF Idle
<1>e. there /\ reader[r].phase = "attached" => SeenBy(r)
  BY DEF SeenInv
<1>1. CASE Attach(r)
  <2>a. reader[r].queue = <<>> /\ reader[r].seen = 0
    BY <1>1 DEF Attach, QuietInv
  <2>b. active = t /\ turn[t].mode = "stream" /\ r \notin subs[t]
    BY <1>1, <1>a DEF Attach, CanAttach, SubsInv
  <2>1. CASE final[t]
    <3>1. /\ reader'[r].phase = "attached" /\ reader'[r].on = t /\ reader'[r].queue = <<Final>>
          /\ reader'[r].seen = 0
          /\ \A s \in Readers \ {r} : reader'[s] = reader[s]
      <4>1. reader' = [reader EXCEPT ![r].phase = "attached", ![r].queue = <<Final>>]
        BY <1>1, <1>a, <2>1 DEF Attach
      <4> QED
        BY <1>a, <1>c, <2>a, <4>1 DEF TypeOK, ReaderSet
    <3>2. subs' = subs
      BY <1>1, <1>a, <2>1 DEF Attach
    <3>3. SeenBy(r)'
      BY <1>c, <3>1 DEF SeenBy
    <3> QED
      BY <1>a, <1>b, <2>b, <3>1, <3>2, <3>3, StreamStep
  <2>2. CASE ~final[t]
    <3>1. /\ reader'[r].phase = "attached" /\ reader'[r].on = t /\ reader'[r].queue = <<>>
          /\ reader'[r].seen = 0
          /\ \A s \in Readers \ {r} : reader'[s] = reader[s]
      <4>1. reader' = [reader EXCEPT ![r].phase = "attached"]
        BY <1>1, <1>a, <2>2 DEF Attach, Becomes
      <4> QED
        BY <1>a, <1>c, <2>a, <4>1 DEF TypeOK, ReaderSet
    <3>2. subs'[t] = subs[t] \cup {r} /\ \A u \in TurnIds \ {t} : subs'[u] = subs[u]
      BY <1>1, <1>a, <2>2 DEF Attach, TypeOK
    <3>3. SeenBy(r)'
      BY <1>c, <3>1 DEF SeenBy
    <3> QED
      BY <1>a, <1>b, <2>b, <2>2, <3>1, <3>2, <3>3, StreamStep
  <2> QED
    BY <2>1, <2>2
<1>2. CASE Receive(r)
  <2> DEFINE item == Head(reader[r].queue)
             rest == Tail(reader[r].queue)
             next == [reader[r] EXCEPT !.queue = rest, !.seen = item]
  <2>a. /\ reader[r].phase = "attached" /\ reader[r].queue # <<>> /\ subs' = subs
        /\ reader' = [reader EXCEPT ![r] = IF item = Final THEN Idle ELSE next]
    BY <1>2 DEF Receive
  <2>b. /\ item = reader[r].queue[1] /\ 1 \in 1..Len(reader[r].queue)
        /\ \A i \in 1..Len(rest) : i + 1 \in 1..Len(reader[r].queue) /\ rest[i] = reader[r].queue[i + 1]
    BY <1>c, <2>a
  <2>c. next.phase = reader[r].phase /\ next.on = reader[r].on /\ next.queue = rest /\ next.seen = item
    BY <1>c DEF ReaderSet
  <2>d. r \in subs[t] => /\ active = t /\ turn[t].mode = "stream"
                         /\ \A i \in 1..Len(reader[r].queue) : reader[r].queue[i] # Final
    BY Subscribed DEF SubsInv
  <2> HIDE DEF next, item, rest
  <2>e. /\ reader'[r] = IF item = Final THEN Idle ELSE next
        /\ \A s \in Readers \ {r} : reader'[s] = reader[s]
    BY <2>a DEF TypeOK
  <2>1. CASE item = Final
    <3>1. r \notin subs[t]
      BY <2>b, <2>d, <2>1
    <3> QED
      BY <1>a, <1>b, <1>d, <2>a, <2>e, <2>1, <3>1, StreamStep
  <2>2. CASE item # Final
    <3>1. reader'[r] = next
      BY <2>e, <2>2
    <3>2. there => SeenBy(r)'
      BY <1>a, <1>b, <1>e, <2>a, <2>b, <2>c, <2>2, <3>1 DEF SeenBy
    <3>3. r \in subs[t] => \A i \in 1..Len(rest) : rest[i] # Final
      BY <2>b, <2>d
    <3> QED
      BY <1>a, <1>b, <2>a, <2>c, <2>d, <2>e, <3>1, <3>2, <3>3, StreamStep
  <2> QED
    BY <2>1, <2>2
<1>3. CASE Cut(r) \/ LeaveStream(r)
  <2>1. /\ reader'[r] = Idle /\ \A s \in Readers \ {r} : reader'[s] = reader[s]
    BY <1>3 DEF Cut, LeaveStream, TypeOK
  <2>2. /\ r \notin subs'[t] /\ subs'[t] \ {r} = subs[t] \ {r}
        /\ \A u \in TurnIds \ {t} : subs'[u] = subs[u]
    BY <1>3, <1>a DEF Cut, LeaveStream, TypeOK
  <2> QED
    BY <1>a, <1>b, <1>d, <2>1, <2>2, StreamStep
<1> QED
  BY <1>1, <1>2, <1>3

LEMMA LeaveRequestStep ==
  ASSUME IndInv, TypeOK', NEW r \in Readers, LeaveRequest(r)
  PROVE  Parts'
<1>1. PICK t \in TurnIds : t = reader[r].on
  BY DEF LeaveRequest, IndInv, Parts, PostInv
<1> QED
  BY <1>1, ReleaseFinishes DEF LeaveRequest, store

----------------------------------------------------------------------------
(* A restart                                                               *)

LEMMA RestartStep ==
  ASSUME IndInv, TypeOK', ClientRestart
  PROVE  Parts'
<1> USE DEF IndInv, Parts
<1>a. /\ Idle.phase = "idle" /\ Idle.queue = <<>> /\ Idle.seen = 0
      /\ Unsent.pc = "none" /\ Unsent.caller = Nobody /\ Unsent.n = 0 /\ Unsent.mode = "stream"
      /\ Over.pc = "done" /\ Over.caller = Nobody /\ Over.mode = "stream"
  BY DEF Idle, Unsent, Over
<1>b. /\ active' = NoTurn /\ UNCHANGED <<there, stored, final>>
      /\ \A t \in TurnIds : turn'[t] = IF turn[t].pc = "none" THEN Unsent ELSE Over
      /\ \A t \in TurnIds : subs'[t] = {}
      /\ \A r \in Readers : reader'[r] = Idle
  BY DEF ClientRestart, store
<1>1. ActiveInv'
  BY <1>a, <1>b, TurnsAssumption DEF ActiveInv, Working
<1>2. CallerInv'
  BY <1>a, <1>b DEF CallerInv, Starting
<1>3. PostInv' /\ SubsInv' /\ QuietInv' /\ SeenInv'
  BY <1>a, <1>b DEF PostInv, SubsInv, QuietInv, SeenInv
<1>4. TurnInv'
  <2>1. ASSUME NEW t \in TurnIds PROVE StreamOf(t)' /\ StoredOf(t)'
    BY <1>a, <1>b DEF TurnInv, StreamOf, StoredOf, Starting
  <2> QED
    BY <2>1 DEF TurnInv
<1> QED
  BY <1>1, <1>2, <1>3, <1>4

LEMMA InitInductive == Init => IndInv
<1> SUFFICES ASSUME Init PROVE IndInv
  OBVIOUS
<1>a. /\ Idle.phase = "idle" /\ Idle.queue = <<>> /\ Idle.seen = 0
      /\ Unsent.pc = "none" /\ Unsent.caller = Nobody /\ Unsent.n = 0 /\ Unsent.mode = "stream"
  BY DEF Idle, Unsent
<1>b. /\ active = NoTurn
      /\ \A t \in TurnIds : turn[t] = Unsent /\ subs[t] = {} /\ stored[t] = 0
      /\ \A r \in Readers : reader[r] = Idle
  BY DEF Init, Empty
<1>1. TypeOK
  BY TypeInit
<1>2. ActiveInv /\ CallerInv
  BY <1>a, <1>b, TurnsAssumption DEF ActiveInv, Working, CallerInv, Starting
<1>3. PostInv /\ SubsInv /\ QuietInv /\ SeenInv
  BY <1>a, <1>b DEF PostInv, SubsInv, QuietInv, SeenInv
<1>4. TurnInv
  BY <1>a, <1>b DEF TurnInv, StreamOf, StoredOf, Starting
<1> QED
  BY <1>1, <1>2, <1>3, <1>4 DEF IndInv, Parts

----------------------------------------------------------------------------
(* Theorems                                                                *)

LEMMA PartsStep ==
  ASSUME IndInv, TypeOK', [Next]_vars
  PROVE  Parts'
<1>1. ASSUME NEW t \in TurnIds, Run(t) PROVE Parts'
  BY <1>1, StartSteps, BeginStep, PlaceholderStep, RunningSteps, SentSteps, EndSteps DEF Run
<1>2. ASSUME NEW r \in Readers, NEW t \in TurnIds, NEW m \in {"stream", "sync"}, Send(r, t, m)
      PROVE  Parts'
  BY <1>2, SendStep
<1>3. ASSUME NEW r \in Readers,
             \/ ViewRead(r) \/ Read(r) \/ LeaveStream(r) \/ LeaveRequest(r) \/ DeleteCall(r) \/ KillCall(r)
      PROVE  Parts'
  BY <1>3, LookSteps, StreamSteps, LeaveRequestStep DEF Read
<1>4. CASE ClientRestart
  BY <1>4, RestartStep
<1>5. CASE UNCHANGED vars
  BY <1>5 DEF vars, store, IndInv, Parts, ActiveInv, CallerInv, PostInv, SubsInv, QuietInv, TurnInv,
              StreamOf, StoredOf, SeenInv, SeenBy
<1> QED
  BY <1>1, <1>2, <1>3, <1>4, <1>5 DEF Next

LEMMA Inductive == Spec => []IndInv
<1>1. IndInv /\ [Next]_vars => IndInv'
  <2> SUFFICES ASSUME IndInv, [Next]_vars PROVE IndInv'
    OBVIOUS
  <2>1. TypeOK'
    BY TypeStep DEF IndInv, Parts
  <2> QED
    BY <2>1, PartsStep DEF IndInv
<1> QED
  BY <1>1, InitInductive, PTL DEF Spec

\* TypeOK, the bound of send_stream_item's channels included, holds in every
\* state of client_service's turns.
THEOREM TurnsTyped == Spec => []TypeOK
<1>1. IndInv => TypeOK
  BY DEF IndInv
<1> QED
  BY <1>1, Inductive, PTL

\* SeenIsStored: stream_assistant_events stores an event before it broadcasts
\* it and finalize_streaming_turn stores no less, so whatever a subscriber has
\* been sent is in the messages of a session that is still there.
THEOREM StreamedIsStored == Spec => []SeenIsStored
<1>1. IndInv => SeenIsStored
  BY DEF IndInv, Parts, SeenInv, SeenBy, SeenIsStored
<1> QED
  BY <1>1, Inductive, PTL

\* a turn writes its own messages
LEMMA RunWrites ==
  ASSUME TypeOK, NEW u \in TurnIds, Run(u)
  PROVE  \A t \in TurnIds \ {u} : stored'[t] = stored[t] /\ asked'[t] = asked[t]
<1>1. \/ stored' = stored
      \/ \E k : stored' = [stored EXCEPT ![u] = k]
  BY DEF Run, Ensure, Begin, Refuse, MarkBusy, AppendUser, Placeholder, OpenStream, NextEvent,
         Broadcast, EndOfStream, Finalize, GetUpstream, SendFinal, DropGuard, SyncReply, store
<1>2. asked' = asked \/ asked' = [asked EXCEPT ![u] = TRUE]
  BY DEF Run, Ensure, Begin, Refuse, MarkBusy, AppendUser, Placeholder, OpenStream, NextEvent,
         Broadcast, EndOfStream, Finalize, GetUpstream, SendFinal, DropGuard, SyncReply, store
<1> QED
  BY <1>1, <1>2 DEF TypeOK

\* TurnsApart: begin_active_turn admits one turn and its guard is dropped last,
\* so that only the active turn writes messages.
THEOREM OneTurnWrites == Spec => TurnsApart
<1> DEFINE Apart == \A t \in TurnIds :
                      there' /\ (stored'[t] # stored[t] \/ asked'[t] # asked[t]) => active = t
<1>1. IndInv /\ [Next]_vars => [Apart]_vars
  <2> SUFFICES ASSUME IndInv, Next PROVE Apart
    OBVIOUS
  <2>1. ASSUME NEW u \in TurnIds, Run(u) PROVE Apart
    <3>1. CASE turn[u].pc \in Working
      <4>1. active = u
        BY <3>1 DEF IndInv, Parts, ActiveInv
      <4>2. \A t \in TurnIds \ {u} : stored'[t] = stored[t] /\ asked'[t] = asked[t]
        BY <2>1, RunWrites DEF IndInv
      <4> QED
        BY <4>1, <4>2
    <3>2. CASE turn[u].pc \notin Working
      <4>1. Ensure(u) \/ Begin(u) \/ Refuse(u)
        BY <2>1, <3>2 DEF Run, Working, MarkBusy, AppendUser, Placeholder, OpenStream, NextEvent,
                          Broadcast, EndOfStream, Finalize, GetUpstream, SendFinal, DropGuard, SyncReply
      <4> QED
        BY <4>1 DEF Ensure, Begin, Refuse, store
    <3> QED
      BY <3>1, <3>2
  <2>2. ASSUME NEW r \in Readers,
               \/ \E t \in TurnIds, m \in {"stream", "sync"} : Send(r, t, m)
               \/ ViewRead(r) \/ Read(r) \/ LeaveStream(r) \/ LeaveRequest(r) \/ DeleteCall(r) \/ KillCall(r)
        PROVE  Apart
    <3>1. ~there' \/ UNCHANGED <<stored, asked>>
      BY <2>2 DEF Read, Send, ViewRead, ViewEnsured, ViewReply, Attach, TurnNotFound, Receive, Cut,
                  LeaveStream, LeaveRequest, DeleteCall, DeleteRow, KillCall, KillRow, store
    <3> QED
      BY <3>1
  <2>3. CASE ClientRestart
    BY <2>3 DEF ClientRestart, store
  <2> QED
    BY <2>1, <2>2, <2>3 DEF Next
<1> QED
  BY <1>1, Inductive, PTL DEF Spec, TurnsApart

\* LetGoWithFinal: finish_stream sets final_payload and empties the subscribers
\* in one step, and attach looks at final_payload before it subscribes, so a
\* subscriber with room in its channel gets the end of its turn.
THEOREM EndIsDelivered == Spec => LetGoWithFinal
<1> DEFINE Told(t, r) ==
             \/ \E i \in 1..Len(reader'[r].queue) : reader'[r].queue[i] = Final
             \/ ~HasRoom(r)
             \/ reader'[r].phase = "idle"
             \/ turn[t].pc \in Starting
           LetGo == \A t \in TurnIds : \A r \in subs[t] \ subs'[t] : Told(t, r)
<1>1. IndInv /\ [Next]_vars => [LetGo]_vars
  <2> SUFFICES ASSUME IndInv, Next, NEW t \in TurnIds, NEW r \in subs[t], r \notin subs'[t]
               PROVE  Told(t, r)
    BY DEF IndInv
  <2>a. r \in Readers
    BY DEF IndInv, TypeOK
  <2>b. Idle.phase = "idle"
    BY DEF Idle
  <2>c. /\ turn[t].pc \notin {"ensure", "begin", "none", "done", "drop", "await"}
        /\ subs \in [TurnIds -> SUBSET Readers]
    BY DEF IndInv, Parts, TurnInv, StreamOf, TypeOK
  <2>d. turn[t].mode = "stream"
    BY Subscribed
  <2>1. ASSUME NEW u \in TurnIds, Run(u) PROVE Told(t, r)
    <3>1. u = t
      <4>1. u # t => subs'[t] = subs[t]
        BY <2>1, <2>c DEF Run, Ensure, Begin, Refuse, MarkBusy, AppendUser, Placeholder, OpenStream, NextEvent,
             Broadcast, EndOfStream, Finalize, GetUpstream, SendFinal, DropGuard, SyncReply, Release
      <4> QED
        BY <4>1
    <3>2. turn[t].pc \in Starting \/ Broadcast(t) \/ SendFinal(t)
      BY <2>1, <2>c, <3>1 DEF Run, Ensure, Begin, Refuse, MarkBusy, AppendUser, Placeholder, OpenStream,
           NextEvent, EndOfStream, Finalize, GetUpstream, DropGuard, SyncReply, Starting
    <3>3. CASE Broadcast(t)
      BY <2>c, <3>3 DEF Broadcast
    <3>4. CASE SendFinal(t)
      <4>1. HasRoom(r) => reader'[r].queue = Append(reader[r].queue, Final)
        BY <2>a, <3>4, PushEffect DEF SendFinal, IndInv, Final
      <4>2. reader[r].queue \in Seq(0..MaxEvents)
        BY <2>a DEF IndInv, TypeOK, ReaderSet
      <4>3. LET q == Append(reader[r].queue, Final)
            IN Len(q) \in 1..Len(q) /\ q[Len(q)] = Final
        BY <4>2
      <4> QED
        BY <4>1, <4>3
    <3> QED
      BY <3>2, <3>3, <3>4
  <2>2. ASSUME NEW s \in Readers, LeaveStream(s) PROVE Told(t, r)
    <3>1. r = s
      BY <2>2, <2>c DEF LeaveStream
    <3> QED
      BY <2>2, <2>a, <2>b, <3>1 DEF LeaveStream, IndInv, TypeOK
  <2>3. ASSUME NEW s \in Readers, LeaveRequest(s) PROVE Told(t, r)
    <3>1. t = reader[s].on
      BY <2>3, <2>c DEF LeaveRequest, Release
    <3> QED
      BY <2>3, <2>c, <2>d, <3>1 DEF LeaveRequest
  <2>4. CASE ClientRestart
    BY <2>4, <2>a, <2>b DEF ClientRestart
  <2>5. ASSUME NEW s \in Readers,
               \/ \E u \in TurnIds, m \in {"stream", "sync"} : Send(s, u, m)
               \/ ViewRead(s) \/ Read(s) \/ DeleteCall(s) \/ KillCall(s)
        PROVE  FALSE
    <3>1. subs' = subs \/ subs' = [subs EXCEPT ![reader[s].on] = @ \cup {s}]
      BY <2>5 DEF Read, Send, ViewRead, ViewEnsured, ViewReply, Attach, TurnNotFound, Receive, Cut,
                  DeleteCall, DeleteRow, KillCall, KillRow
    <3> QED
      BY <2>c, <3>1
  <2> QED
    BY <2>1, <2>2, <2>3, <2>4, <2>5 DEF Next
<1> QED
  BY <1>1, Inductive, PTL DEF Spec, LetGoWithFinal

----------------------------------------------------------------------------
(* The status of the row when nothing fails                                *)

\* a turn whose finalization has yet to write the row
Unsettled == Working \ {"final", "drop"}

Holding == {"viewing", "deleting"}

\* who reads a session or deletes it holds the lifecycle lock meanwhile
HolderInv == \A r \in Readers : reader[r].phase \in Holding => lifecycle = r

\* agent_host has no record of the session only while it is being deleted
GoneInv == upstream = "none" => lifecycle \in Readers /\ reader[lifecycle].phase = "deleting"

\* a turn that reads is cut off exactly when the record is gone
CutOf(t) ==
  /\ turn[t].pc \in {"reading", "broadcast", "await"} => (turn[t].cut <=> upstream = "none")
  /\ turn[t].pc \in {"placeholder", "open"} => ~turn[t].cut

\* no turn is left to write the row: it is not busy
ToldInv ==
  upstream # "none" /\ (\A t \in TurnIds : turn[t].pc \notin Unsettled) => status # "busy"

Calm == upstream # "busy" /\ GoneInv /\ (\A t \in TurnIds : CutOf(t)) /\ ToldInv

SettleInv == faults = 0 /\ there => Calm

\* nobody takes the lock or gives it up
SameHolders ==
  /\ lifecycle' = lifecycle
  /\ \A r \in Readers : reader[r].phase \in Holding \/ reader'[r].phase \in Holding
                          => reader'[r].phase = reader[r].phase

LEMMA NoFault ==
  ASSUME TypeOK, TypeOK', faults' = 0
  PROVE  /\ \A f : ~Fault(f)
         /\ \A f, stands : Fails(f, stands) => ~stands
<1>1. faults \in Nat
  BY TurnsAssumption DEF TypeOK
<1> QED
  BY <1>1 DEF Fault, Fails

LEMMA AnswerHolders ==
  ASSUME IndInv, NEW t \in TurnIds, Answer(t), lifecycle' = lifecycle
  PROVE  SameHolders
<1>1. \A r \in Readers : reader'[r] = IF r = turn[t].caller THEN Idle ELSE reader[r]
  BY DEF Answer, IndInv, TypeOK
<1>2. turn[t].caller \in Readers => reader[turn[t].caller].phase = "posting"
  BY TurnsAssumption DEF IndInv, Parts, CallerInv
<1>3. Idle.phase = "idle"
  BY DEF Idle
<1> QED
  BY <1>1, <1>2, <1>3 DEF SameHolders, Holding

LEMMA PhaseHolders ==
  ASSUME TypeOK, NEW r \in Readers, NEW p \in Phases \ Holding, reader[r].phase \notin Holding,
         lifecycle' = lifecycle, reader'[r].phase = p, \A s \in Readers \ {r} : reader'[s] = reader[s]
  PROVE  SameHolders
BY DEF SameHolders, Holding

LEMMA PushHolders ==
  ASSUME TypeOK, NEW t \in TurnIds, NEW item, Push(t, item), lifecycle' = lifecycle
  PROVE  SameHolders
<1>1. ASSUME NEW r \in Readers PROVE reader'[r].phase = reader[r].phase
  <2>1. reader[r] \in ReaderSet
    BY DEF TypeOK
  <2>2. [reader[r] EXCEPT !.queue = Append(@, item)].phase = reader[r].phase
    BY <2>1 DEF ReaderSet
  <2>3. reader'[r] = [reader[r] EXCEPT !.queue = Append(@, item)] \/ reader'[r] = reader[r]
    BY DEF Push
  <2> QED
    BY <2>2, <2>3
<1> QED
  BY <1>1 DEF SameHolders

LEMMA HoldersStay ==
  ASSUME HolderInv, GoneInv, SameHolders, upstream' = "none" => upstream = "none"
  PROVE  HolderInv' /\ GoneInv'
<1>1. HolderInv'
  BY DEF HolderInv, SameHolders
<1>2. GoneInv'
  BY DEF GoneInv, SameHolders, Holding
<1> QED
  BY <1>1, <1>2

\* one turn moves on
LEMMA CalmTurn ==
  ASSUME TypeOK, HolderInv, Calm, NEW t \in TurnIds, SameHolders,
         \A u \in TurnIds \ {t} : turn'[u] = turn[u],
         upstream' # "busy", upstream' = "none" <=> upstream = "none",
         CutOf(t)',
         \/ turn'[t].pc \in Unsettled
         \/ status' # "busy"
         \/ upstream = "none"
         \/ status' = status /\ turn[t].pc \notin Unsettled
  PROVE  Calm'
<1>1. GoneInv'
  BY HoldersStay DEF Calm
<1>2. ASSUME NEW u \in TurnIds PROVE CutOf(u)'
  <2>1. CASE u = t
    BY <2>1
  <2>2. CASE u # t
    <3>1. turn'[u] = turn[u] /\ CutOf(u)
      BY <2>2 DEF Calm
    <3> QED
      BY <3>1 DEF CutOf
  <2> QED
    BY <2>1, <2>2
<1>3. ToldInv'
  <2> SUFFICES ASSUME upstream' # "none", \A u \in TurnIds : turn'[u].pc \notin Unsettled
               PROVE  status' # "busy"
    BY DEF ToldInv
  <2>1. CASE status' = status /\ turn[t].pc \notin Unsettled
    <3>1. \A u \in TurnIds : turn[u].pc \notin Unsettled
      BY <2>1
    <3> QED
      BY <2>1, <3>1 DEF Calm, ToldInv
  <2> QED
    BY <2>1
<1> QED
  BY <1>1, <1>2, <1>3 DEF Calm

LEMMA OverFields ==
  ASSUME TypeOK, NEW t \in TurnIds, turn' = [turn EXCEPT ![t] = Over]
  PROVE  /\ turn'[t].pc = "done" /\ CutOf(t)'
         /\ \A u \in TurnIds \ {t} : turn'[u] = turn[u]
<1>1. turn'[t] = Over /\ \A u \in TurnIds \ {t} : turn'[u] = turn[u]
  BY DEF TypeOK
<1>2. Over.pc = "done"
  BY DEF Over, Unsent
<1> QED
  BY <1>1, <1>2 DEF CutOf

LEMMA AtKeepsCut ==
  ASSUME TypeOK, NEW t \in TurnIds, NEW p, At(t, p) \/ (Broken(t) /\ p = "finalize")
  PROVE  /\ turn'[t].pc = p /\ turn'[t].cut = turn[t].cut
         /\ \A u \in TurnIds \ {t} : turn'[u] = turn[u]
BY DEF TypeOK, TurnSet, At, Broken

\* a turn that is started
LEMMA CalmStart ==
  ASSUME IndInv, TypeOK', HolderInv, Calm, faults = 0, faults' = 0, there, there', NEW t \in TurnIds,
         Ensure(t) \/ Begin(t) \/ Refuse(t) \/ MarkBusy(t)
  PROVE  Calm' /\ SameHolders
<1> USE DEF IndInv
<1>1. CASE Ensure(t)
  <2>1. upstream # "none"
    BY <1>1, TurnsAssumption DEF Ensure, Calm, GoneInv
  <2>2. RuntimeUp /\ At(t, "begin") /\ reader' = reader /\ lifecycle' = lifecycle
    BY <1>1, NoFault DEF Ensure, Unpersisted
  <2>3. upstream' = "idle" /\ status' = "idle"
    BY <2>2 DEF RuntimeUp, Created, Calm
  <2>4. SameHolders
    BY <2>2 DEF SameHolders
  <2>5. turn'[t].pc = "begin" /\ \A u \in TurnIds \ {t} : turn'[u] = turn[u]
    BY <2>2, AtKeepsCut
  <2>6. CutOf(t)'
    BY <2>5 DEF CutOf
  <2> QED
    BY <2>1, <2>3, <2>4, <2>5, <2>6, CalmTurn
<1>2. CASE Begin(t)
  <2>1. At(t, "busy") /\ UNCHANGED <<reader, lifecycle, upstream>>
    BY <1>2 DEF Begin
  <2>2. turn'[t].pc = "busy" /\ \A u \in TurnIds \ {t} : turn'[u] = turn[u]
    BY <2>1, AtKeepsCut
  <2>3. CutOf(t)' /\ turn'[t].pc \in Unsettled
    BY <2>2 DEF CutOf, Unsettled, Working
  <2>4. SameHolders
    BY <2>1 DEF SameHolders
  <2> QED
    BY <2>1, <2>2, <2>3, <2>4, CalmTurn DEF Calm
<1>3. CASE Refuse(t)
  <2>1. turn' = [turn EXCEPT ![t] = Over] /\ Answer(t) /\ turn[t].pc = "begin"
    BY <1>3 DEF Refuse
  <2>2. UNCHANGED <<status, lifecycle, upstream>>
    BY <1>3 DEF Refuse, store
  <2>3. SameHolders
    BY <2>1, <2>2, AnswerHolders
  <2>4. CutOf(t)' /\ \A u \in TurnIds \ {t} : turn'[u] = turn[u]
    BY <2>1, OverFields
  <2>5. turn[t].pc \notin Unsettled
    BY <2>1 DEF Unsettled, Working
  <2> QED
    BY <2>2, <2>3, <2>4, <2>5, CalmTurn DEF Calm
<1>4. CASE MarkBusy(t)
  <2>1. At(t, "user") /\ UNCHANGED <<reader, lifecycle, upstream>>
    BY <1>4, NoFault DEF MarkBusy, StoreFails
  <2>2. turn'[t].pc = "user" /\ \A u \in TurnIds \ {t} : turn'[u] = turn[u]
    BY <2>1, AtKeepsCut
  <2>3. CutOf(t)' /\ turn'[t].pc \in Unsettled
    BY <2>2 DEF CutOf, Unsettled, Working
  <2>4. SameHolders
    BY <2>1 DEF SameHolders
  <2> QED
    BY <2>1, <2>2, <2>3, <2>4, CalmTurn DEF Calm
<1> QED
  BY <1>1, <1>2, <1>3, <1>4

\* a turn that is handed over and read
LEMMA CalmRead ==
  ASSUME IndInv, TypeOK', HolderInv, Calm, faults = 0, faults' = 0, there, there', NEW t \in TurnIds,
         \/ AppendUser(t) \/ Placeholder(t) \/ OpenStream(t) \/ NextEvent(t) \/ Broadcast(t)
         \/ EndOfStream(t)
  PROVE  Calm' /\ SameHolders
<1> USE DEF IndInv
<1>a. turn[t] \in TurnSet /\ CutOf(t)
  BY DEF TypeOK, Calm
<1>1. CASE AppendUser(t)
  <2> DEFINE place == IF turn[t].mode = "stream" THEN "placeholder" ELSE "await"
             gone  == turn[t].mode = "sync" /\ upstream = "none"
  <2>1. /\ turn' = [turn EXCEPT ![t].pc = place, ![t].cut = gone]
        /\ UNCHANGED <<reader, lifecycle, upstream>>
    BY <1>1, NoFault DEF AppendUser, StoreFails
  <2>2. turn'[t].pc = place /\ \A u \in TurnIds \ {t} : turn'[u] = turn[u]
    BY <2>1 DEF TypeOK, TurnSet
  <2>3. turn'[t].cut = gone
    BY <2>1, <1>a DEF TypeOK, TurnSet
  <2>4. turn[t].mode \in {"stream", "sync"}
    BY <1>a DEF TurnSet
  <2>5. CutOf(t)'
    <3>1. CASE turn[t].mode = "stream"
      <4>1. turn'[t].pc = "placeholder" /\ ~turn'[t].cut
        BY <2>2, <2>3, <3>1
      <4> QED
        BY <4>1 DEF CutOf
    <3>2. CASE turn[t].mode = "sync"
      <4>1. turn'[t].pc = "await" /\ (turn'[t].cut <=> upstream = "none")
        BY <2>2, <2>3, <3>2
      <4> QED
        BY <4>1, <2>1 DEF CutOf
    <3> QED
      BY <2>4, <3>1, <3>2
  <2>6. turn'[t].pc \in Unsettled
    BY <2>2 DEF Unsettled, Working
  <2>7. SameHolders
    BY <2>1 DEF SameHolders
  <2> QED
    BY <2>1, <2>2, <2>5, <2>6, <2>7, CalmTurn DEF Calm
<1>2. CASE Placeholder(t)
  <2>1. /\ turn' = [turn EXCEPT ![t].pc = "open", ![t].caller = Nobody]
        /\ reader' = [reader EXCEPT ![turn[t].caller].phase = "attached"]
        /\ UNCHANGED <<lifecycle, upstream>> /\ turn[t].pc = "placeholder"
    BY <1>2, NoFault DEF Placeholder, StoreFails
  <2>2. turn'[t].pc = "open" /\ \A u \in TurnIds \ {t} : turn'[u] = turn[u]
    BY <2>1 DEF TypeOK, TurnSet
  <2>3. turn'[t].cut = turn[t].cut
    BY <2>1, <1>a DEF TypeOK, TurnSet
  <2>4. CutOf(t)'
    BY <1>a, <2>1, <2>2, <2>3 DEF CutOf
  <2>5. turn'[t].pc \in Unsettled
    BY <2>2 DEF Unsettled, Working
  <2>6. SameHolders
    <3>1. PICK c \in Readers : c = turn[t].caller /\ reader[c].phase = "posting"
      BY <1>a, <2>1 DEF Parts, CallerInv, Starting, TurnSet
    <3>2. reader'[c].phase = "attached" /\ \A s \in Readers \ {c} : reader'[s] = reader[s]
      BY <2>1, <3>1 DEF TypeOK, ReaderSet
    <3> QED
      BY <2>1, <3>1, <3>2 DEF SameHolders, Holding
  <2> QED
    BY <2>1, <2>2, <2>4, <2>5, <2>6, CalmTurn DEF Calm
<1>3. CASE OpenStream(t)
  <2>1. UNCHANGED <<reader, lifecycle, upstream>> /\ turn[t].pc = "open"
    BY <1>3 DEF OpenStream
  <2>2. SameHolders
    BY <2>1 DEF SameHolders
  <2>3. CASE upstream # "none" /\ At(t, "reading")
    <3>1. /\ turn'[t].pc = "reading" /\ turn'[t].cut = turn[t].cut
          /\ \A u \in TurnIds \ {t} : turn'[u] = turn[u]
      BY <2>3, AtKeepsCut
    <3>2. CutOf(t)'
      BY <1>a, <2>1, <2>3, <3>1 DEF CutOf
    <3>3. turn'[t].pc \in Unsettled
      BY <3>1 DEF Unsettled, Working
    <3> QED
      BY <2>1, <2>2, <3>1, <3>2, <3>3, CalmTurn DEF Calm
  <2>4. CASE Broken(t)
    <3>1. turn'[t].pc = "finalize" /\ \A u \in TurnIds \ {t} : turn'[u] = turn[u]
      BY <2>4, AtKeepsCut
    <3>2. CutOf(t)' /\ turn'[t].pc \in Unsettled
      BY <3>1 DEF CutOf, Unsettled, Working
    <3> QED
      BY <2>1, <2>2, <3>1, <3>2, CalmTurn DEF Calm
  <2> QED
    BY <1>3, <2>3, <2>4 DEF OpenStream
<1>4. CASE NextEvent(t)
  <2>1. UNCHANGED <<reader, lifecycle, upstream>> /\ turn[t].pc = "reading"
    BY <1>4 DEF NextEvent
  <2>2. SameHolders
    BY <2>1 DEF SameHolders
  <2> DEFINE read == [turn[t] EXCEPT !.n = @ + 1]
  <2>3. turn' = [turn EXCEPT ![t] = [read EXCEPT !.pc = "broadcast"]]
    BY <1>4, NoFault DEF NextEvent, StoreFails
  <2>4. /\ [read EXCEPT !.pc = "broadcast"].pc = "broadcast"
        /\ [read EXCEPT !.pc = "broadcast"].cut = turn[t].cut
    BY <1>a DEF TurnSet
  <2>5. /\ turn'[t].pc = "broadcast" /\ turn'[t].cut = turn[t].cut
        /\ \A u \in TurnIds \ {t} : turn'[u] = turn[u]
    <3> HIDE DEF read
    <3> QED
      BY <2>3, <2>4, Fields
  <2>6. CutOf(t)'
    BY <1>a, <2>1, <2>5 DEF CutOf
  <2>7. turn'[t].pc \in Unsettled
    BY <2>5 DEF Unsettled, Working
  <2> QED
    BY <2>1, <2>2, <2>5, <2>6, <2>7, CalmTurn DEF Calm
<1>5. CASE Broadcast(t)
  <2>1. UNCHANGED <<lifecycle, upstream>> /\ turn[t].pc = "broadcast" /\ At(t, "reading")
    BY <1>5 DEF Broadcast
  <2>2. SameHolders
    BY <1>5, <2>1, PushHolders DEF Broadcast
  <2>3. /\ turn'[t].pc = "reading" /\ turn'[t].cut = turn[t].cut
        /\ \A u \in TurnIds \ {t} : turn'[u] = turn[u]
    BY <2>1, AtKeepsCut
  <2>4. CutOf(t)'
    BY <1>a, <2>1, <2>3 DEF CutOf
  <2>5. turn'[t].pc \in Unsettled
    BY <2>3 DEF Unsettled, Working
  <2> QED
    BY <2>1, <2>2, <2>3, <2>4, <2>5, CalmTurn DEF Calm
<1>6. CASE EndOfStream(t)
  <2>1. UNCHANGED <<reader, lifecycle>> /\ turn[t].pc = "reading"
    BY <1>6 DEF EndOfStream
  <2>2. SameHolders
    BY <2>1 DEF SameHolders
  <2>3. turn[t].cut <=> upstream = "none"
    BY <1>a, <2>1 DEF CutOf
  <2>4. turn'[t].pc = "finalize" /\ \A u \in TurnIds \ {t} : turn'[u] = turn[u]
    BY <1>6, AtKeepsCut DEF EndOfStream
  <2>5. upstream' # "busy" /\ (upstream' = "none" <=> upstream = "none")
    BY <1>6, <2>3, NoFault DEF EndOfStream, StreamLost
  <2>6. CutOf(t)' /\ turn'[t].pc \in Unsettled
    BY <2>4 DEF CutOf, Unsettled, Working
  <2> QED
    BY <2>2, <2>4, <2>5, <2>6, CalmTurn
<1> QED
  BY <1>1, <1>2, <1>3, <1>4, <1>5, <1>6

\* a turn that ends
LEMMA CalmEnd ==
  ASSUME IndInv, TypeOK', HolderInv, Calm, faults = 0, faults' = 0, there, there', NEW t \in TurnIds,
         Finalize(t) \/ GetUpstream(t) \/ SendFinal(t) \/ DropGuard(t) \/ SyncReply(t)
  PROVE  Calm' /\ SameHolders
<1> USE DEF IndInv
<1>a. turn[t] \in TurnSet /\ CutOf(t)
  BY DEF TypeOK, Calm
<1>1. CASE Finalize(t)
  <2>1. /\ turn' = [turn EXCEPT ![t].pc = "get", ![t].asRead = status]
        /\ UNCHANGED <<reader, lifecycle, upstream>>
    BY <1>1, NoFault DEF Finalize, StoreFails
  <2>2. turn'[t].pc = "get" /\ \A u \in TurnIds \ {t} : turn'[u] = turn[u]
    BY <2>1 DEF TypeOK, TurnSet
  <2>3. CutOf(t)' /\ turn'[t].pc \in Unsettled
    BY <2>2 DEF CutOf, Unsettled, Working
  <2>4. SameHolders
    BY <2>1 DEF SameHolders
  <2> QED
    BY <2>1, <2>2, <2>3, <2>4, CalmTurn DEF Calm
<1>2. CASE GetUpstream(t)
  <2>1. UNCHANGED <<reader, lifecycle, upstream>>
    BY <1>2 DEF GetUpstream
  <2>2. SameHolders
    BY <2>1 DEF SameHolders
  <2>3. PICK p \in {"final", "drop"} : At(t, p)
    BY <1>2 DEF GetUpstream
  <2>4. turn'[t].pc = p /\ \A u \in TurnIds \ {t} : turn'[u] = turn[u]
    BY <2>3, AtKeepsCut
  <2>5. CutOf(t)'
    BY <2>4 DEF CutOf
  <2>6. status' = upstream \/ upstream = "none"
    BY <1>2, NoFault DEF GetUpstream, StoreFails, CallFails
  <2> QED
    BY <2>1, <2>2, <2>4, <2>5, <2>6, CalmTurn DEF Calm
<1>3. CASE SendFinal(t)
  <2>1. UNCHANGED <<status, lifecycle, upstream>> /\ turn[t].pc = "final" /\ At(t, "drop")
    BY <1>3 DEF SendFinal, store
  <2>2. SameHolders
    BY <1>3, <2>1, PushHolders DEF SendFinal
  <2>3. turn'[t].pc = "drop" /\ \A u \in TurnIds \ {t} : turn'[u] = turn[u]
    BY <2>1, AtKeepsCut
  <2>4. CutOf(t)' /\ turn[t].pc \notin Unsettled
    BY <2>1, <2>3 DEF CutOf, Unsettled, Working
  <2> QED
    BY <2>1, <2>2, <2>3, <2>4, CalmTurn DEF Calm
<1>4. CASE DropGuard(t)
  <2>1. UNCHANGED <<status, lifecycle, upstream>> /\ turn[t].pc = "drop" /\ Release(t)
    BY <1>4 DEF DropGuard, store
  <2>2. SameHolders
    <3>1. CASE Answer(t)
      BY <2>1, <3>1, AnswerHolders
    <3>2. CASE reader' = reader
      BY <2>1, <3>2 DEF SameHolders
    <3> QED
      BY <1>4, <3>1, <3>2 DEF DropGuard
  <2>3. CutOf(t)' /\ \A u \in TurnIds \ {t} : turn'[u] = turn[u]
    BY <2>1, OverFields DEF Release
  <2>4. turn[t].pc \notin Unsettled
    BY <2>1 DEF Unsettled, Working
  <2> QED
    BY <2>1, <2>2, <2>3, <2>4, CalmTurn DEF Calm
<1>5. CASE SyncReply(t)
  <2>1. UNCHANGED <<status, lifecycle>> /\ turn[t].pc = "await"
    BY <1>5 DEF SyncReply
  <2>2. turn[t].cut <=> upstream = "none"
    BY <1>a, <2>1 DEF CutOf
  <2>3. CASE ~turn[t].cut
    <3>1. /\ turn' = [turn EXCEPT ![t].pc = "get", ![t].asRead = status]
          /\ upstream' = "idle" /\ reader' = reader
      BY <1>5, <2>3, NoFault DEF SyncReply, StoreFails
    <3>2. turn'[t].pc = "get" /\ \A u \in TurnIds \ {t} : turn'[u] = turn[u]
      BY <3>1 DEF TypeOK, TurnSet
    <3>3. CutOf(t)' /\ turn'[t].pc \in Unsettled
      BY <3>2 DEF CutOf, Unsettled, Working
    <3>4. SameHolders
      BY <2>1, <3>1 DEF SameHolders
    <3> QED
      BY <2>2, <2>3, <3>1, <3>2, <3>3, <3>4, CalmTurn
  <2>4. CASE turn[t].cut
    <3>1. StreamLost /\ Release(t) /\ Answer(t)
      BY <1>5, <2>4 DEF SyncReply
    <3>2. upstream = "none" /\ upstream' = "none"
      BY <2>2, <2>4, <3>1 DEF StreamLost
    <3>3. CutOf(t)' /\ \A u \in TurnIds \ {t} : turn'[u] = turn[u]
      BY <3>1, OverFields DEF Release
    <3>4. SameHolders
      BY <2>1, <3>1, AnswerHolders
    <3> QED
      BY <3>2, <3>3, <3>4, CalmTurn
  <2> QED
    BY <2>3, <2>4
<1> QED
  BY <1>1, <1>2, <1>3, <1>4, <1>5

\* who holds the lock, whatever fails
LEMMA HolderStep ==
  ASSUME IndInv, TypeOK', HolderInv, [Next]_vars
  PROVE  HolderInv'
<1> USE DEF IndInv
<1>a. Idle.phase = "idle"
  BY DEF Idle
<1>b. SameHolders => HolderInv'
  BY DEF HolderInv, SameHolders
<1>1. ASSUME NEW t \in TurnIds, Run(t) PROVE HolderInv'
  <2>1. lifecycle' = lifecycle
    BY <1>1 DEF Run, Ensure, Begin, Refuse, MarkBusy, AppendUser, Placeholder, OpenStream, NextEvent,
                Broadcast, EndOfStream, Finalize, GetUpstream, SendFinal, DropGuard, SyncReply
  <2>2. \/ reader' = reader \/ Answer(t) \/ Push(t, turn[t].n) \/ Push(t, Final)
        \/ /\ turn[t].pc = "placeholder"
           /\ reader' = [reader EXCEPT ![turn[t].caller].phase = "attached"]
    BY <1>1 DEF Run, Ensure, Begin, Refuse, MarkBusy, AppendUser, Placeholder, OpenStream, NextEvent,
                Broadcast, EndOfStream, Finalize, GetUpstream, SendFinal, DropGuard, SyncReply
  <2>3. CASE reader' = reader
    BY <1>b, <2>1, <2>3 DEF SameHolders
  <2>4. CASE Answer(t)
    BY <1>b, <2>1, <2>4, AnswerHolders
  <2>5. CASE Push(t, turn[t].n) \/ Push(t, Final)
    BY <1>b, <2>1, <2>5, PushHolders
  <2>6. CASE /\ turn[t].pc = "placeholder"
             /\ reader' = [reader EXCEPT ![turn[t].caller].phase = "attached"]
    <3>1. PICK c \in Readers : c = turn[t].caller /\ reader[c].phase = "posting"
      BY <2>6 DEF Parts, CallerInv, Starting, TypeOK, TurnSet
    <3>2. reader'[c].phase = "attached" /\ \A s \in Readers \ {c} : reader'[s] = reader[s]
      BY <2>6, <3>1 DEF TypeOK, ReaderSet
    <3> QED
      BY <1>b, <2>1, <3>1, <3>2 DEF SameHolders, Holding
  <2> QED
    BY <2>2, <2>3, <2>4, <2>5, <2>6
<1>2. ASSUME NEW r \in Readers, NEW t \in TurnIds, NEW m \in {"stream", "sync"}, Send(r, t, m)
      PROVE  HolderInv'
  <2>1. reader'[r].phase = "posting" /\ \A s \in Readers \ {r} : reader'[s] = reader[s]
    BY <1>2 DEF Send, TypeOK, ReaderSet
  <2> QED
    BY <1>2, <2>1 DEF Send, HolderInv, Holding
<1>3. ASSUME NEW r \in Readers,
             \/ ViewRead(r) \/ Read(r) \/ LeaveStream(r) \/ DeleteCall(r) \/ KillCall(r)
      PROVE  HolderInv'
  <2>1. \A s \in Readers \ {r} : reader'[s] = reader[s]
    BY <1>3 DEF ViewRead, Read, ViewEnsured, ViewReply, Attach, TurnNotFound, Receive, Cut, DeleteRow,
                KillRow, LeaveStream, DeleteCall, KillCall, Becomes, TypeOK
  <2>2. CASE ViewRead(r)
    <3>1. lifecycle = Nobody /\ lifecycle' = r
      BY <2>2 DEF ViewRead
    <3> QED
      BY <2>1, <3>1, TurnsAssumption DEF HolderInv
  <2>3. CASE DeleteCall(r)
    <3>1. CASE lifecycle' = r
      <4>1. lifecycle = Nobody
        BY <2>3 DEF DeleteCall
      <4> QED
        BY <2>1, <3>1, <4>1, TurnsAssumption DEF HolderInv
    <3>2. CASE UNCHANGED <<reader, lifecycle>>
      BY <3>2 DEF HolderInv
    <3> QED
      BY <2>3, <3>1, <3>2 DEF DeleteCall
  <2>4. CASE ViewEnsured(r) \/ DeleteRow(r)
    <3>1. reader[r].phase \in Holding /\ lifecycle' = Nobody
      BY <2>4 DEF ViewEnsured, DeleteRow, Holding
    <3>2. reader'[r].phase \in {"ensured", "idle"}
      BY <1>a, <2>4 DEF ViewEnsured, DeleteRow, Becomes, TypeOK, ReaderSet
    <3>3. lifecycle = r
      BY <3>1 DEF HolderInv
    <3> QED
      BY <2>1, <3>1, <3>2, <3>3 DEF HolderInv, Holding
  <2>5. CASE ViewReply(r) \/ Attach(r) \/ TurnNotFound(r) \/ Cut(r) \/ KillRow(r) \/ LeaveStream(r) \/ KillCall(r)
    <3>1. lifecycle' = lifecycle
      BY <2>5 DEF ViewReply, Attach, TurnNotFound, Cut, KillRow, LeaveStream, KillCall
    <3>2. reader'[r].phase \in {"idle", "viewed", "attached", "killing"}
      <4>1. CASE ViewReply(r)
        <5>1. reader'[r] = Idle \/ reader'[r] = [Idle EXCEPT !.phase = "viewed", !.on = active]
          BY <4>1 DEF ViewReply, TypeOK
        <5>2. [Idle EXCEPT !.phase = "viewed", !.on = active].phase = "viewed"
          BY DEF Idle
        <5> QED
          BY <1>a, <5>1, <5>2
      <4>2. CASE Attach(r)
        BY <4>2 DEF Attach, Becomes, TypeOK, ReaderSet
      <4>3. CASE TurnNotFound(r) \/ Cut(r) \/ KillRow(r) \/ LeaveStream(r) \/ KillCall(r)
        BY <1>a, <4>3 DEF TurnNotFound, Cut, KillRow, LeaveStream, KillCall, Becomes, TypeOK, ReaderSet
      <4> QED
        BY <2>5, <4>1, <4>2, <4>3
    <3> QED
      BY <2>1, <3>1, <3>2 DEF HolderInv, Holding
  <2>6. CASE Receive(r)
    <3>1. lifecycle' = lifecycle
      BY <2>6 DEF Receive
    <3>2. reader[r] \in ReaderSet /\ reader[r].phase = "attached"
      BY <2>6 DEF Receive, TypeOK
    <3>3. \/ reader'[r] = Idle
          \/ reader'[r] = [reader[r] EXCEPT !.queue = Tail(reader[r].queue), !.seen = Head(reader[r].queue)]
      BY <2>6 DEF Receive, TypeOK
    <3>4. [reader[r] EXCEPT !.queue = Tail(reader[r].queue), !.seen = Head(reader[r].queue)].phase = "attached"
      BY <3>2 DEF ReaderSet
    <3>5. reader'[r].phase \in {"idle", "attached"}
      BY <1>a, <3>3, <3>4
    <3> QED
      BY <2>1, <3>1, <3>5 DEF HolderInv, Holding
  <2> QED
    BY <1>3, <2>2, <2>3, <2>4, <2>5, <2>6 DEF Read
<1>4. ASSUME NEW r \in Readers, LeaveRequest(r) PROVE HolderInv'
  <2>1. PICK t \in TurnIds : t = reader[r].on
    BY <1>4 DEF LeaveRequest, Parts, PostInv
  <2>2. Answer(t) /\ lifecycle' = lifecycle
    BY <1>4, <2>1 DEF LeaveRequest
  <2> QED
    BY <1>b, <2>2, AnswerHolders
<1>5. CASE ClientRestart
  BY <1>a, <1>5 DEF ClientRestart, HolderInv, Holding
<1>6. CASE UNCHANGED vars
  BY <1>6 DEF vars, HolderInv
<1> QED
  BY <1>1, <1>2, <1>3, <1>4, <1>5, <1>6 DEF Next

\* a reader that does not delete the session goes on
LEMMA CalmLook ==
  ASSUME TypeOK, Calm, NEW r \in Readers, reader[r].phase # "deleting",
         \A s \in Readers \ {r} : reader'[s] = reader[s],
         UNCHANGED <<lifecycle, upstream, turn>>, status' = status \/ status' # "busy"
  PROVE  Calm'
<1>1. GoneInv'
  BY DEF Calm, GoneInv
<1>2. \A t \in TurnIds : CutOf(t)'
  BY DEF Calm, CutOf
<1>3. ToldInv'
  BY DEF Calm, ToldInv
<1> QED
  BY <1>1, <1>2, <1>3 DEF Calm

LEMMA CalmReader ==
  ASSUME IndInv, TypeOK', HolderInv, Calm, faults = 0, faults' = 0, there, there', NEW r \in Readers,
         \/ ViewRead(r) \/ Read(r) \/ LeaveStream(r) \/ LeaveRequest(r) \/ DeleteCall(r) \/ KillCall(r)
  PROVE  Calm'
<1> USE DEF IndInv
<1>1. CASE \/ ViewReply(r) \/ Attach(r) \/ TurnNotFound(r) \/ Receive(r) \/ Cut(r) \/ KillRow(r)
           \/ LeaveStream(r)
  <2>1. reader[r].phase # "deleting"
    BY <1>1 DEF ViewReply, Attach, TurnNotFound, Receive, Cut, KillRow, LeaveStream
  <2>2. \A s \in Readers \ {r} : reader'[s] = reader[s]
    BY <1>1 DEF ViewReply, Attach, TurnNotFound, Receive, Cut, KillRow, LeaveStream, Becomes, TypeOK
  <2>3. UNCHANGED <<lifecycle, upstream, turn>> /\ (status' = status \/ status' # "busy")
    BY <1>1 DEF ViewReply, Attach, TurnNotFound, Receive, Cut, KillRow, LeaveStream, store
  <2> QED
    BY <2>1, <2>2, <2>3, CalmLook
<1>2. CASE ViewRead(r)
  <2>1. upstream # "none" /\ UNCHANGED <<upstream, turn, status>>
    BY <1>2, TurnsAssumption DEF ViewRead, Calm, GoneInv, store
  <2>2. GoneInv'
    BY <2>1 DEF GoneInv
  <2>3. \A t \in TurnIds : CutOf(t)'
    BY <2>1 DEF Calm, CutOf
  <2>4. ToldInv'
    BY <2>1 DEF Calm, ToldInv
  <2> QED
    BY <2>1, <2>2, <2>3, <2>4 DEF Calm
<1>3. CASE ViewEnsured(r)
  <2>1. upstream # "none"
    BY <1>3 DEF ViewEnsured, HolderInv, Holding, Calm, GoneInv
  <2>2. RuntimeUp /\ turn' = turn
    BY <1>3, NoFault DEF ViewEnsured, Unpersisted
  <2>3. upstream' = "idle" /\ status' = "idle"
    BY <2>2 DEF RuntimeUp, Created, Calm
  <2>4. \A t \in TurnIds : CutOf(t)'
    BY <2>1, <2>2, <2>3 DEF Calm, CutOf
  <2> QED
    BY <2>3, <2>4 DEF Calm, GoneInv, ToldInv
<1>4. CASE LeaveRequest(r)
  <2>1. PICK t \in TurnIds : t = reader[r].on
    BY <1>4 DEF LeaveRequest, Parts, PostInv
  <2>2. turn[t].pc = "ensure" /\ Release(t) /\ Answer(t)
    BY <1>4, <2>1, NoFault DEF LeaveRequest
  <2>3. UNCHANGED <<status, lifecycle, upstream>>
    BY <1>4, <2>1, <2>2 DEF LeaveRequest, store
  <2>4. SameHolders
    BY <2>2, <2>3, AnswerHolders
  <2>5. CutOf(t)' /\ \A u \in TurnIds \ {t} : turn'[u] = turn[u]
    BY <2>2, OverFields DEF Release
  <2>6. turn[t].pc \notin Unsettled
    BY <2>2 DEF Unsettled, Working
  <2> QED
    BY <2>3, <2>4, <2>5, <2>6, CalmTurn DEF Calm
<1>5. CASE DeleteCall(r)
  <2>1. DestroyUpstream /\ lifecycle' = r /\ Becomes(r, "deleting")
    BY <1>5, NoFault DEF DeleteCall
  <2>2. upstream' = "none"
    BY <2>1 DEF DestroyUpstream, CutOff
  <2>3. reader'[r].phase = "deleting"
    BY <2>1 DEF Becomes, TypeOK, ReaderSet
  <2>4. ASSUME NEW t \in TurnIds PROVE CutOf(t)'
    <3>1. turn[t] \in TurnSet /\ CutOf(t)
      BY DEF TypeOK, Calm
    <3> DEFINE reads == turn[t].pc \in {"reading", "broadcast", "await"}
    <3>2. turn'[t] = [turn[t] EXCEPT !.cut = @ \/ reads]
      BY <2>1 DEF DestroyUpstream, CutOff
    <3>3. turn'[t].pc = turn[t].pc
      BY <3>1, <3>2 DEF TurnSet
    <3>4. turn'[t].cut = (turn[t].cut \/ reads)
      BY <3>1, <3>2 DEF TurnSet
    <3>5. CASE reads
      <4>1. turn'[t].cut
        BY <3>4, <3>5, Zenon
      <4>2. turn'[t].pc \notin {"placeholder", "open"}
        BY <3>3, <3>5
      <4> QED
        BY <2>2, <4>1, <4>2, Zenon DEF CutOf
    <3>6. CASE ~reads
      <4>1. turn'[t].pc \in {"placeholder", "open"} => ~turn'[t].cut
        BY <3>1, <3>3, <3>4, <3>6, Zenon DEF CutOf
      <4>2. turn'[t].pc \notin {"reading", "broadcast", "await"}
        BY <3>3, <3>6
      <4> QED
        BY <4>1, <4>2, Zenon DEF CutOf
    <3> QED
      BY <3>5, <3>6
  <2> QED
    BY <2>1, <2>2, <2>3, <2>4 DEF Calm, GoneInv, ToldInv
<1>6. CASE DeleteRow(r)
  BY <1>6 DEF DeleteRow
<1>7. CASE KillCall(r)
  BY <1>7, NoFault DEF KillCall
<1> QED
  BY <1>1, <1>2, <1>3, <1>4, <1>5, <1>6, <1>7 DEF Read

LEMMA CalmSend ==
  ASSUME IndInv, HolderInv, Calm, NEW r \in Readers, NEW t \in TurnIds,
         NEW m \in {"stream", "sync"}, Send(r, t, m)
  PROVE  Calm'
<1> USE DEF IndInv
<1> DEFINE next == [Unsent EXCEPT !.pc = "ensure", !.mode = m, !.caller = r]
<1>1. UNCHANGED <<status, lifecycle, upstream>> /\ reader[r].phase = "idle" /\ turn[t].pc = "none"
  BY DEF Send, store
<1>2. turn' = [turn EXCEPT ![t] = next]
  BY DEF Send
<1>3. next.pc = "ensure"
  BY DEF Unsent
<1>4. turn'[t].pc = "ensure" /\ \A u \in TurnIds \ {t} : turn'[u] = turn[u]
  <2> HIDE DEF next
  <2> QED
    BY <1>2, <1>3, Fields
<1>5. CutOf(t)' /\ turn[t].pc \notin Unsettled
  BY <1>1, <1>4 DEF CutOf, Unsettled, Working
<1>6. reader'[r].phase = "posting" /\ \A s \in Readers \ {r} : reader'[s] = reader[s]
  BY DEF Send, TypeOK, ReaderSet
<1>7. SameHolders
  BY <1>1, <1>6 DEF SameHolders, Holding
<1> QED
  BY <1>1, <1>4, <1>5, <1>7, CalmTurn DEF Calm

LEMMA SettleStep ==
  ASSUME IndInv, TypeOK', HolderInv, SettleInv, [Next]_vars
  PROVE  SettleInv'
<1> SUFFICES ASSUME faults' = 0, there' PROVE Calm'
  BY DEF SettleInv
<1>1. faults = 0
  <2>1. faults \in Nat
    BY TurnsAssumption DEF IndInv, TypeOK
  <2>2. faults' = faults \/ faults' = faults + 1
    BY DEF Next, Run, Read, Ensure, Begin, Refuse, MarkBusy, AppendUser, Placeholder, OpenStream,
           NextEvent, Broadcast, EndOfStream, Finalize, GetUpstream, SendFinal, DropGuard, SyncReply,
           Send, ViewRead, ViewEnsured, ViewReply, Attach, TurnNotFound, Receive, Cut, DeleteRow, KillRow,
           LeaveStream, LeaveRequest, DeleteCall, KillCall, ClientRestart, StoreFails, CallFails, Fails,
           Unpersisted, Fault, vars
  <2> QED
    BY <2>1, <2>2
<1>2. there
  BY DEF Next, Run, Read, Ensure, Begin, Refuse, MarkBusy, AppendUser, Placeholder, OpenStream,
         NextEvent, Broadcast, EndOfStream, Finalize, GetUpstream, SendFinal, DropGuard, SyncReply,
         Send, ViewRead, ViewEnsured, ViewReply, Attach, TurnNotFound, Receive, Cut, DeleteRow, KillRow,
         LeaveStream, LeaveRequest, DeleteCall, KillCall, ClientRestart, store, vars
<1>3. Calm
  BY <1>1, <1>2 DEF SettleInv
<1>4. ASSUME NEW t \in TurnIds, Run(t) PROVE Calm'
  BY <1>1, <1>2, <1>3, <1>4, CalmStart, CalmRead, CalmEnd DEF Run
<1>5. ASSUME NEW r \in Readers, NEW t \in TurnIds, NEW m \in {"stream", "sync"}, Send(r, t, m)
      PROVE  Calm'
  BY <1>3, <1>5, CalmSend
<1>6. ASSUME NEW r \in Readers,
             \/ ViewRead(r) \/ Read(r) \/ LeaveStream(r) \/ LeaveRequest(r) \/ DeleteCall(r) \/ KillCall(r)
      PROVE  Calm'
  BY <1>1, <1>2, <1>3, <1>6, CalmReader
<1>7. CASE ClientRestart
  BY <1>7, NoFault DEF ClientRestart, IndInv
<1>8. CASE UNCHANGED vars
  BY <1>3, <1>8 DEF vars, store, Calm, GoneInv, CutOf, ToldInv
<1> QED
  BY <1>4, <1>5, <1>6, <1>7, <1>8 DEF Next

\* StatusSettles: the row that ensure_chat_runtime writes in the middle of a turn
\* and the one the end of a turn writes after the call to agent_host has been
\* awaited may come in any order; if nothing fails, the last of them is not busy
\* once the turn has left active_turns.
THEOREM StatusIsSettled == Spec => []StatusSettles
<1>1. Init => HolderInv /\ SettleInv
  <2> SUFFICES ASSUME Init PROVE HolderInv /\ SettleInv
    OBVIOUS
  <2>1. Idle.phase = "idle" /\ Unsent.pc = "none"
    BY DEF Idle, Unsent
  <2>2. HolderInv
    BY <2>1 DEF Init, HolderInv, Holding
  <2>3. \A t \in TurnIds : CutOf(t)
    BY <2>1 DEF Init, CutOf
  <2> QED
    BY <2>2, <2>3 DEF Init, SettleInv, Calm, GoneInv, ToldInv
<1>2. IndInv /\ IndInv' /\ HolderInv /\ SettleInv /\ [Next]_vars => HolderInv' /\ SettleInv'
  BY HolderStep, SettleStep DEF IndInv
<1>3. IndInv /\ SettleInv => StatusSettles
  <2> SUFFICES ASSUME IndInv, SettleInv, there, upstream # "none", active = NoTurn, faults = 0
               PROVE  status # "busy"
    BY DEF StatusSettles
  <2>1. \A t \in TurnIds : turn[t].pc \notin Unsettled
    BY TurnsAssumption DEF IndInv, Parts, ActiveInv, Unsettled
  <2> QED
    BY <2>1 DEF SettleInv, Calm, ToldInv
<1> QED
  BY <1>1, <1>2, <1>3, Inductive, PTL DEF Spec

=============================================================================
