----------------------- MODULE SessionLifecycle_proofs -----------------------
(***************************************************************************)
(* Proofs about SessionLifecycle, for every set of sessions and requests,  *)
(* every choice of operations and faults, and every bound, and about the   *)
(* scene "locked" of MCSessionLifecycle.                                   *)
(*                                                                         *)
(* The invariants of the runs are not inductive.  What makes them so is    *)
(* how a handler's place, its locks, its row and its job hang together:    *)
(* that is IndInv.                                                         *)
(***************************************************************************)
EXTENDS MCSessionLifecycle, TLAPS

CleanupOps   == {"dry_run", "cleanup"}
SessionSteps == {"c_lock", "r_read"} \cup CreateSteps \cup DestroySteps

\* a handler that has its locks: past LockSession, or past LockCleanup
HoldsSession(h) == pc[h] \in {"locked"} \cup Awaiting /\ op[h] \in LockedOps
HoldsGate(h)    == pc[h] \in {"cleanup_list"} \cup Awaiting /\ op[h] \in CleanupOps

\* each place of a handler belongs to some of the operations
PcInv ==
  \A h \in Requests :
    /\ pc[h] \in {"gate", "mutex", "locked", "await_reset", "await_compensation"}
         => op[h] \in LockedOps
    /\ pc[h] \in {"kill_call", "kill_mark"} => op[h] = "kill"
    /\ pc[h] \in {"cleanup_gate", "cleanup_list"} => op[h] \in CleanupOps
    /\ pc[h] = "await" => op[h] # "none"
    /\ pc[h] = "idle" => op[h] = "none"
    /\ op[h] \in LockedOps \cup {"kill"} => target[h] \in Sessions
    /\ op[h] \notin LockedOps \cup {"kill"} => target[h] = NoSession

\* the locks are where the handlers' places say, and exclude each other
LockInv ==
  /\ \A h \in Requests :
       /\ HoldsSession(h) => mutex[target[h]] = h
       /\ HoldsSession(h) \/ pc[h] = "mutex" => h \in gateReaders
       /\ HoldsGate(h) => gateWriter = h
  /\ gateWriter # NoRequest => gateReaders = {}

\* a row is "never" until its create handler inserts it, and there while a
\* handler that found it waits under the session's lock
ClientRowInv ==
  \A h \in Requests :
    /\ op[h] = "create" /\ pc[h] \in {"gate", "mutex", "locked"}
         => /\ row[target[h]] = "never"
            /\ \A g \in Requests \ {h} : target[g] # target[h]
    /\ op[h] \in LockedOps /\ pc[h] \in Awaiting => Present(target[h])
    /\ op[h] = "kill" => row[target[h]] # "never"

\* what agent_host and Docker hold is about sessions that have been inserted
HostRowInv ==
  /\ \A h \in Requests :
       /\ step[h] \in SessionSteps => row[subject[h]] # "never"
       /\ \A r \in plan[h] : row[r.owner] # "never"
  /\ \A s \in Sessions : reg[s] # "none" => row[s] # "never"
  /\ \A n \in Names : cont[n] # NoContainer => row[cont[n].owner] # "never"
  /\ \A n \in Names : vol[n] \in Sessions => row[vol[n]] # "never"

RowInv == ClientRowInv /\ HostRowInv

\* a job is where its handler's place says
JobInv ==
  \A h \in Requests :
    /\ step[h] \in SessionSteps => subject[h] \in Sessions
    /\ step[h] \in CleanupSteps => subject[h] = NoSession
    /\ pc[h] \notin Awaiting \cup {"idle"} => step[h] = "none" /\ reply[h] = "none"
    /\ pc[h] = "idle" => reply[h] = "none"
    /\ reply[h] # "none" => step[h] = "none"
    /\ pc[h] \in Awaiting /\ step[h] # "none" =>
         /\ op[h] \in CleanupOps <=> step[h] \in CleanupSteps
         /\ op[h] \notin CleanupOps => subject[h] = target[h]

\* what cleanup removes or is about to report belongs to deleted sessions
SparesOwned(h) ==
  /\ step[h] \in {"x_next", "x_remove"} =>
       \A r \in plan[h] : r.owner \in owned[h] \/ row[r.owner] = "deleted"
  /\ step[h] = "x_remove" => pick[h] \in Resource /\ row[pick[h].owner] = "deleted"
  /\ pc[h] = "await" /\ step[h] \in {"l_containers", "l_volumes"} =>
       \A s \in Sessions : Present(s) => s \in owned[h]
  /\ pc[h] = "await" /\ step[h] = "l_volumes" =>
       \A r \in plan[h] : row[r.owner] = "deleted"

CleanupInv == \A h \in Requests : SparesOwned(h)

\* resources sit under the truncated name of the session they are labelled with
LabelInv ==
  \A n \in Names : /\ cont[n] # NoContainer => n = ShortName[cont[n].owner]
                   /\ vol[n] \in Sessions => n = ShortName[vol[n]]

IndInv ==
  /\ TypeOK /\ PcInv /\ LockInv /\ RowInv /\ JobInv /\ CleanupInv /\ LabelInv
  /\ ReportSound

----------------------------------------------------------------------------

\* Jobs, Docker and restarts of agent_host leave client_service's handlers, rows
\* and locks alone.
LEMMA OthersLeaveClient ==
  /\ \A h \in Requests : Work(h) \/ WorkFault(h) => UNCHANGED <<clientVars, lockVars>>
  /\ \A n \in Names : ContainerExits(n) => UNCHANGED <<clientVars, lockVars>>
  /\ HostRestart => UNCHANGED <<clientVars, lockVars>>
<1>1. ASSUME NEW h \in Requests, Work(h) \/ WorkFault(h)
      PROVE  UNCHANGED <<clientVars, lockVars>>
  BY <1>1 DEF Work, WorkFault, CheckVolume, MakeVolume, MatchContainer, RunContainer,
     StartContainer, WaitReady, InsertRecord, ReadForReset, ReadForDestroy, InspectLabels,
     ListLabels, RemoveContainer, RemoveVolume, ForgetRecord, ListContainers, ListVolumes,
     ReviewNext, ReviewRemove, JobFails, JobDropped
<1> QED BY <1>1 DEF ContainerExits, HostRestart

\* The handlers' places keep fitting their operations: jobs, Docker and
\* restarts of agent_host leave client_service's handlers alone.
LEMMA PcStep ==
  ASSUME TypeOK, PcInv, Next
  PROVE  PcInv'
<1> USE DEF TypeOK, HandlerTypes, CleanupOps, LockedOps, AllOps, Awaiting
<1>1. ASSUME NEW h \in Requests, Begin(h)
      PROVE  PcInv'
  <2>1. ASSUME NEW o \in LockedOps, NEW s \in Sessions, BeginLocked(h, o, s)
        PROVE  PcInv'
    BY <2>1 DEF PcInv, BeginLocked
  <2>2. ASSUME NEW s \in Sessions, BeginKill(h, s)
        PROVE  PcInv'
    BY <2>2 DEF PcInv, BeginKill
  <2>3. ASSUME NEW o \in CleanupOps, NEW reviewed \in SUBSET Resource, BeginCleanup(h, o, reviewed)
        PROVE  PcInv'
    BY <2>3, ConstantsAssumption DEF PcInv, BeginCleanup, Free
  <2> QED BY <1>1, <2>1, <2>2, <2>3 DEF Begin
<1>2. ASSUME NEW h \in Requests, Acquire(h)
      PROVE  PcInv'
  BY <1>2 DEF PcInv, Acquire, LockGate, LockSession, LockCleanup, CreateLock, clientVars
<1>3. ASSUME NEW h \in Requests, Return(h)
      PROVE  PcInv'
  BY <1>3, ConstantsAssumption DEF PcInv, Return
<1>4. ASSUME NEW h \in Requests, Handle(h)
      PROVE  PcInv'
  BY <1>4, <1>3 DEF PcInv, Handle, InsertRow, EnsureCall, DeleteCall, RowGone, EnsureDone,
     CompensationDone, RuntimeError, ResetDone, DeleteDone, KillCall, KillDone, KillMark,
     CleanupCall, CleanupDone, Call
<1>5. ASSUME NEW h \in Requests, HandleFault(h)
      PROVE  PcInv'
  BY <1>5, <1>3 DEF PcInv, HandleFault, ConfigMissing, PersistFails, StoreFails, TimeOut,
     Disconnect, Call
<1>6. CASE UNCHANGED <<op, target, pc>>
  BY <1>6 DEF PcInv
<1> QED BY <1>1, <1>2, <1>4, <1>5, <1>6, OthersLeaveClient DEF Next, clientVars

\* The lock protocol: a handler takes the gate before its mutex and gives both
\* back when it returns, in whatever way; cleanup waits for the gate alone.
LEMMA LockStep ==
  ASSUME TypeOK, PcInv, LockInv, Next
  PROVE  LockInv'
<1> USE DEF TypeOK, HandlerTypes, CleanupOps, LockedOps, AllOps, Awaiting, HoldsSession, HoldsGate
<1>1. ASSUME NEW h \in Requests, Begin(h)
      PROVE  LockInv'
  BY <1>1, ConstantsAssumption DEF LockInv, PcInv, Begin, BeginLocked, BeginKill, BeginCleanup, lockVars
<1>2. ASSUME NEW h \in Requests, Acquire(h)
      PROVE  LockInv'
  BY <1>2, ConstantsAssumption DEF LockInv, PcInv, Acquire, LockGate, LockSession, LockCleanup, CreateLock, clientVars, lockVars
<1>3. ASSUME NEW h \in Requests, Return(h)
      PROVE  LockInv'
  BY <1>3, ConstantsAssumption DEF LockInv, PcInv, Return
<1>4. ASSUME NEW h \in Requests, Handle(h)
      PROVE  LockInv'
  BY <1>4, <1>3 DEF LockInv, PcInv, Handle, InsertRow, EnsureCall, DeleteCall, RowGone, EnsureDone,
     CompensationDone, RuntimeError, ResetDone, DeleteDone, KillCall, KillDone, KillMark,
     CleanupCall, CleanupDone, Call, lockVars
<1>5. ASSUME NEW h \in Requests, HandleFault(h)
      PROVE  LockInv'
  BY <1>5, <1>3 DEF LockInv, PcInv, HandleFault, ConfigMissing, PersistFails, StoreFails, TimeOut,
     Disconnect, Call, lockVars
<1>6. CASE UNCHANGED <<clientVars, lockVars>>
  BY <1>6 DEF LockInv, clientVars, lockVars
<1> QED BY <1>1, <1>2, <1>4, <1>5, <1>6, OthersLeaveClient DEF Next

\* What the helpers of the actions do to the types.
LEMMA CallTypes ==
  ASSUME JobTypes, HandlerTypes, NEW h \in Requests, NEW k \in {"create", "destroy", "reset", "list", "delete"},
         NEW s \in Sessions \cup {NoSession}, NEW st \in Steps, NEW rec \in BOOLEAN,
         NEW own \in SUBSET Sessions, NEW pl \in SUBSET Resource, NEW w \in Awaiting,
         Call(h, k, s, st, rec, own, pl, w), UNCHANGED <<op, target, lockVars>>,
         reply' \in [Requests -> {"none", "ok", "err", "not_found"}], UNCHANGED createLock
  PROVE  HandlerTypes' /\ JobTypes'
<1>1. HandlerTypes'
  BY DEF Call, HandlerTypes, Awaiting, PcStates, lockVars
<1>2. JobTypes'
  BY DEF Call, JobTypes
<1> QED BY <1>1, <1>2

LEMMA ReturnTypes ==
  ASSUME HandlerTypes, NEW h \in Requests, Return(h)
  PROVE  HandlerTypes'
BY DEF HandlerTypes, Return, PcStates

LEMMA EndTypes ==
  ASSUME JobTypes, NEW h \in Requests, NEW r \in {"ok", "err", "not_found"}, End(h, r)
  PROVE  JobTypes'
BY DEF JobTypes, End, Steps

LEMMA GotoTypes ==
  ASSUME JobTypes, NEW h \in Requests, NEW st \in Steps, Goto(h, st)
  PROVE  JobTypes'
BY DEF JobTypes, Goto

\* The handlers keep the types.
LEMMA HandleTypes ==
  ASSUME TypeOK, PcInv, NEW h \in Requests, Handle(h) \/ HandleFault(h)
  PROVE  TypeOK'
<1> USE ConstantsAssumption DEF TypeOK, LockedOps
<1>1. ASSUME Return(h), UNCHANGED <<jobVars, createLock>>,
             reply' \in [Requests -> {"none", "ok", "err", "not_found"}]
      PROVE  HandlerTypes' /\ JobTypes'
  BY <1>1, ReturnTypes DEF JobTypes, jobVars
<1>2. CASE UNCHANGED reply \/ TakeReply(h)
  <2>1. reply' \in [Requests -> {"none", "ok", "err", "not_found"}]
    BY <1>2 DEF TakeReply, JobTypes
  <2>2. CASE InsertRow(h) \/ EnsureCall(h) \/ DeleteCall(h) \/ PersistFails(h) \/ KillCall(h)
    <3>1. target[h] \in Sessions \cup {NoSession}
      BY DEF HandlerTypes
    <3>2. HandlerTypes' /\ JobTypes'
      BY <2>1, <2>2, <3>1, CallTypes
         DEF InsertRow, EnsureCall, DeleteCall, PersistFails, KillCall, Awaiting, Steps, DestroySteps
    <3>3. row' \in [Sessions -> RowStatus]
      BY <2>2 DEF StoreTypes, InsertRow, EnsureCall, DeleteCall, PersistFails, KillCall, RowStatus
    <3>4. UNCHANGED faults \/ Fault("store")
      BY <2>2 DEF InsertRow, EnsureCall, DeleteCall, PersistFails, KillCall
    <3>6. faults' \in 0..MaxFaults
      BY <3>4 DEF StoreTypes, Fault
    <3>5. UNCHANGED <<reg, cont, vol, report>>
      BY <2>2 DEF InsertRow, EnsureCall, DeleteCall, PersistFails, KillCall, dockerVars
    <3> QED BY <3>2, <3>3, <3>5, <3>6 DEF StoreTypes
  <2>3. CASE EnsureDone(h)
    <3>1. target[h] \in Sessions \cup {NoSession}
      BY DEF HandlerTypes
    <3>2. HandlerTypes' /\ JobTypes'
      BY <1>1, <2>1, <2>3, <3>1, CallTypes DEF EnsureDone, Awaiting, Steps
    <3>3. StoreTypes'
      BY <2>3 DEF StoreTypes, EnsureDone, RowStatus, dockerVars
    <3> QED BY <3>2, <3>3
  <2>4. CASE CleanupCall(h)
    <3>1. HandlerTypes' /\ JobTypes'
      <4>1. plan[h] \in SUBSET Resource /\ {s \in Sessions : Present(s)} \in SUBSET Sessions
        BY DEF JobTypes
      <4> QED
        BY <2>1, <2>4, <4>1, CallTypes DEF CleanupCall, Awaiting, Steps, CleanupSteps
    <3>2. StoreTypes'
      BY <2>4 DEF StoreTypes, CleanupCall, dockerVars
    <3> QED BY <3>1, <3>2
  <2>5. CASE KillDone(h)
    <3>1. HandlerTypes'
      BY <2>5, ReturnTypes DEF KillDone, HandlerTypes, PcStates, lockVars
    <3>2. JobTypes' /\ StoreTypes'
      BY <2>1, <2>5 DEF KillDone, JobTypes, StoreTypes, jobVars, dockerVars
    <3> QED BY <3>1, <3>2
  <2>6. CASE \/ ConfigMissing(h) \/ RowGone(h) \/ CompensationDone(h) \/ RuntimeError(h)
             \/ ResetDone(h) \/ DeleteDone(h) \/ KillMark(h) \/ CleanupDone(h)
             \/ StoreFails(h) \/ TimeOut(h) \/ Disconnect(h)
    <3>1. HandlerTypes' /\ JobTypes'
      BY <1>1, <2>1, <2>6 DEF ConfigMissing, RowGone, CompensationDone, RuntimeError, ResetDone,
         DeleteDone, KillMark, CleanupDone, StoreFails, TimeOut, Disconnect
    <3>2. StoreTypes'
      BY <2>6 DEF StoreTypes, ConfigMissing, RowGone, CompensationDone, RuntimeError, ResetDone,
         DeleteDone, KillMark, CleanupDone, StoreFails, TimeOut, Disconnect, Fault, RowStatus, dockerVars
    <3> QED BY <3>1, <3>2
  <2> QED BY <2>2, <2>3, <2>4, <2>5, <2>6 DEF Handle, HandleFault
<1> QED
  BY <1>2 DEF Handle, HandleFault, InsertRow, EnsureCall, DeleteCall, RowGone, EnsureDone,
     CompensationDone, RuntimeError, ResetDone, DeleteDone, KillCall, KillDone, KillMark,
     CleanupCall, CleanupDone, ConfigMissing, PersistFails, StoreFails, TimeOut, Disconnect

\* Jobs keep the types: what they write in Docker and the registry is about a
\* session, because their subject is one.
LEMMA WorkTypes ==
  ASSUME TypeOK, JobInv, NEW h \in Requests, Work(h) \/ WorkFault(h)
  PROVE  TypeOK'
<1> USE ConstantsAssumption DEF TypeOK
<1>1. HandlerTypes' /\ row' = row
  BY OthersLeaveClient DEF HandlerTypes, clientVars, lockVars
<1>2. CASE JobTypes' /\ UNCHANGED <<reg, dockerVars, report>> /\ (UNCHANGED faults \/ Fault("call"))
  BY <1>1, <1>2 DEF StoreTypes, Fault, dockerVars
<1>3. ASSUME NEW st \in {"c_container", "c_mkvolume", "c_run", "c_ready", "c_replace", "c_insert",
                         "c_start", "d_list", "d_inspect", "d_container", "d_volume", "i_volume",
                         "d_forget", "c_lock"}, Goto(h, st)
      PROVE  JobTypes'
  BY <1>3, GotoTypes DEF Steps, CreateSteps, DestroySteps
<1>4. CASE CheckVolume(h)
  BY <1>2, <1>3, <1>4, EndTypes DEF CheckVolume
<1>5. CASE MakeVolume(h)
  <2>1. JobTypes'
    BY <1>3, <1>5, EndTypes DEF MakeVolume
  <2>2. StoreTypes'
    BY <1>1, <1>5 DEF MakeVolume, StoreTypes, JobTypes
  <2> QED BY <1>1, <2>1, <2>2
<1>6. CASE MatchContainer(h)
  BY <1>2, <1>3, <1>6, EndTypes DEF MatchContainer
<1>7. CASE RunContainer(h)
  <2>1. JobTypes'
    BY <1>3, <1>7, EndTypes DEF RunContainer
  <2>2. subject[h] \in Sessions
    BY <1>7 DEF RunContainer, JobInv, SessionSteps, CreateSteps
  <2>3. StoreTypes'
    BY <1>1, <1>7, <2>2 DEF RunContainer, StoreTypes, dockerVars
  <2> QED BY <1>1, <2>1, <2>3
<1>8. CASE StartContainer(h)
  <2>1. JobTypes'
    BY <1>3, <1>8, EndTypes DEF StartContainer
  <2>2. StoreTypes'
    BY <1>1, <1>8 DEF StartContainer, StoreTypes, NoContainer
  <2> QED BY <1>1, <2>1, <2>2
<1>9. CASE WaitReady(h)
  BY <1>2, <1>3, <1>9, EndTypes DEF WaitReady
<1>10. CASE InsertRecord(h)
  <2>1. JobTypes'
    BY <1>10, EndTypes DEF InsertRecord
  <2>2. StoreTypes'
    BY <1>1, <1>10 DEF InsertRecord, StoreTypes, dockerVars
  <2> QED BY <1>1, <2>1, <2>2
<1>11. CASE ReadForReset(h)
  <2>1. JobTypes'
    BY <1>11, EndTypes DEF ReadForReset, JobTypes, Steps, DestroySteps
  <2> QED BY <1>2, <1>11, <2>1 DEF ReadForReset
<1>12. CASE ReadForDestroy(h)
  BY <1>2, <1>3, <1>12 DEF ReadForDestroy
<1>13. CASE InspectLabels(h)
  BY <1>2, <1>3, <1>13, EndTypes DEF InspectLabels
<1>14. CASE ListLabels(h)
  <2>1. JobTypes'
    BY <1>14, EndTypes DEF ListLabels, JobTypes, Steps, DestroySteps
  <2> QED BY <1>2, <1>14, <2>1 DEF ListLabels
<1>15. CASE RemoveContainer(h)
  <2>1. JobTypes'
    BY <1>3, <1>15 DEF RemoveContainer
  <2>2. StoreTypes'
    BY <1>1, <1>15 DEF RemoveContainer, StoreTypes
  <2> QED BY <1>1, <2>1, <2>2
<1>16. Destroyed(h) => JobTypes'
  BY <1>3, EndTypes DEF Destroyed
<1>17. CASE RemoveVolume(h)
  <2>1. JobTypes'
    BY <1>3, <1>16, <1>17, EndTypes DEF RemoveVolume
  <2>2. StoreTypes'
    BY <1>1, <1>17 DEF RemoveVolume, StoreTypes
  <2> QED BY <1>1, <2>1, <2>2
<1>18. CASE ForgetRecord(h)
  <2>1. JobTypes'
    BY <1>16, <1>18 DEF ForgetRecord
  <2>2. StoreTypes'
    BY <1>1, <1>18 DEF ForgetRecord, StoreTypes, dockerVars
  <2> QED BY <1>1, <2>1, <2>2
<1>19. CASE ListContainers(h)
  <2>1. JobTypes'
    BY <1>19 DEF ListContainers, JobTypes, Steps, CleanupSteps
  <2> QED BY <1>2, <1>19, <2>1 DEF ListContainers
<1>20. CASE ListVolumes(h)
  <2>1. JobTypes'
    BY <1>20, EndTypes DEF ListVolumes
  <2>2. StoreTypes'
    BY <1>1, <1>20 DEF ListVolumes, StoreTypes, JobTypes, Resource, dockerVars
  <2> QED BY <1>1, <2>1, <2>2
<1>21. CASE ReviewNext(h)
  <2>1. JobTypes'
    BY <1>21, EndTypes DEF ReviewNext, JobTypes, Steps, CleanupSteps
  <2> QED BY <1>2, <1>21, <2>1 DEF ReviewNext
<1>22. CASE ReviewRemove(h)
  <2>1. JobTypes'
    BY <1>22 DEF ReviewRemove, JobTypes, Steps, CleanupSteps
  <2>2. StoreTypes'
    BY <1>1, <1>22 DEF ReviewRemove, StoreTypes, Fault, dockerVars
  <2> QED BY <1>1, <2>1, <2>2
<1>23. CASE WorkFault(h)
  BY <1>2, <1>23, EndTypes DEF WorkFault, JobFails, JobDropped
<1> QED
  BY <1>4, <1>5, <1>6, <1>7, <1>8, <1>9, <1>10, <1>11, <1>12, <1>13, <1>14, <1>15, <1>17, <1>18,
     <1>19, <1>20, <1>21, <1>22, <1>23 DEF Work

\* Every action keeps the types.
LEMMA TypeStep ==
  ASSUME TypeOK, PcInv, JobInv, Next
  PROVE  TypeOK'
<1> USE ConstantsAssumption DEF TypeOK
<1>1. ASSUME NEW h \in Requests, Begin(h)
      PROVE  TypeOK'
  <2>1. HandlerTypes'
    BY <1>1 DEF Begin, BeginLocked, BeginKill, BeginCleanup, HandlerTypes, AllOps, LockedOps, PcStates, lockVars
  <2>2. JobTypes'
    BY <1>1 DEF Begin, BeginLocked, BeginKill, BeginCleanup, JobTypes, jobVars
  <2>3. StoreTypes'
    BY <1>1 DEF Begin, BeginLocked, BeginKill, BeginCleanup, StoreTypes, dockerVars
  <2> QED BY <2>1, <2>2, <2>3
<1>2. ASSUME NEW h \in Requests, Acquire(h)
      PROVE  TypeOK'
  <2>1. HandlerTypes'
    BY <1>2 DEF Acquire, LockGate, LockSession, LockCleanup, CreateLock, HandlerTypes, PcStates, clientVars, lockVars
  <2>2. JobTypes'
    BY <1>2 DEF Acquire, LockGate, LockSession, LockCleanup, CreateLock, JobTypes, Steps, CreateSteps, jobVars
  <2>3. StoreTypes'
    BY <1>2 DEF Acquire, LockGate, LockSession, LockCleanup, CreateLock, StoreTypes, clientVars, dockerVars
  <2> QED BY <2>1, <2>2, <2>3
<1>3. ASSUME NEW n \in Names, ContainerExits(n)
      PROVE  TypeOK'
  <2>1. HandlerTypes' /\ JobTypes'
    BY <1>3 DEF ContainerExits, HandlerTypes, JobTypes, clientVars, lockVars, jobVars
  <2>2. StoreTypes'
    BY <1>3 DEF ContainerExits, StoreTypes, Fault, clientVars
  <2> QED BY <2>1, <2>2
<1>4. CASE HostRestart
  <2>1. HandlerTypes'
    BY <1>4 DEF HostRestart, HandlerTypes, clientVars, lockVars
  <2>2. JobTypes'
    BY <1>4 DEF HostRestart, JobTypes, Steps
  <2>3. StoreTypes'
    BY <1>4 DEF HostRestart, StoreTypes, Fault, clientVars, dockerVars
  <2> QED BY <2>1, <2>2, <2>3
<1> QED BY <1>1, <1>2, <1>3, <1>4, HandleTypes, WorkTypes DEF Next

\* What deleting, reporting and reviewing rest on: rows keep their history.
LEMMA RowsKeepHistory ==
  ASSUME TypeOK, PcInv, LockInv, ClientRowInv, Next, NEW s \in Sessions
  PROVE  /\ row[s] # "never" => row'[s] # "never"
         /\ row[s] = "deleted" => row'[s] = "deleted"
<1> USE DEF TypeOK, HandlerTypes, StoreTypes, LockedOps, CleanupOps, Awaiting
<1>1. ASSUME NEW h \in Requests, Handle(h) \/ HandleFault(h)
      PROVE  /\ row[s] # "never" => row'[s] # "never"
             /\ row[s] = "deleted" => row'[s] = "deleted"
  <2>1. CASE \/ EnsureCall(h) \/ DeleteCall(h) \/ RowGone(h) \/ CompensationDone(h) \/ KillCall(h)
             \/ KillDone(h) \/ CleanupCall(h) \/ CleanupDone(h) \/ PersistFails(h) \/ StoreFails(h)
             \/ Disconnect(h)
    BY <2>1 DEF EnsureCall, DeleteCall, RowGone, CompensationDone, KillCall, KillDone, CleanupCall,
       CleanupDone, PersistFails, StoreFails, Disconnect
  <2>2. CASE InsertRow(h) \/ ConfigMissing(h)
    <3>1. pc[h] = "locked" /\ (op[h] = "create" \/ Present(target[h]))
      BY <2>2 DEF InsertRow, ConfigMissing
    <3>2. row[target[h]] # "deleted"
      BY <3>1 DEF PcInv, ClientRowInv, Present
    <3>3. \E v \in {"starting", "error"} : row' = [row EXCEPT ![target[h]] = v]
      BY <2>2 DEF InsertRow, ConfigMissing
    <3> QED BY <3>2, <3>3
  <2>3. CASE EnsureDone(h) \/ RuntimeError(h) \/ ResetDone(h) \/ TimeOut(h)
    <3>1. \/ UNCHANGED row
          \/ /\ pc[h] \in Awaiting /\ op[h] \in LockedOps
             /\ \E v \in {"live", "error"} : row' = [row EXCEPT ![target[h]] = v]
      BY <2>3 DEF EnsureDone, RuntimeError, ResetDone, TimeOut, PcInv
    <3>2. pc[h] \in Awaiting /\ op[h] \in LockedOps => row[target[h]] # "deleted"
      BY DEF ClientRowInv, Present
    <3> QED BY <3>1, <3>2
  <2>4. CASE DeleteDone(h) \/ KillMark(h)
    BY <2>4 DEF DeleteDone, KillMark, PcInv, ClientRowInv, Present
  <2> QED BY <1>1, <2>1, <2>2, <2>3, <2>4 DEF Handle, HandleFault
<1>2. ASSUME NEW h \in Requests, Begin(h) \/ Acquire(h)
      PROVE  UNCHANGED row
  BY <1>2 DEF Begin, BeginLocked, BeginKill, BeginCleanup, Acquire, LockGate, LockSession,
     LockCleanup, CreateLock, clientVars
<1> QED BY <1>1, <1>2, OthersLeaveClient DEF Next, clientVars

\* A row that a handler relies on is not taken away by another handler: the
\* other one is about another session, or waits for the lock.
LEMMA ClientRowStep ==
  ASSUME TypeOK, PcInv, LockInv, RowInv, Next
  PROVE  ClientRowInv'
<1> USE ConstantsAssumption DEF TypeOK, HandlerTypes, StoreTypes, LockedOps, CleanupOps, Awaiting
<1>1. ASSUME NEW h \in Requests, Begin(h)
      PROVE  ClientRowInv'
  <2>1. ASSUME NEW o \in LockedOps, NEW s \in Sessions, BeginLocked(h, o, s)
        PROVE  ClientRowInv'
    BY <2>1 DEF BeginLocked, PcInv, RowInv, ClientRowInv, Present, Free
  <2>2. ASSUME NEW s \in Sessions, BeginKill(h, s)
        PROVE  ClientRowInv'
    BY <2>2 DEF BeginKill, PcInv, RowInv, ClientRowInv, HostRowInv, Present, Free
  <2>3. ASSUME NEW o \in CleanupOps, NEW reviewed \in SUBSET Resource, BeginCleanup(h, o, reviewed)
        PROVE  ClientRowInv'
    BY <2>3 DEF BeginCleanup, PcInv, RowInv, ClientRowInv, Present, Free
  <2> QED BY <1>1, <2>1, <2>2, <2>3 DEF Begin
<1>2. ASSUME NEW h \in Requests, Acquire(h)
      PROVE  ClientRowInv'
  BY <1>2 DEF Acquire, LockGate, LockSession, LockCleanup, CreateLock, PcInv, RowInv, ClientRowInv,
     Present, clientVars
<1>3. ASSUME NEW h \in Requests, Handle(h) \/ HandleFault(h)
      PROVE  ClientRowInv'
  <2>1. CASE Return(h) /\ UNCHANGED row
    BY <2>1 DEF Return, PcInv, RowInv, ClientRowInv, Present
  <2>2. ASSUME Return(h), HoldsSession(h), NEW v \in RowStatus, v # "never", target[h] \in Sessions,
               row' = [row EXCEPT ![target[h]] = v]
        PROVE  ClientRowInv'
    BY <2>2 DEF Return, PcInv, LockInv, RowInv, ClientRowInv, Present, HoldsSession
  <2>3. CASE InsertRow(h)
    BY <2>3 DEF InsertRow, Call, PcInv, LockInv, RowInv, ClientRowInv, Present, HoldsSession
  <2>4. CASE EnsureCall(h) \/ DeleteCall(h) \/ PersistFails(h) \/ KillCall(h) \/ CleanupCall(h)
    BY <2>4 DEF EnsureCall, DeleteCall, PersistFails, KillCall, CleanupCall, Call, PcInv, RowInv,
       ClientRowInv, Present
  <2>5. CASE EnsureDone(h)
    BY <2>2, <2>5 DEF EnsureDone, Call, PcInv, RowInv, ClientRowInv, Present, HoldsSession, RowStatus
  <2>6. CASE KillDone(h)
    BY <2>1, <2>6 DEF KillDone, PcInv, RowInv, ClientRowInv, Present
  <2>7. CASE KillMark(h)
    BY <2>1, <2>7 DEF KillMark, Return, PcInv, RowInv, ClientRowInv, Present
  <2>8. CASE ConfigMissing(h) \/ RuntimeError(h) \/ ResetDone(h) \/ DeleteDone(h) \/ TimeOut(h)
    BY <2>1, <2>2, <2>8 DEF ConfigMissing, RuntimeError, ResetDone, DeleteDone, TimeOut, PcInv,
       HoldsSession, RowStatus
  <2>9. CASE RowGone(h) \/ CompensationDone(h) \/ CleanupDone(h) \/ StoreFails(h) \/ Disconnect(h)
    BY <2>1, <2>9 DEF RowGone, CompensationDone, CleanupDone, StoreFails, Disconnect
  <2> QED BY <1>3, <2>3, <2>4, <2>5, <2>6, <2>7, <2>8, <2>9 DEF Handle, HandleFault
<1>4. CASE UNCHANGED clientVars
  BY <1>4 DEF RowInv, ClientRowInv, Present, clientVars
<1> QED BY <1>1, <1>2, <1>3, <1>4, OthersLeaveClient DEF Next

\* What agent_host and Docker hold stays about inserted sessions: a call is made
\* for the row its handler found, and a job names resources by their labels.
LEMMA HostRowStep ==
  ASSUME TypeOK, PcInv, LockInv, RowInv, JobInv, Next
  PROVE  HostRowInv'
<1> USE ConstantsAssumption DEF TypeOK
<1>1. \A s \in Sessions : row[s] # "never" => row'[s] # "never"
  BY RowsKeepHistory DEF RowInv
<1>2. /\ \A h \in Requests : step[h] \in SessionSteps => subject[h] \in Sessions
      /\ \A h \in Requests : \A r \in plan[h] : r.owner \in Sessions
      /\ \A n \in Names : cont[n] # NoContainer => cont[n].owner \in Sessions
  BY DEF JobInv, JobTypes, StoreTypes, Resource
<1>3. CASE UNCHANGED <<step, subject, plan, reg, cont, vol>>
  BY <1>1, <1>2, <1>3 DEF RowInv, HostRowInv
<1>4. ASSUME NEW h \in Requests, Begin(h)
      PROVE  HostRowInv'
  <2>1. ASSUME NEW o \in CleanupOps, NEW reviewed \in SUBSET Resource, BeginCleanup(h, o, reviewed)
        PROVE  HostRowInv'
    <3>1. \A r \in reviewed : r.owner \in Sessions /\ row[r.owner] # "never"
      BY <2>1, <1>2 DEF BeginCleanup, Exists, HasContainer, HasVolume, RowInv, HostRowInv, Resource, NoContainer
    <3> QED BY <1>2, <2>1, <3>1 DEF BeginCleanup, RowInv, HostRowInv, JobTypes, dockerVars
  <2> QED BY <1>3, <1>4, <2>1 DEF Begin, BeginLocked, BeginKill, jobVars, dockerVars, CleanupOps
<1>5. ASSUME NEW h \in Requests, Acquire(h)
      PROVE  HostRowInv'
  <2>1. CASE CreateLock(h)
    BY <1>2, <2>1 DEF CreateLock, RowInv, HostRowInv, JobTypes, SessionSteps, clientVars, dockerVars
  <2> QED BY <1>3, <1>5, <2>1 DEF Acquire, LockGate, LockSession, LockCleanup, jobVars, dockerVars
<1>6. ASSUME NEW h \in Requests, Handle(h) \/ HandleFault(h)
      PROVE  HostRowInv'
  <2>1. ASSUME NEW k, NEW st, NEW rec, NEW w, Call(h, k, target[h], st, rec, {}, {}, w),
               row'[target[h]] # "never", UNCHANGED <<reg, dockerVars>>
        PROVE  HostRowInv'
    BY <1>1, <1>2, <2>1 DEF Call, RowInv, HostRowInv, JobTypes, dockerVars
  <2>2. CASE InsertRow(h)
    BY <2>1, <2>2 DEF InsertRow, PcInv, LockedOps, StoreTypes
  <2>3. CASE EnsureCall(h) \/ DeleteCall(h) \/ PersistFails(h) \/ KillCall(h)
    <3>1. row[target[h]] # "never"
      BY <2>3 DEF EnsureCall, DeleteCall, PersistFails, KillCall, PcInv, RowInv, ClientRowInv, Present,
         LockedOps, Awaiting
    <3> QED BY <2>1, <2>3, <3>1 DEF EnsureCall, DeleteCall, PersistFails, KillCall
  <2>4. CASE EnsureDone(h)
    <3>1. row'[target[h]] # "never"
      BY <2>4 DEF EnsureDone, PcInv, LockedOps, StoreTypes
    <3> QED BY <1>3, <2>1, <2>4, <3>1 DEF EnsureDone, jobVars, dockerVars
  <2>5. CASE CleanupCall(h)
    BY <1>2, <2>5 DEF CleanupCall, Call, RowInv, HostRowInv, JobTypes, dockerVars, SessionSteps, CreateSteps, DestroySteps
  <2> QED
    BY <1>3, <1>6, <2>2, <2>3, <2>4, <2>5 DEF Handle, HandleFault, RowGone, CompensationDone,
       RuntimeError, ResetDone, DeleteDone, KillDone, KillMark, CleanupDone, ConfigMissing, StoreFails,
       TimeOut, Disconnect, jobVars, dockerVars
<1>7. ASSUME NEW h \in Requests, Work(h) \/ WorkFault(h)
      PROVE  HostRowInv'
  <2> USE <1>2
  <2>1. row' = row
    BY <1>7, OthersLeaveClient DEF clientVars
  <2>2. ASSUME NEW r, End(h, r), UNCHANGED <<reg, dockerVars>>
        PROVE  HostRowInv'
    BY <2>1, <2>2 DEF End, RowInv, HostRowInv, JobTypes, dockerVars, SessionSteps, CreateSteps, DestroySteps
  <2>3. ASSUME NEW st, Goto(h, st), step[h] \in SessionSteps, UNCHANGED <<reg, dockerVars>>
        PROVE  HostRowInv'
    BY <2>1, <2>3 DEF Goto, RowInv, HostRowInv, JobTypes, dockerVars
  <2>4. CASE CheckVolume(h) \/ MatchContainer(h) \/ WaitReady(h) \/ ReadForDestroy(h) \/ InspectLabels(h)
    BY <2>2, <2>3, <2>4 DEF CheckVolume, MatchContainer, WaitReady, ReadForDestroy, InspectLabels,
       SessionSteps, CreateSteps, DestroySteps
  <2>5. CASE WorkFault(h)
    BY <2>2, <2>5 DEF WorkFault, JobFails, JobDropped
  <2>6. ASSUME step[h] \in SessionSteps, \E st : Goto(h, st) \/ End(h, st),
               \A s \in Sessions : reg'[s] # "none" => reg[s] # "none" \/ s = subject[h],
               \A n \in Names : cont'[n] # NoContainer => cont'[n].owner \in {cont[n].owner, subject[h]}
                                                          /\ (cont[n] = NoContainer => cont'[n].owner = subject[h]),
               \A n \in Names : vol'[n] \in Sessions => vol'[n] \in {vol[n], subject[h]}
        PROVE  HostRowInv'
    BY <2>1, <2>6 DEF End, Goto, RowInv, HostRowInv, JobTypes, SessionSteps, CreateSteps, DestroySteps
  <2>7. CASE MakeVolume(h)
    BY <2>6, <2>7 DEF MakeVolume, StoreTypes, SessionSteps, CreateSteps
  <2>8. CASE RunContainer(h)
    BY <2>6, <2>8 DEF RunContainer, StoreTypes, SessionSteps, CreateSteps, dockerVars, NoContainer
  <2>9. CASE StartContainer(h)
    BY <2>6, <2>9 DEF StartContainer, StoreTypes, SessionSteps, CreateSteps, NoContainer
  <2>10. CASE InsertRecord(h)
    BY <2>6, <2>10 DEF InsertRecord, StoreTypes, SessionSteps, CreateSteps, dockerVars
  <2>11. CASE ReadForReset(h)
    BY <2>1, <2>2, <2>11 DEF ReadForReset, RowInv, HostRowInv, JobTypes, dockerVars, SessionSteps
  <2>12. CASE ListLabels(h)
    BY <2>1, <2>2, <2>12 DEF ListLabels, RowInv, HostRowInv, JobTypes, dockerVars, SessionSteps, DestroySteps
  <2>13. CASE RemoveContainer(h)
    BY <2>6, <2>13 DEF RemoveContainer, StoreTypes, SessionSteps, CreateSteps, DestroySteps
  <2>14. Destroyed(h) => \E st : Goto(h, st) \/ End(h, st)
    BY DEF Destroyed
  <2>15. CASE RemoveVolume(h)
    BY <2>6, <2>14, <2>15 DEF RemoveVolume, StoreTypes, SessionSteps, DestroySteps
  <2>16. CASE ForgetRecord(h)
    BY <2>6, <2>14, <2>16 DEF ForgetRecord, StoreTypes, SessionSteps, DestroySteps, dockerVars
  <2>17. CASE ListContainers(h)
    BY <2>1, <2>17 DEF ListContainers, RowInv, HostRowInv, JobTypes, Exists, HasContainer, HasVolume,
       Resource, NoContainer, dockerVars, SessionSteps, CreateSteps, DestroySteps
  <2>18. CASE ListVolumes(h)
    BY <2>2, <2>18 DEF ListVolumes
  <2>19. CASE ReviewNext(h)
    BY <2>1, <2>2, <2>19 DEF ReviewNext, RowInv, HostRowInv, JobTypes, dockerVars, SessionSteps,
       CreateSteps, DestroySteps
  <2>20. CASE ReviewRemove(h)
    BY <2>1, <2>20 DEF ReviewRemove, RowInv, HostRowInv, JobTypes, StoreTypes, dockerVars, SessionSteps,
       CreateSteps, DestroySteps
  <2> QED
    BY <1>7, <2>4, <2>5, <2>7, <2>8, <2>9, <2>10, <2>11, <2>12, <2>13, <2>15, <2>16, <2>17, <2>18,
       <2>19, <2>20 DEF Work
<1>8. ASSUME NEW n \in Names, ContainerExits(n)
      PROVE  HostRowInv'
  BY <1>2, <1>8 DEF ContainerExits, RowInv, HostRowInv, StoreTypes, clientVars, jobVars
<1>9. CASE HostRestart
  BY <1>2, <1>9 DEF HostRestart, RowInv, HostRowInv, clientVars, dockerVars, SessionSteps, CreateSteps, DestroySteps
<1> QED BY <1>4, <1>5, <1>6, <1>7, <1>8, <1>9 DEF Next

\* Jobs keep fitting their handlers: a handler starts one job at a time and
\* waits for its answer, or leaves it alone for good.
LEMMA JobStep ==
  ASSUME TypeOK, PcInv, JobInv, Next
  PROVE  JobInv'
<1> USE ConstantsAssumption DEF TypeOK, HandlerTypes, JobTypes, LockedOps, CleanupOps, Awaiting,
        SessionSteps, CreateSteps, DestroySteps, CleanupSteps
<1>1. ASSUME NEW h \in Requests, Begin(h)
      PROVE  JobInv'
  BY <1>1 DEF JobInv, Begin, BeginLocked, BeginKill, BeginCleanup, Free, jobVars
<1>2. ASSUME NEW h \in Requests, Acquire(h)
      PROVE  JobInv'
  BY <1>2 DEF JobInv, PcInv, Acquire, LockGate, LockSession, LockCleanup, CreateLock, jobVars, clientVars
<1>3. ASSUME NEW h \in Requests, Handle(h) \/ HandleFault(h)
      PROVE  JobInv'
  <2>1. ASSUME Return(h), UNCHANGED jobVars, reply' \in {reply, [reply EXCEPT ![h] = "none"]},
               reply'[h] = "none"
        PROVE  JobInv'
    BY <2>1 DEF JobInv, Return, jobVars
  <2>2. ASSUME NEW k, NEW rec, NEW w \in Awaiting, NEW st \in {"c_lock", "d_read", "r_read"},
               Call(h, k, target[h], st, rec, {}, {}, w), UNCHANGED <<op, target>>,
               op[h] \in LockedOps \cup {"kill"},
               reply' \in {reply, [reply EXCEPT ![h] = "none"]}, reply'[h] = "none"
        PROVE  JobInv'
    BY <2>2 DEF JobInv, PcInv, Call
  <2>3. CASE InsertRow(h) \/ EnsureCall(h) \/ DeleteCall(h) \/ KillCall(h)
    <3>1. op[h] \in LockedOps \cup {"kill"} /\ reply' = reply /\ reply[h] = "none"
      BY <2>3 DEF InsertRow, EnsureCall, DeleteCall, KillCall, JobInv, PcInv
    <3> QED BY <2>2, <2>3, <3>1 DEF InsertRow, EnsureCall, DeleteCall, KillCall
  <2>4. CASE PersistFails(h)
    BY <2>2, <2>4 DEF PersistFails, TakeReply
  <2>5. CASE EnsureDone(h)
    BY <2>1, <2>2, <2>5 DEF EnsureDone, TakeReply
  <2>6. CASE CleanupCall(h)
    BY <2>6 DEF CleanupCall, Call, JobInv, PcInv
  <2>7. CASE KillDone(h)
    <3>1. CASE Return(h)
      BY <2>1, <2>7, <3>1 DEF KillDone, TakeReply
    <3>2. CASE pc' = [pc EXCEPT ![h] = "kill_mark"] /\ UNCHANGED <<op, target>>
      BY <2>7, <3>2 DEF KillDone, TakeReply, JobInv, jobVars
    <3> QED BY <2>7, <3>1, <3>2 DEF KillDone
  <2>8. CASE RowGone(h) \/ KillMark(h) \/ ConfigMissing(h) \/ TimeOut(h)
    <3>1. reply' = reply /\ reply[h] = "none"
      BY <2>8 DEF RowGone, KillMark, ConfigMissing, TimeOut, JobInv
    <3> QED BY <2>1, <2>8, <3>1 DEF RowGone, KillMark, ConfigMissing, TimeOut
  <2>9. CASE \/ CompensationDone(h) \/ RuntimeError(h) \/ ResetDone(h) \/ DeleteDone(h)
             \/ CleanupDone(h) \/ StoreFails(h) \/ Disconnect(h)
    BY <2>1, <2>9 DEF CompensationDone, RuntimeError, ResetDone, DeleteDone, CleanupDone, StoreFails,
       Disconnect, TakeReply
  <2> QED BY <1>3, <2>3, <2>4, <2>5, <2>6, <2>7, <2>8, <2>9 DEF Handle, HandleFault
<1>4. ASSUME NEW h \in Requests, Work(h) \/ WorkFault(h)
      PROVE  JobInv'
  <2>1. UNCHANGED clientVars
    BY <1>4, OthersLeaveClient
  <2>2. step[h] # "none"
    BY <1>4 DEF Work, WorkFault, CheckVolume, MakeVolume, MatchContainer, RunContainer,
       StartContainer, WaitReady, InsertRecord, ReadForReset, ReadForDestroy, InspectLabels,
       ListLabels, RemoveContainer, RemoveVolume, ForgetRecord, ListContainers, ListVolumes,
       ReviewNext, ReviewRemove, JobFails, JobDropped
  <2>3. ASSUME NEW r, End(h, r)
        PROVE  JobInv'
    BY <2>1, <2>2, <2>3 DEF End, JobInv, clientVars
  <2>4. ASSUME UNCHANGED <<subject, reply>>, NEW st, step' = [step EXCEPT ![h] = st],
               \/ step[h] \in SessionSteps /\ st \in SessionSteps
               \/ step[h] \in CleanupSteps /\ st \in CleanupSteps
        PROVE  JobInv'
    BY <2>1, <2>2, <2>4 DEF JobInv, clientVars
  <2>5. CASE \/ CheckVolume(h) \/ MakeVolume(h) \/ MatchContainer(h) \/ RunContainer(h)
             \/ StartContainer(h) \/ WaitReady(h) \/ InsertRecord(h)
    BY <2>3, <2>4, <2>5 DEF CheckVolume, MakeVolume, MatchContainer, RunContainer, StartContainer,
       WaitReady, InsertRecord, Goto
  <2>6. CASE ReadForReset(h) \/ ReadForDestroy(h) \/ InspectLabels(h) \/ ListLabels(h) \/ RemoveContainer(h)
    BY <2>3, <2>4, <2>6 DEF ReadForReset, ReadForDestroy, InspectLabels, ListLabels, RemoveContainer, Goto
  <2>7. CASE RemoveVolume(h) \/ ForgetRecord(h)
    BY <2>3, <2>4, <2>7 DEF RemoveVolume, ForgetRecord, Destroyed, Goto
  <2>8. CASE ListContainers(h) \/ ListVolumes(h) \/ ReviewNext(h) \/ ReviewRemove(h)
    BY <2>3, <2>4, <2>8, <2>1, <2>2 DEF ListContainers, ListVolumes, ReviewNext, ReviewRemove, JobInv, clientVars
  <2>9. CASE WorkFault(h)
    BY <2>3, <2>9 DEF WorkFault, JobFails, JobDropped
  <2> QED BY <1>4, <2>5, <2>6, <2>7, <2>8, <2>9 DEF Work
<1>5. ASSUME NEW n \in Names, ContainerExits(n)
      PROVE  JobInv'
  BY <1>5 DEF ContainerExits, JobInv, clientVars, jobVars
<1>6. CASE HostRestart
  BY <1>6 DEF HostRestart, JobInv, PcInv, clientVars
<1> QED BY <1>1, <1>2, <1>3, <1>4, <1>5, <1>6 DEF Next

\* A row is inserted by a handler that holds the gate, so never during cleanup.
LEMMA RowsInsertedUnderGate ==
  ASSUME TypeOK, PcInv, LockInv, ClientRowInv, Next, NEW s \in Sessions, row[s] = "never",
         row'[s] # "never"
  PROVE  gateReaders # {}
<1> USE DEF TypeOK, HandlerTypes, StoreTypes, LockedOps, CleanupOps, Awaiting
<1>1. ASSUME NEW h \in Requests, HoldsSession(h)
      PROVE  gateReaders # {}
  BY <1>1 DEF LockInv
<1>2. ASSUME NEW h \in Requests, Handle(h) \/ HandleFault(h)
      PROVE  UNCHANGED row \/ HoldsSession(h) \/ KillMark(h)
  BY <1>2 DEF PcInv, Handle, HandleFault, HoldsSession, InsertRow, EnsureCall, DeleteCall, RowGone,
     EnsureDone, CompensationDone, RuntimeError, ResetDone, DeleteDone, KillCall, KillDone,
     CleanupCall, CleanupDone, ConfigMissing, PersistFails, StoreFails, TimeOut, Disconnect
<1>3. ASSUME NEW h \in Requests, KillMark(h)
      PROVE  row'[s] = row[s]
  BY <1>3 DEF KillMark, Present
<1>4. ASSUME NEW h \in Requests, Begin(h) \/ Acquire(h)
      PROVE  UNCHANGED row
  BY <1>4 DEF Begin, BeginLocked, BeginKill, BeginCleanup, Acquire, LockGate, LockSession,
     LockCleanup, CreateLock, clientVars
<1> QED BY <1>1, <1>2, <1>3, <1>4, OthersLeaveClient DEF Next, clientVars

\* Cleanup keeps to deleted sessions: it reads the owned ids while no row can be
\* inserted, and a row deleted once stays deleted.
LEMMA CleanupStep ==
  ASSUME TypeOK, PcInv, LockInv, RowInv, JobInv, CleanupInv, Next
  PROVE  CleanupInv'
<1> USE ConstantsAssumption DEF TypeOK
<1>1. /\ \A s \in Sessions : row[s] = "deleted" => row'[s] = "deleted"
      /\ \A s \in Sessions : row[s] # "never" => row'[s] # "never"
      /\ \A s \in Sessions : row[s] \in {"never", "deleted"} \/ Present(s)
  BY RowsKeepHistory DEF RowInv, Present
<1>2. /\ \A h \in Requests : \A r \in plan[h] : r.owner \in Sessions
      /\ \A r \in Resource : r.owner \in Sessions
  BY DEF JobTypes, Resource
<1>3. ASSUME NEW h \in Requests, pc[h] = "await", step[h] \in CleanupSteps, NEW s \in Sessions,
             Present(s)'
      PROVE  Present(s)
  <2>1. gateWriter = h
    BY <1>3 DEF JobInv, LockInv, HoldsGate, Awaiting, CleanupSteps
  <2>2. gateReaders = {}
    BY <2>1 DEF LockInv
  <2> QED BY <1>1, <1>3, <2>2, RowsInsertedUnderGate DEF RowInv, Present
<1> DEFINE Quiet(h) == /\ step'[h] = step[h] \/ step'[h] \notin CleanupSteps
                       /\ pc'[h] = "await" => pc[h] = "await" \/ step'[h] \notin CleanupSteps
                       /\ step'[h] \in CleanupSteps => UNCHANGED <<plan[h], owned[h], pick[h]>>
<1>4. ASSUME NEW h \in Requests, Quiet(h)
      PROVE  SparesOwned(h)'
  BY <1>1, <1>2, <1>3, <1>4 DEF CleanupInv, SparesOwned, CleanupSteps
<1>5. ASSUME NEW h \in Requests, SparesOwned(h)', \A g \in Requests \ {h} : Quiet(g)
      PROVE  CleanupInv'
  BY <1>4, <1>5 DEF CleanupInv
<1> USE DEF HandlerTypes, JobTypes, CleanupSteps
<1>6. ASSUME NEW h \in Requests, Begin(h)
      PROVE  CleanupInv'
  <2>1. \A g \in Requests : Quiet(g)
    BY <1>6 DEF Begin, BeginLocked, BeginKill, BeginCleanup, Free, jobVars
  <2> QED BY <1>4, <2>1 DEF CleanupInv
<1>7. ASSUME NEW h \in Requests, Acquire(h)
      PROVE  CleanupInv'
  <2>1. \A g \in Requests : Quiet(g)
    BY <1>7 DEF Acquire, LockGate, LockSession, LockCleanup, CreateLock, clientVars, jobVars
  <2> QED BY <1>4, <2>1 DEF CleanupInv
<1>8. ASSUME NEW h \in Requests, Handle(h) \/ HandleFault(h)
      PROVE  CleanupInv'
  <2>1. CASE CleanupCall(h)
    <3>1. \A r \in plan[h] : row[r.owner] # "never"
      BY DEF RowInv, HostRowInv
    <3>2. SparesOwned(h)'
      BY <1>1, <1>2, <2>1, <3>1 DEF CleanupCall, Call, SparesOwned, Present
    <3>3. \A g \in Requests \ {h} : Quiet(g)
      BY <2>1 DEF CleanupCall, Call
    <3> QED BY <1>5, <3>2, <3>3
  <2>2. CASE \/ InsertRow(h) \/ EnsureCall(h) \/ DeleteCall(h) \/ KillCall(h) \/ PersistFails(h)
             \/ EnsureDone(h)
    <3>1. \A g \in Requests : Quiet(g)
      BY <2>2 DEF InsertRow, EnsureCall, DeleteCall, KillCall, PersistFails, EnsureDone, Call, Return,
         jobVars
    <3> QED BY <1>4, <3>1 DEF CleanupInv
  <2>3. CASE UNCHANGED jobVars /\ (Return(h) \/ pc' = [pc EXCEPT ![h] = "kill_mark"])
    <3>1. \A g \in Requests : Quiet(g)
      BY <2>3 DEF Return, jobVars
    <3> QED BY <1>4, <3>1 DEF CleanupInv
  <2> QED
    BY <1>8, <2>1, <2>2, <2>3 DEF Handle, HandleFault, RowGone, CompensationDone, RuntimeError,
       ResetDone, DeleteDone, KillDone, KillMark, CleanupDone, ConfigMissing, StoreFails, TimeOut,
       Disconnect
<1>9. ASSUME NEW h \in Requests, Work(h) \/ WorkFault(h)
      PROVE  CleanupInv'
  <2>1. UNCHANGED <<row, pc>>
    BY <1>9, OthersLeaveClient DEF clientVars
  <2>2. ASSUME \E r : End(h, r) \/ (r \notin CleanupSteps /\ Goto(h, r))
        PROVE  CleanupInv'
    <3>1. \A g \in Requests : Quiet(g)
      BY <2>1, <2>2 DEF End, Goto
    <3> QED BY <1>4, <3>1 DEF CleanupInv
  <2>3. CASE ListContainers(h)
    <3>1. \A g \in Requests \ {h} : Quiet(g)
      BY <2>1, <2>3 DEF ListContainers
    <3>2. \A r \in Resource : r.kind = "container" /\ Exists(r) => row[r.owner] # "never"
      BY <1>2 DEF Exists, HasContainer, RowInv, HostRowInv, NoContainer
    <3>3. SparesOwned(h)'
      BY <1>1, <1>2, <2>1, <2>3, <3>2 DEF ListContainers, CleanupInv, SparesOwned, Present
    <3> QED BY <1>5, <3>1, <3>3
  <2>4. CASE ReviewNext(h) /\ plan[h] # {}
    <3>1. \A g \in Requests \ {h} : Quiet(g)
      BY <2>1, <2>4 DEF ReviewNext
    <3>2. SparesOwned(h)'
      BY <2>1, <2>4 DEF ReviewNext, CleanupInv, SparesOwned
    <3> QED BY <1>5, <3>1, <3>2
  <2>5. CASE ReviewRemove(h)
    <3>1. \A g \in Requests \ {h} : Quiet(g)
      BY <2>1, <2>5 DEF ReviewRemove
    <3>2. SparesOwned(h)'
      BY <2>1, <2>5 DEF ReviewRemove, CleanupInv, SparesOwned
    <3> QED BY <1>5, <3>1, <3>2
  <2>6. CASE \/ ListVolumes(h) \/ (ReviewNext(h) /\ plan[h] = {}) \/ WorkFault(h) \/ InsertRecord(h)
             \/ CheckVolume(h) \/ MakeVolume(h) \/ MatchContainer(h) \/ RunContainer(h)
             \/ StartContainer(h) \/ WaitReady(h)
    BY <2>2, <2>6 DEF ListVolumes, ReviewNext, WorkFault, JobFails, JobDropped, InsertRecord,
       CheckVolume, MakeVolume, MatchContainer, RunContainer, StartContainer, WaitReady
  <2>7. CASE \/ ReadForDestroy(h) \/ InspectLabels(h) \/ RemoveContainer(h) \/ RemoveVolume(h)
             \/ ForgetRecord(h)
    BY <2>2, <2>7 DEF ReadForDestroy, InspectLabels, RemoveContainer, RemoveVolume, ForgetRecord,
       Destroyed
  <2>8. CASE ReadForReset(h) \/ ListLabels(h)
    <3>1. (\E r : End(h, r)) \/ \A g \in Requests : Quiet(g)
      BY <2>1, <2>8 DEF ReadForReset, ListLabels
    <3> QED BY <1>4, <2>2, <3>1 DEF CleanupInv
  <2> QED BY <1>9, <2>3, <2>4, <2>5, <2>6, <2>7, <2>8 DEF Work
<1>10. ASSUME NEW n \in Names, ContainerExits(n)
       PROVE  CleanupInv'
  <2>1. \A g \in Requests : Quiet(g)
    BY <1>10 DEF ContainerExits, clientVars, jobVars
  <2> QED BY <1>4, <2>1 DEF CleanupInv
<1>11. CASE HostRestart
  <2>1. \A g \in Requests : Quiet(g)
    BY <1>11 DEF HostRestart
  <2> QED BY <1>4, <2>1 DEF CleanupInv
<1> QED BY <1>6, <1>7, <1>8, <1>9, <1>10, <1>11 DEF Next

\* Labels stay under the names made from them.
LEMMA LabelStep ==
  ASSUME TypeOK, JobInv, LabelInv, Next
  PROVE  LabelInv'
<1> USE ConstantsAssumption DEF TypeOK, StoreTypes
<1>1. CASE UNCHANGED dockerVars
  BY <1>1 DEF LabelInv, dockerVars
<1>2. ASSUME NEW h \in Requests, Work(h) \/ WorkFault(h)
      PROVE  LabelInv'
  <2>1. CASE MakeVolume(h)
    BY <2>1 DEF MakeVolume, NameOf, LabelInv, JobInv, SessionSteps, CreateSteps
  <2>2. CASE RunContainer(h)
    BY <1>1, <2>2 DEF RunContainer, NameOf, LabelInv, JobInv, SessionSteps, CreateSteps
  <2>3. CASE StartContainer(h)
    <3>1. NameOf(h) \in Names
      BY <2>3 DEF StartContainer, NameOf, JobInv, SessionSteps, CreateSteps
    <3> QED BY <2>3, <3>1 DEF StartContainer, LabelInv, NoContainer
  <2>4. CASE RemoveContainer(h) \/ RemoveVolume(h) \/ ReviewRemove(h)
    BY <2>4 DEF RemoveContainer, RemoveVolume, ReviewRemove, LabelInv, NoContainer, dockerVars
  <2> QED
    BY <1>1, <1>2, <2>1, <2>2, <2>3, <2>4 DEF Work, WorkFault, CheckVolume, MatchContainer, WaitReady,
       InsertRecord, ReadForReset, ReadForDestroy, InspectLabels, ListLabels, ForgetRecord,
       ListContainers, ListVolumes, ReviewNext, JobFails, JobDropped
<1>3. ASSUME NEW h \in Requests, Begin(h) \/ Acquire(h) \/ Handle(h) \/ HandleFault(h)
      PROVE  UNCHANGED dockerVars
  BY <1>3 DEF Begin, BeginLocked, BeginKill, BeginCleanup, Acquire, LockGate, LockSession,
     LockCleanup, CreateLock, Handle, InsertRow, EnsureCall, DeleteCall, RowGone, EnsureDone,
     CompensationDone, RuntimeError, ResetDone, DeleteDone, KillCall, KillDone, KillMark, CleanupCall,
     CleanupDone, HandleFault, ConfigMissing, PersistFails, StoreFails, TimeOut, Disconnect
<1>4. ASSUME NEW n \in Names, ContainerExits(n)
      PROVE  LabelInv'
  BY <1>4 DEF ContainerExits, LabelInv
<1> QED BY <1>1, <1>2, <1>3, <1>4 DEF Next, HostRestart

\* A report is delivered to a handler that holds the gate; what it names has a
\* row no more.
LEMMA ReportStep ==
  ASSUME TypeOK, PcInv, LockInv, RowInv, JobInv, CleanupInv, ReportSound, Next
  PROVE  ReportSound'
<1> USE DEF TypeOK, StoreTypes
<1>1. \A s \in Sessions : row[s] = "deleted" => row'[s] = "deleted"
  BY RowsKeepHistory DEF RowInv
<1>2. CASE UNCHANGED report
  BY <1>1, <1>2 DEF ReportSound
<1>3. ASSUME NEW h \in Requests, ListVolumes(h)
      PROVE  ReportSound'
  <2>1. CASE pc[h] = "idle"
    BY <1>2, <1>3, <2>1 DEF ListVolumes
  <2>2. CASE pc[h] # "idle"
    <3>1. pc[h] \in Awaiting /\ step[h] = "l_volumes"
      BY <1>3, <2>2 DEF ListVolumes, JobInv
    <3>2. pc[h] = "await"
      BY <3>1 DEF JobInv, PcInv, Awaiting, CleanupSteps, LockedOps, CleanupOps
    <3>3. \A r \in plan[h] : row[r.owner] = "deleted"
      BY <3>1, <3>2 DEF CleanupInv, SparesOwned
    <3>4. \A r \in Resource : r.kind = "volume" /\ Exists(r) /\ r.owner \notin owned[h]
                                => row[r.owner] = "deleted"
      BY <3>1, <3>2 DEF CleanupInv, SparesOwned, Exists, HasVolume, RowInv, HostRowInv, Resource, Present
    <3>5. row' = row
      BY <1>3 DEF ListVolumes, clientVars
    <3> QED BY <1>3, <3>3, <3>4, <3>5 DEF ListVolumes, ReportSound
  <2> QED BY <2>1, <2>2
<1>4. ASSUME NEW h \in Requests, Work(h) \/ WorkFault(h)
      PROVE  UNCHANGED report \/ ListVolumes(h)
  BY <1>4 DEF Work, WorkFault, CheckVolume, MakeVolume, MatchContainer, RunContainer,
     StartContainer, WaitReady, InsertRecord, ReadForReset, ReadForDestroy, InspectLabels,
     ListLabels, RemoveContainer, RemoveVolume, ForgetRecord, ListContainers,
     ReviewNext, ReviewRemove, JobFails, JobDropped
<1>5. ASSUME NEW h \in Requests, Begin(h) \/ Acquire(h) \/ Handle(h) \/ HandleFault(h)
      PROVE  UNCHANGED report
  BY <1>5 DEF Begin, BeginLocked, BeginKill, BeginCleanup, Acquire, LockGate, LockSession,
     LockCleanup, CreateLock, Handle, InsertRow, EnsureCall, DeleteCall, RowGone, EnsureDone,
     CompensationDone, RuntimeError, ResetDone, DeleteDone, KillCall, KillDone, KillMark, CleanupCall,
     CleanupDone, HandleFault, ConfigMissing, PersistFails, StoreFails, TimeOut, Disconnect
<1> QED BY <1>2, <1>3, <1>4, <1>5 DEF Next, ContainerExits, HostRestart

\* The inductive invariant holds initially,
LEMMA InvariantInit ==
  ASSUME Init
  PROVE  IndInv
<1> USE ConstantsAssumption DEF Init
<1>1. TypeOK
  BY DEF TypeOK, HandlerTypes, JobTypes, StoreTypes, RowStatus, PcStates, Steps
<1>2. PcInv /\ LockInv
  BY DEF PcInv, LockInv, HoldsSession, HoldsGate, LockedOps, CleanupOps, Awaiting
<1>3. RowInv
  BY DEF RowInv, ClientRowInv, HostRowInv, SessionSteps, CreateSteps, DestroySteps, LockedOps
<1>4. JobInv /\ CleanupInv
  BY DEF JobInv, CleanupInv, SparesOwned, SessionSteps, CreateSteps, DestroySteps, CleanupSteps, Awaiting
<1>5. LabelInv /\ ReportSound
  BY DEF LabelInv, ReportSound
<1> QED BY <1>1, <1>2, <1>3, <1>4, <1>5 DEF IndInv

\* every step keeps it,
LEMMA InvariantStep ==
  ASSUME IndInv, [Next]_vars
  PROVE  IndInv'
<1>1. CASE Next
  BY <1>1, TypeStep, PcStep, LockStep, ClientRowStep, HostRowStep, JobStep, CleanupStep, LabelStep,
     ReportStep DEF IndInv, RowInv
<1>2. CASE UNCHANGED vars
  <2>1. TypeOK' /\ PcInv' /\ LockInv'
    BY <1>2 DEF IndInv, TypeOK, HandlerTypes, JobTypes, StoreTypes, PcInv, LockInv, HoldsSession,
       HoldsGate, vars, clientVars, lockVars, jobVars, dockerVars
  <2>2. RowInv' /\ JobInv' /\ CleanupInv'
    BY <1>2 DEF IndInv, RowInv, ClientRowInv, HostRowInv, JobInv, CleanupInv, SparesOwned, Present, vars,
       clientVars, jobVars, dockerVars
  <2>3. LabelInv' /\ ReportSound'
    BY <1>2 DEF IndInv, LabelInv, ReportSound, vars, clientVars, dockerVars
  <2> QED BY <2>1, <2>2, <2>3 DEF IndInv
<1> QED BY <1>1, <1>2

\* and so it always holds.
THEOREM Invariance == Spec => []IndInv
<1>1. Init => IndInv
  BY InvariantInit
<1>2. IndInv /\ [Next]_vars => IndInv'
  BY InvariantStep
<1> QED BY <1>1, <1>2, PTL DEF Spec

\* The variables always have their types.
THEOREM TypeCorrect == Spec => []TypeOK
<1>1. IndInv => TypeOK
  BY DEF IndInv
<1> QED BY <1>1, Invariance, PTL

\* Dry-run reports never name a session that has its row, whatever sessions are
\* created, deleted, killed or abandoned meanwhile.
THEOREM ReportsAreSound == Spec => []ReportSound
<1>1. IndInv => ReportSound
  BY DEF IndInv
<1> QED BY <1>1, Invariance, PTL

\* Jobs whose handlers hold SessionLifecycleLocks never meet on a session.
THEOREM LocksSerialiseJobs == Spec => []JobsSerialised
<1>1. IndInv => JobsSerialised
  <2> SUFFICES ASSUME IndInv, NEW g \in Requests, NEW h \in Requests, g # h, LockedJob(g), LockedJob(h)
               PROVE  subject[g] # subject[h] /\ NoSession \notin {subject[g], subject[h]}
    BY DEF JobsSerialised
  <2> USE ConstantsAssumption DEF IndInv, LockedJob
  <2>1. pc[g] \in Awaiting /\ pc[h] \in Awaiting
    BY DEF JobInv, PcInv, AllOps, LockedOps
  <2>2. ASSUME NEW r \in {g, h}, op[r] \in CleanupOps
        PROVE  gateWriter = r /\ gateReaders = {}
    BY <2>1, <2>2 DEF LockInv, HoldsGate
  <2>3. ASSUME NEW r \in {g, h}, op[r] \in LockedOps
        PROVE  /\ r \in gateReaders /\ mutex[target[r]] = r
               /\ subject[r] = target[r] /\ target[r] \in Sessions
    BY <2>1, <2>3 DEF LockInv, HoldsSession, JobInv, PcInv, LockedOps, CleanupOps
  <2> QED BY <2>2, <2>3 DEF AllOps, CleanupOps
<1> QED BY <1>1, Invariance, PTL

\* Only a removal of cleanup leaves x_remove for x_next.
LEMMA OnlyReviewRemoves ==
  ASSUME IndInv, [Next]_vars, NEW h \in Requests, step[h] = "x_remove", step'[h] = "x_next"
  PROVE  ReviewRemove(h)
<1> USE DEF IndInv, TypeOK, JobTypes
<1>1. ASSUME NEW g \in Requests, Begin(g) \/ Acquire(g)
      PROVE  step'[h] # "x_next"
  BY <1>1 DEF Begin, BeginLocked, BeginKill, BeginCleanup, Acquire, LockGate, LockSession,
     LockCleanup, CreateLock, jobVars
<1>2. ASSUME NEW g \in Requests, Handle(g) \/ HandleFault(g)
      PROVE  step'[h] # "x_next"
  <2>1. pc[h] \notin {"cleanup_list"}
    BY DEF JobInv, Awaiting
  <2> QED
    BY <1>2, <2>1 DEF Handle, HandleFault, InsertRow, EnsureCall, DeleteCall, RowGone, EnsureDone,
       CompensationDone, RuntimeError, ResetDone, DeleteDone, KillCall, KillDone, KillMark,
       CleanupCall, CleanupDone, ConfigMissing, PersistFails, StoreFails, TimeOut, Disconnect, Call,
       jobVars
<1>3. ASSUME NEW g \in Requests, Work(g) \/ WorkFault(g), ~ReviewRemove(h)
      PROVE  step'[h] # "x_next"
  BY <1>3 DEF Work, WorkFault, CheckVolume, MakeVolume, MatchContainer, RunContainer,
     StartContainer, WaitReady, InsertRecord, ReadForReset, ReadForDestroy, InspectLabels,
     ListLabels, RemoveContainer, RemoveVolume, Destroyed, ForgetRecord, ListContainers, ListVolumes,
     ReviewNext, ReviewRemove, JobFails, JobDropped, End, Goto
<1>4. ASSUME NEW n \in Names, ContainerExits(n)
      PROVE  step'[h] # "x_next"
  BY <1>4 DEF ContainerExits, jobVars
<1> QED BY <1>1, <1>2, <1>3, <1>4 DEF Next, HostRestart, vars, jobVars

\* Destructive cleanup takes the last container or volume of a deleted session
\* only, provided that no two sessions share a truncated name.
THEOREM CleanupSparesOwnedSessions ==
  ASSUME \A s, t \in Sessions : ShortName[s] = ShortName[t] => s = t
  PROVE  Spec => CleanupSparesOwned
<1>1. ASSUME IndInv, [Next]_vars, NEW h \in Requests, NEW s \in Sessions,
             step[h] = "x_remove", step'[h] = "x_next",
             \/ HasContainer(s) /\ ~HasContainer(s)'
             \/ HasVolume(s) /\ ~HasVolume(s)'
      PROVE  row[s] = "deleted"
  <2>0. ReviewRemove(h)
    BY <1>1, OnlyReviewRemoves
  <2>1. pick[h] \in Resource /\ row[pick[h].owner] = "deleted"
    BY <1>1, <2>0 DEF IndInv, CleanupInv, SparesOwned, ReviewRemove
  <2>2. pick[h].owner \in Sessions
    BY <2>1 DEF Resource
  <2>3. \E n \in Names : /\ n = ShortName[s]
                         /\ cont'[n] # cont[n] \/ vol'[n] # vol[n]
    BY <1>1 DEF HasContainer, HasVolume, IndInv, LabelInv, NoContainer
  <2>4. \A n \in Names : n # ShortName[pick[h].owner] => cont'[n] = cont[n] /\ vol'[n] = vol[n]
    BY <1>1, <2>0 DEF ReviewRemove, IndInv, TypeOK, StoreTypes, dockerVars
  <2> QED BY <2>1, <2>2, <2>3, <2>4
<1>2. IndInv /\ [Next]_vars =>
        [\A h \in Requests, s \in Sessions :
           /\ step[h] = "x_remove" /\ step'[h] = "x_next"
           /\ \/ HasContainer(s) /\ ~HasContainer(s)'
              \/ HasVolume(s) /\ ~HasVolume(s)'
           => row[s] = "deleted"]_vars
  BY <1>1
<1> QED BY <1>2, Invariance, PTL DEF Spec, CleanupSparesOwned

----------------------------------------------------------------------------
(* What holds as long as no handler gives up on its job and no kernel is   *)
(* killed without the lock, for every assignment of truncated names.  The  *)
(* steps are those of Next; AttendedInv adds where the job of each request *)
(* is with its session's volume and record.                                *)

\* handlers wait for their jobs, and none goes without the lock
Attended == "kill" \notin Ops /\ "giveup" \notin FaultKinds

\* the steps of a job between finding its session's volume and removing it
WithVolume == {"c_container", "c_replace", "c_run", "c_start", "c_ready", "c_insert",
               "d_inspect", "d_container", "d_volume", "i_container", "i_volume"}

\* every job has a handler that waits for it, and cleanup finds nothing to remove
WaitedFor(h) ==
  /\ op[h] # "kill"
  /\ step[h] # "none" => pc[h] \in Awaiting
  /\ step[h] # "x_remove"
  /\ op[h] = "delete" /\ step[h] # "none" => step[h] \in DestroySteps /\ kind[h] = "destroy"

\* where a job is says whether its session's volume and record are there
InPlace(h) ==
  /\ step[h] \in WithVolume => vol[NameOf(h)] = subject[h]
  /\ step[h] = "d_forget" => vol[NameOf(h)] # subject[h]
  /\ step[h] \in {"d_list", "i_container", "i_volume"} => reg[subject[h]] = "none"
  /\ step[h] \in {"i_container", "i_volume"} => [kind |-> "volume", owner |-> subject[h]] \in plan[h]
  /\ op[h] = "delete" /\ reply[h] \in {"ok", "not_found"} => vol[ShortName[target[h]]] # target[h]

\* a record stands for a workspace until a job has removed the one and not yet the other
Recorded(s) ==
  reg[s] # "none" => \/ vol[ShortName[s]] = s
                     \/ \E h \in Requests : step[h] = "d_forget" /\ subject[h] = s

\* a container has the volume of its session, a volume a session that has its row
Mounted(n) ==
  /\ cont[n] # NoContainer => vol[n] = cont[n].owner
  /\ vol[n] # NoSession
  /\ vol[n] \in Sessions => Present(vol[n])

AttendedInv ==
  /\ \A h \in Requests : WaitedFor(h) /\ InPlace(h)
  /\ \A s \in Sessions : Recorded(s)
  /\ \A n \in Names : Mounted(n)

\* what a step may leave alone: a request, and a session's volume and record
Same(g) == UNCHANGED <<op[g], target[g], pc[g], kind[g], subject[g], step[g], plan[g], reply[g]>>
Untouched(t) == /\ vol'[ShortName[t]] = t <=> vol[ShortName[t]] = t
                /\ reg'[t] = reg[t]

\* A job on a session, and an answered delete of it, hold its mutex and its row.
LEMMA JobsHoldMutex ==
  ASSUME IndInv, AttendedInv, NEW h \in Requests
  PROVE  /\ step[h] \in SessionSteps =>
              /\ subject[h] \in Sessions /\ mutex[subject[h]] = h /\ Present(subject[h])
              /\ target[h] = subject[h] /\ op[h] \in LockedOps /\ pc[h] \in Awaiting
         /\ op[h] = "delete" /\ reply[h] # "none" => target[h] \in Sessions /\ mutex[target[h]] = h
<1> USE DEF IndInv, AttendedInv
<1>1. ASSUME step[h] \in SessionSteps
      PROVE  /\ subject[h] \in Sessions /\ target[h] = subject[h]
             /\ op[h] \in LockedOps /\ pc[h] \in Awaiting
  <2>1. step[h] # "none" /\ step[h] \notin CleanupSteps
    BY <1>1 DEF SessionSteps, CreateSteps, DestroySteps, CleanupSteps
  <2>2. pc[h] \in Awaiting /\ op[h] # "kill"
    BY <2>1 DEF WaitedFor
  <2>3. op[h] \notin CleanupOps /\ subject[h] = target[h] /\ subject[h] \in Sessions
    BY <1>1, <2>1, <2>2 DEF JobInv
  <2>4. op[h] \in LockedOps
    BY <2>2, <2>3, ConstantsAssumption DEF PcInv, LockedOps
  <2> QED BY <2>2, <2>3, <2>4
<1>2. ASSUME op[h] = "delete", reply[h] # "none"
      PROVE  pc[h] \in Awaiting
  BY <1>2 DEF JobInv
<1>3. op[h] \in LockedOps /\ pc[h] \in Awaiting => mutex[target[h]] = h /\ Present(target[h])
  BY DEF LockInv, HoldsSession, RowInv, ClientRowInv
<1>4. op[h] \in LockedOps => target[h] \in Sessions
  BY DEF PcInv
<1> QED BY <1>1, <1>2, <1>3, <1>4 DEF LockedOps

\* A request that a step leaves alone stays in place when the step leaves alone the
\* session whose mutex it has.
LEMMA SameStays ==
  ASSUME IndInv, AttendedInv, NEW g \in Requests, Same(g),
         \A t \in Sessions : mutex[t] = g => Untouched(t)
  PROVE  WaitedFor(g)' /\ InPlace(g)'
<1>1. WaitedFor(g)'
  BY DEF AttendedInv, WaitedFor, Same
<1>2. step[g] \in WithVolume \cup {"d_forget", "d_list"} => subject[g] \in Sessions /\ Untouched(subject[g])
  BY JobsHoldMutex DEF WithVolume, SessionSteps, CreateSteps, DestroySteps
<1>3. op[g] = "delete" /\ reply[g] # "none" => target[g] \in Sessions /\ Untouched(target[g])
  BY JobsHoldMutex
<1>4. InPlace(g)'
  BY <1>2, <1>3 DEF AttendedInv, InPlace, Same, Untouched, NameOf, WithVolume
<1> QED BY <1>1, <1>4

\* Handlers leave agent_host's records and Docker alone, and start jobs from the beginning.
LEMMA HandlersLeaveHost ==
  ASSUME TypeOK, NEW h \in Requests, Begin(h) \/ Acquire(h) \/ Handle(h) \/ HandleFault(h)
  PROVE  UNCHANGED <<reg, cont, vol>> /\ \A g \in Requests \ {h} : Same(g)
<1> USE DEF TypeOK, HandlerTypes, JobTypes, Same
<1>1. CASE Begin(h)
  BY <1>1 DEF Begin, BeginLocked, BeginKill, BeginCleanup, jobVars, dockerVars
<1>2. CASE Acquire(h)
  BY <1>2 DEF Acquire, LockGate, LockSession, LockCleanup, CreateLock, clientVars, jobVars, dockerVars
<1>3. ASSUME NEW k, NEW s, NEW st, NEW rec, NEW own, NEW pl, NEW w, Call(h, k, s, st, rec, own, pl, w),
             UNCHANGED <<op, target>>, reply' = reply \/ TakeReply(h)
      PROVE  \A g \in Requests \ {h} : Same(g)
  BY <1>3 DEF Call, TakeReply
<1>4. ASSUME Return(h), UNCHANGED jobVars, reply' = reply \/ TakeReply(h)
      PROVE  \A g \in Requests \ {h} : Same(g)
  BY <1>4 DEF Return, TakeReply, jobVars
<1>5. CASE InsertRow(h) \/ EnsureCall(h) \/ DeleteCall(h) \/ KillCall(h) \/ PersistFails(h)
  BY <1>3, <1>5 DEF InsertRow, EnsureCall, DeleteCall, KillCall, PersistFails, dockerVars
<1>6. CASE EnsureDone(h) \/ CleanupCall(h)
  BY <1>3, <1>4, <1>6 DEF EnsureDone, CleanupCall, dockerVars
<1>7. CASE KillDone(h)
  BY <1>4, <1>7 DEF KillDone, TakeReply, jobVars, dockerVars
<1>8. CASE \/ RowGone(h) \/ CompensationDone(h) \/ RuntimeError(h) \/ ResetDone(h) \/ DeleteDone(h)
           \/ KillMark(h) \/ CleanupDone(h) \/ ConfigMissing(h) \/ StoreFails(h) \/ TimeOut(h)
           \/ Disconnect(h)
  BY <1>4, <1>8 DEF RowGone, CompensationDone, RuntimeError, ResetDone, DeleteDone, KillMark,
     CleanupDone, ConfigMissing, StoreFails, TimeOut, Disconnect, dockerVars
<1> QED BY <1>1, <1>2, <1>5, <1>6, <1>7, <1>8 DEF Handle, HandleFault

\* A handler that moves waits for its job or has none.
LEMMA HandlersStayInPlace ==
  ASSUME IndInv, AttendedInv, Attended, NEW h \in Requests,
         Begin(h) \/ Acquire(h) \/ Handle(h) \/ HandleFault(h)
  PROVE  /\ WaitedFor(h)' /\ InPlace(h)'
         /\ step[h] # "d_forget"
<1> USE DEF IndInv, TypeOK, HandlerTypes, JobTypes
<1>1. WaitedFor(h)
  BY DEF AttendedInv
<1>2. ASSUME op'[h] # "kill", step'[h] = "none", reply'[h] = "none"
      PROVE  WaitedFor(h)' /\ InPlace(h)'
  BY <1>2 DEF WaitedFor, InPlace, WithVolume
<1>3. ASSUME op'[h] # "kill", pc'[h] \in Awaiting, reply'[h] = "none",
             step'[h] \in {"c_lock", "c_volume", "r_read", "d_read", "l_containers", "x_next"},
             op'[h] = "delete" => step'[h] = "d_read" /\ kind'[h] = "destroy"
      PROVE  WaitedFor(h)' /\ InPlace(h)'
  BY <1>3 DEF WaitedFor, InPlace, WithVolume, DestroySteps
<1>4. /\ pc[h] \notin Awaiting => step[h] = "none" /\ reply[h] = "none"
      /\ reply[h] # "none" => step[h] = "none"
  BY <1>1 DEF JobInv, WaitedFor
<1>5. CASE Begin(h)
  BY <1>2, <1>5 DEF Begin, BeginLocked, BeginKill, BeginCleanup, Free, Attended, LockedOps, jobVars
<1>6. CASE LockGate(h) \/ LockSession(h) \/ LockCleanup(h)
  BY <1>1, <1>2, <1>4, <1>6 DEF LockGate, LockSession, LockCleanup, WaitedFor, Awaiting, jobVars
<1>7. CASE CreateLock(h)
  BY <1>1, <1>3, <1>4, <1>7 DEF CreateLock, WaitedFor, DestroySteps, clientVars
<1>8. ASSUME Return(h), UNCHANGED jobVars, reply' = reply \/ TakeReply(h),
             pc[h] \notin Awaiting \/ (reply[h] # "none" /\ TakeReply(h))
      PROVE  /\ WaitedFor(h)' /\ InPlace(h)'
             /\ step[h] # "d_forget"
  BY <1>2, <1>4, <1>8 DEF Return, TakeReply, jobVars
<1>9. op[h] # "kill" /\ pc[h] \notin {"kill_call", "kill_mark"}
  BY <1>1 DEF WaitedFor, PcInv
<1>10. ~TimeOut(h) /\ ~Disconnect(h)
  BY DEF TimeOut, Disconnect, Fault, Attended
<1>11. CASE InsertRow(h) \/ EnsureCall(h) \/ DeleteCall(h)
  BY <1>3, <1>4, <1>9, <1>11 DEF InsertRow, EnsureCall, DeleteCall, Call, Awaiting
<1>12. CASE PersistFails(h)
  BY <1>3, <1>4, <1>9, <1>12 DEF PersistFails, TakeReply, Call, Awaiting
<1>13. CASE EnsureDone(h)
  BY <1>3, <1>4, <1>8, <1>9, <1>13 DEF EnsureDone, TakeReply, Call, Awaiting
<1>14. CASE CleanupCall(h)
  BY <1>3, <1>4, <1>9, <1>14 DEF CleanupCall, Call, Awaiting, PcInv, CleanupOps
<1>15. CASE \/ RowGone(h) \/ CompensationDone(h) \/ RuntimeError(h) \/ ResetDone(h) \/ DeleteDone(h)
            \/ CleanupDone(h) \/ ConfigMissing(h) \/ StoreFails(h)
  BY <1>8, <1>9, <1>15 DEF RowGone, CompensationDone, RuntimeError, ResetDone, DeleteDone,
     CleanupDone, ConfigMissing, StoreFails, Awaiting
<1>16. ~KillCall(h) /\ ~KillDone(h) /\ ~KillMark(h)
  BY <1>9 DEF KillCall, KillDone, KillMark
<1> QED
  BY <1>5, <1>6, <1>7, <1>10, <1>11, <1>12, <1>13, <1>14, <1>15, <1>16
     DEF Acquire, Handle, HandleFault, Begin, BeginLocked, BeginKill, BeginCleanup, Free

\* A row is deleted only when the session's volume is gone.
LEMMA DeletedHaveNoVolume ==
  ASSUME IndInv, AttendedInv, Attended, NEW h \in Requests,
         Begin(h) \/ Acquire(h) \/ Handle(h) \/ HandleFault(h),
         NEW s \in Sessions, vol[ShortName[s]] = s, Present(s)
  PROVE  Present(s)'
<1> USE DEF IndInv, TypeOK, StoreTypes
<1>1. CASE UNCHANGED row
  BY <1>1 DEF Present
<1>2. ASSUME NEW v \in RowStatus \ {"never", "deleted"}, row' = [row EXCEPT ![target[h]] = v]
      PROVE  Present(s)'
  BY <1>2 DEF Present
<1>3. CASE DeleteDone(h)
  <2>1. reply[h] # "err" => target[h] # s
    BY <1>3 DEF DeleteDone, AttendedInv, InPlace, JobTypes
  <2> QED BY <1>3, <2>1 DEF DeleteDone, Present
<1>4. CASE Begin(h) \/ Acquire(h)
  BY <1>1, <1>4 DEF Begin, BeginLocked, BeginKill, BeginCleanup, Acquire, LockGate, LockSession,
     LockCleanup, CreateLock, clientVars
<1>5. CASE \/ InsertRow(h) \/ EnsureDone(h) \/ RuntimeError(h) \/ ResetDone(h) \/ ConfigMissing(h)
           \/ KillMark(h) \/ TimeOut(h)
  BY <1>1, <1>2, <1>5 DEF InsertRow, EnsureDone, RuntimeError, ResetDone, ConfigMissing, KillMark,
     TimeOut, RowStatus
<1> QED
  BY <1>1, <1>3, <1>4, <1>5 DEF Handle, HandleFault, EnsureCall, DeleteCall, RowGone,
     CompensationDone, KillCall, KillDone, CleanupCall, CleanupDone, PersistFails, StoreFails, Disconnect

\* Steps of client_service keep the invariant.
LEMMA HandlersKeepAttended ==
  ASSUME IndInv, AttendedInv, Attended, NEW h \in Requests,
         Begin(h) \/ Acquire(h) \/ Handle(h) \/ HandleFault(h)
  PROVE  AttendedInv'
<1>1. UNCHANGED <<reg, cont, vol>> /\ \A g \in Requests \ {h} : Same(g)
  BY HandlersLeaveHost DEF IndInv
<1>2. WaitedFor(h)' /\ InPlace(h)' /\ step[h] # "d_forget"
  BY HandlersStayInPlace
<1>3. \A g \in Requests \ {h} : WaitedFor(g)' /\ InPlace(g)'
  BY <1>1, SameStays DEF Untouched
<1>4. \A s \in Sessions : Recorded(s)'
  BY <1>1, <1>2 DEF AttendedInv, Recorded, Same
<1>5. \A n \in Names : Mounted(n)'
  <2> SUFFICES ASSUME NEW n \in Names PROVE Mounted(n)'
    OBVIOUS
  <2>1. Mounted(n)
    BY DEF AttendedInv
  <2>2. vol[n] \in Sessions => vol[ShortName[vol[n]]] = vol[n]
    BY DEF IndInv, LabelInv
  <2>3. vol[n] \in Sessions => row'[vol[n]] \notin {"never", "deleted"}
    BY <2>1, <2>2, DeletedHaveNoVolume DEF Mounted, Present
  <2> QED BY <1>1, <2>1, <2>3 DEF Mounted, Present
<1> QED BY <1>2, <1>3, <1>4, <1>5 DEF AttendedInv

\* A job changes the volume and the record of its own session only.
LEMMA JobsLeaveOthers ==
  ASSUME IndInv, AttendedInv, NEW h \in Requests, Work(h) \/ WorkFault(h)
  PROVE  /\ UNCHANGED <<clientVars, lockVars>>
         /\ \A g \in Requests \ {h} : Same(g)
         /\ \A t \in Sessions : step[h] \notin SessionSteps \/ subject[h] # t => Untouched(t)
<1> USE ConstantsAssumption DEF IndInv, TypeOK
<1>1. UNCHANGED <<clientVars, lockVars>>
  BY OthersLeaveClient
<1>2. \A g \in Requests \ {h} : Same(g)
  <2>1. UNCHANGED <<op, target, pc>>
    BY <1>1 DEF clientVars
  <2>2. \A g \in Requests \ {h} : UNCHANGED <<kind[g], subject[g], step[g], plan[g], reply[g]>>
    BY DEF JobTypes, Work, WorkFault, CheckVolume, MakeVolume, MatchContainer, RunContainer,
       StartContainer, WaitReady, InsertRecord, ReadForReset, ReadForDestroy, InspectLabels,
       ListLabels, RemoveContainer, RemoveVolume, Destroyed, ForgetRecord, ListContainers, ListVolumes,
       ReviewNext, ReviewRemove, JobFails, JobDropped, End, Goto
  <2> QED BY <2>1, <2>2 DEF Same
<1>3. ASSUME NEW t \in Sessions, step[h] \notin SessionSteps \/ subject[h] # t
      PROVE  Untouched(t)
  <2>1. step[h] \in SessionSteps => subject[h] # t /\ subject[h] \in Sessions
    BY <1>3, JobsHoldMutex
  <2>2. CASE UNCHANGED <<reg, vol>>
    BY <2>2 DEF Untouched
  <2>3. ASSUME step[h] \in SessionSteps, UNCHANGED reg,
               \A n \in Names : vol'[n] = vol[n]
                                  \/ (vol[n] \in {NoVolume, subject[h]} /\ vol'[n] \in {NoVolume, subject[h]})
        PROVE  Untouched(t)
    <3>1. ShortName[t] \in Names
      OBVIOUS
    <3> QED BY <2>1, <2>3, <3>1 DEF Untouched
  <2>4. CASE MakeVolume(h)
    BY <2>3, <2>4 DEF MakeVolume, StoreTypes, SessionSteps, CreateSteps
  <2>5. step[h] \in WithVolume => vol[NameOf(h)] = subject[h]
    BY DEF AttendedInv, InPlace
  <2>6. CASE RunContainer(h)
    <3>1. vol' = vol
      BY <2>1, <2>5, <2>6 DEF RunContainer, WithVolume, SessionSteps, CreateSteps, dockerVars
    <3> QED BY <2>2, <2>6, <3>1 DEF RunContainer
  <2>7. CASE RemoveVolume(h)
    BY <2>3, <2>5, <2>7 DEF RemoveVolume, StoreTypes, WithVolume, SessionSteps, DestroySteps
  <2>8. CASE InsertRecord(h) \/ ForgetRecord(h)
    BY <2>1, <2>8 DEF InsertRecord, ForgetRecord, Untouched, StoreTypes, SessionSteps, CreateSteps,
       DestroySteps, dockerVars
  <2>9. ~ReviewRemove(h)
    BY DEF AttendedInv, WaitedFor, ReviewRemove
  <2> QED
    BY <2>2, <2>4, <2>6, <2>7, <2>8, <2>9 DEF Work, WorkFault, CheckVolume, MatchContainer,
       StartContainer, WaitReady, ReadForReset, ReadForDestroy, InspectLabels, ListLabels,
       RemoveContainer, ListContainers, ListVolumes, ReviewNext, JobFails, JobDropped, dockerVars
<1> QED BY <1>1, <1>2, <1>3

\* What a job on a session may rely on: the record says that the volume is there,
\* unless the job itself has just removed it.
LEMMA OwnRecord ==
  ASSUME IndInv, AttendedInv, NEW h \in Requests, step[h] \in SessionSteps, reg[subject[h]] # "none"
  PROVE  vol[NameOf(h)] = subject[h] \/ step[h] = "d_forget"
<1>1. subject[h] \in Sessions /\ mutex[subject[h]] = h
  BY JobsHoldMutex
<1>2. \A g \in Requests : step[g] = "d_forget" => mutex[subject[g]] = g
  BY JobsHoldMutex DEF SessionSteps, DestroySteps
<1> QED BY <1>1, <1>2 DEF AttendedInv, Recorded, NameOf

\* A job that ends leaves its handler with the answer.
LEMMA EndStays ==
  ASSUME IndInv, AttendedInv, NEW h \in Requests, step[h] # "none", UNCHANGED <<op, target, pc>>, NEW r,
         End(h, r),
         op[h] = "delete" /\ r \in {"ok", "not_found"} => vol'[ShortName[target[h]]] # target[h]
  PROVE  WaitedFor(h)' /\ InPlace(h)'
<1> USE DEF IndInv, TypeOK, HandlerTypes, JobTypes
<1>1. WaitedFor(h) /\ pc[h] # "idle"
  BY DEF AttendedInv, WaitedFor, Awaiting
<1>2. step'[h] = "none" /\ reply'[h] = r /\ op'[h] = op[h] /\ target'[h] = target[h]
  BY <1>1 DEF End
<1>3. WaitedFor(h)'
  BY <1>1, <1>2 DEF WaitedFor
<1>4. InPlace(h)'
  BY <1>2 DEF InPlace, WithVolume
<1> QED BY <1>3, <1>4

\* A job that goes on is in place when its next step is.
LEMMA GotoStays ==
  ASSUME IndInv, AttendedInv, NEW h \in Requests, step[h] # "none", UNCHANGED <<op, target, pc>>,
         NEW st \in Steps \ {"none", "x_remove"},
         step' = [step EXCEPT ![h] = st], UNCHANGED <<kind, subject, reply>>,
         st \in WithVolume => vol'[NameOf(h)] = subject[h],
         st = "d_forget" => vol'[NameOf(h)] # subject[h],
         st \in {"d_list", "i_container", "i_volume"} => reg'[subject[h]] = "none",
         st \in {"i_container", "i_volume"} => [kind |-> "volume", owner |-> subject[h]] \in plan'[h],
         op[h] = "delete" => st \in DestroySteps
  PROVE  WaitedFor(h)' /\ InPlace(h)'
<1> USE DEF IndInv, TypeOK, HandlerTypes, JobTypes
<1>1. WaitedFor(h)
  BY DEF AttendedInv
<1>2. step'[h] = st /\ reply'[h] = "none"
  BY DEF JobInv
<1>3. WaitedFor(h)'
  BY <1>1, <1>2 DEF WaitedFor
<1>4. InPlace(h)'
  BY <1>2 DEF InPlace, NameOf
<1> QED BY <1>3, <1>4

\* A step of a job on a session leads to a step that is in place.
LEMMA JobsStayInPlace ==
  ASSUME IndInv, AttendedInv, NEW h \in Requests, Work(h) \/ WorkFault(h)
  PROVE  WaitedFor(h)' /\ InPlace(h)'
<1> USE ConstantsAssumption DEF Steps
<1>1. /\ TypeOK /\ WaitedFor(h) /\ InPlace(h) /\ UNCHANGED <<op, target, pc>>
  BY JobsLeaveOthers DEF IndInv, AttendedInv, clientVars
<1>2. step[h] \in SessionSteps => subject[h] \in Sessions /\ target[h] = subject[h]
  BY JobsHoldMutex
<1>3. op[h] = "delete" => step[h] \in DestroySteps \cup {"none"}
  BY <1>1 DEF WaitedFor
<1>4. ASSUME NEW r, step[h] # "none", End(h, r), r = "err" \/ step[h] \notin DestroySteps
      PROVE  WaitedFor(h)' /\ InPlace(h)'
  BY <1>1, <1>3, <1>4, EndStays
<1>5. ASSUME step[h] \in CreateSteps, NEW st \in CreateSteps, Goto(h, st),
             st \in WithVolume => vol'[NameOf(h)] = subject[h]
      PROVE  WaitedFor(h)' /\ InPlace(h)'
  BY <1>1, <1>3, <1>5, GotoStays DEF Goto, CreateSteps, DestroySteps
<1>6. CASE CheckVolume(h)
  BY <1>1, <1>4, <1>5, <1>6 DEF CheckVolume, CreateSteps, DestroySteps, WithVolume, dockerVars
<1>7. CASE MakeVolume(h)
  <2>1. NameOf(h) \in Names
    BY <1>2, <1>7 DEF MakeVolume, NameOf, SessionSteps, CreateSteps
  <2> QED BY <1>1, <1>4, <1>5, <1>7, <2>1 DEF MakeVolume, CreateSteps, DestroySteps, TypeOK, StoreTypes
<1>8. CASE MatchContainer(h)
  BY <1>1, <1>4, <1>5, <1>8 DEF MatchContainer, InPlace, CreateSteps, DestroySteps, WithVolume, dockerVars
<1>9. CASE RunContainer(h)
  <2>1. vol[NameOf(h)] = subject[h] /\ vol[NameOf(h)] # NoVolume
    BY <1>1, <1>2, <1>9 DEF RunContainer, InPlace, WithVolume, SessionSteps, CreateSteps
  <2>2. vol' = vol
    BY <1>9, <2>1 DEF RunContainer, dockerVars
  <2> QED BY <1>4, <1>5, <1>9, <2>1, <2>2 DEF RunContainer, CreateSteps, DestroySteps
<1>10. CASE StartContainer(h)
  BY <1>1, <1>4, <1>5, <1>10 DEF StartContainer, InPlace, CreateSteps, DestroySteps, WithVolume
<1>11. CASE WaitReady(h)
  BY <1>1, <1>4, <1>5, <1>11 DEF WaitReady, InPlace, CreateSteps, DestroySteps, WithVolume, dockerVars
<1>12. CASE InsertRecord(h)
  BY <1>4, <1>12 DEF InsertRecord, DestroySteps
<1>13. CASE ReadForReset(h)
  <2>1. op[h] # "delete"
    BY <1>3, <1>13 DEF ReadForReset, DestroySteps
  <2>2. CASE reg[subject[h]] = "none"
    BY <1>4, <1>13, <2>2 DEF ReadForReset, DestroySteps
  <2>3. CASE reg[subject[h]] # "none"
    BY <1>1, <1>13, <2>1, <2>3, GotoStays DEF ReadForReset, WithVolume, DestroySteps
  <2> QED BY <2>2, <2>3
<1>14. ASSUME step[h] \in DestroySteps, NEW st \in DestroySteps, Goto(h, st),
              st \in WithVolume => vol'[NameOf(h)] = subject[h],
              st = "d_forget" => vol'[NameOf(h)] # subject[h],
              st \in {"d_list", "i_container", "i_volume"} => reg'[subject[h]] = "none",
              st \in {"i_container", "i_volume"} => [kind |-> "volume", owner |-> subject[h]] \in plan[h]
       PROVE  WaitedFor(h)' /\ InPlace(h)'
  BY <1>1, <1>14, GotoStays DEF Goto, DestroySteps
<1>15. CASE ReadForDestroy(h)
  <2>1. reg[subject[h]] # "none" => vol[NameOf(h)] = subject[h]
    BY <1>15, OwnRecord DEF ReadForDestroy, SessionSteps, DestroySteps
  <2>2. CASE reg[subject[h]] = "none"
    BY <1>14, <1>15, <2>2 DEF ReadForDestroy, WithVolume, DestroySteps, dockerVars
  <2>3. CASE reg[subject[h]] # "none"
    BY <1>14, <1>15, <2>1, <2>3 DEF ReadForDestroy, DestroySteps, dockerVars
  <2> QED BY <2>2, <2>3
<1>16. CASE InspectLabels(h)
  <2>1. vol[NameOf(h)] = subject[h]
    BY <1>1, <1>16 DEF InspectLabels, InPlace, WithVolume
  <2>2. vol' = vol /\ step[h] = "d_inspect" /\ (End(h, "err") \/ Goto(h, "d_container"))
    BY <1>16 DEF InspectLabels, dockerVars
  <2> QED BY <1>4, <1>14, <2>1, <2>2 DEF DestroySteps
<1>17. CASE ListLabels(h)
  <2>1. subject[h] \in Sessions /\ ShortName[subject[h]] \in Names /\ step[h] = "d_list"
    BY <1>2, <1>17 DEF ListLabels, SessionSteps, DestroySteps
  <2> DEFINE found == {r \in Resource : r.owner = subject[h] /\ Exists(r)}
             v == [kind |-> "volume", owner |-> subject[h]]
             c == [kind |-> "container", owner |-> subject[h]]
  <2>2. v \in Resource /\ v.kind = "volume" /\ v.owner = subject[h]
    BY <2>1 DEF Resource
  <2>3. HasContainer(subject[h]) => HasVolume(subject[h])
    BY DEF AttendedInv, Mounted, HasContainer, HasVolume, NoContainer
  <2>4. HasVolume(subject[h]) => vol[NameOf(h)] = subject[h]
    BY <2>1 DEF IndInv, LabelInv, HasVolume, NameOf
  <2>5. found # {} => HasVolume(subject[h])
    BY <2>3 DEF Exists
  <2>6. HasVolume(subject[h]) => v \in found
    BY <2>2 DEF Exists
  <2>7. CASE found = {}
    <3>1. vol[NameOf(h)] # subject[h]
      BY <2>1, <2>6, <2>7 DEF HasVolume, NameOf
    <3>2. End(h, "not_found") /\ vol' = vol
      BY <1>17, <2>7 DEF ListLabels, dockerVars
    <3> QED BY <1>1, <1>2, <2>1, <3>1, <3>2, EndStays DEF NameOf, SessionSteps, DestroySteps
  <2>8. CASE found # {}
    <3>1. /\ plan' = [plan EXCEPT ![h] = found] /\ step' = [step EXCEPT ![h] = "i_container"]
          /\ UNCHANGED <<kind, subject, reply, reg, vol>>
      BY <1>17, <2>8 DEF ListLabels, dockerVars
    <3>2. v \in plan'[h]
      BY <1>1, <2>5, <2>6, <2>8, <3>1 DEF TypeOK, JobTypes
    <3>3. reg[subject[h]] = "none" /\ vol[NameOf(h)] = subject[h]
      BY <1>1, <2>1, <2>4, <2>5, <2>8 DEF InPlace
    <3> HIDE DEF found, v
    <3>4. "i_container" \in Steps \ {"none", "x_remove"} /\ "i_container" \in DestroySteps
      BY DEF DestroySteps
    <3> QED BY <1>1, <2>1, <3>1, <3>2, <3>3, <3>4, GotoStays DEF v
  <2> QED BY <2>7, <2>8
<1>18. CASE RemoveContainer(h)
  <2>1. vol' = vol /\ vol[NameOf(h)] = subject[h]
    BY <1>1, <1>18 DEF RemoveContainer, InPlace, WithVolume
  <2>2. CASE step[h] = "c_replace"
    BY <1>5, <1>18, <2>1, <2>2 DEF RemoveContainer, CreateSteps
  <2>3. CASE step[h] = "d_container"
    BY <1>14, <1>18, <2>1, <2>3 DEF RemoveContainer, DestroySteps
  <2>4. CASE step[h] = "i_container"
    <3>1. reg'[subject[h]] = "none" /\ [kind |-> "volume", owner |-> subject[h]] \in plan[h]
      BY <1>1, <1>18, <2>4 DEF RemoveContainer, InPlace
    <3> QED BY <1>14, <1>18, <2>1, <2>4, <3>1 DEF RemoveContainer, DestroySteps
  <2> QED BY <1>18, <2>2, <2>3, <2>4 DEF RemoveContainer
<1>19. ASSUME step[h] \in DestroySteps, Destroyed(h), vol'[NameOf(h)] # subject[h]
       PROVE  WaitedFor(h)' /\ InPlace(h)'
  <2>1. step[h] # "none" /\ step[h] \in SessionSteps
    BY <1>19 DEF SessionSteps, DestroySteps
  <2>2. CASE kind[h] = "reset"
    <3>1. op[h] # "delete" /\ Goto(h, "c_lock")
      BY <1>1, <1>19, <2>1, <2>2 DEF WaitedFor, Destroyed
    <3> QED BY <1>1, <2>1, <3>1, GotoStays DEF Goto, WithVolume
  <2>3. CASE kind[h] # "reset"
    BY <1>1, <1>2, <1>19, <2>1, <2>3, EndStays DEF Destroyed, NameOf
  <2> QED BY <2>2, <2>3
<1>20. CASE RemoveVolume(h)
  <2>1. /\ step[h] \in {"d_volume", "i_volume"} /\ vol[NameOf(h)] = subject[h]
        /\ step[h] = "i_volume" => [kind |-> "volume", owner |-> subject[h]] \in plan[h]
    BY <1>1, <1>20 DEF RemoveVolume, InPlace, WithVolume
  <2>2. subject[h] \in Sessions /\ NameOf(h) \in Names
    BY <1>2, <2>1 DEF SessionSteps, DestroySteps, NameOf
  <2>3. CASE End(h, "err")
    BY <1>4, <2>1, <2>3
  <2>4. CASE /\ vol' = [vol EXCEPT ![NameOf(h)] = NoVolume]
             /\ IF step[h] = "i_volume" THEN Destroyed(h) ELSE Goto(h, "d_forget")
    <3>1. vol'[NameOf(h)] # subject[h]
      BY <1>1, <2>2, <2>4 DEF TypeOK, StoreTypes
    <3>2. CASE step[h] = "i_volume"
      BY <1>19, <2>4, <3>1, <3>2 DEF DestroySteps
    <3>3. CASE step[h] = "d_volume"
      BY <1>14, <2>4, <3>1, <3>3 DEF DestroySteps, WithVolume
    <3> QED BY <2>1, <3>2, <3>3
  <2> QED BY <1>20, <2>1, <2>3, <2>4 DEF RemoveVolume
<1>21. CASE ForgetRecord(h)
  <2>1. vol'[NameOf(h)] # subject[h]
    BY <1>1, <1>21 DEF ForgetRecord, InPlace, dockerVars
  <2> QED BY <1>19, <1>21, <2>1 DEF ForgetRecord, DestroySteps
<1>22. CASE ListContainers(h)
  <2>1. op[h] # "delete"
    BY <1>3, <1>22 DEF ListContainers, DestroySteps
  <2> QED BY <1>1, <1>22, <2>1, GotoStays DEF ListContainers, WithVolume, CleanupSteps
<1>23. CASE ListVolumes(h)
  BY <1>4, <1>23 DEF ListVolumes, DestroySteps
<1>24. CASE ReviewNext(h)
  <2>1. op[h] # "delete"
    BY <1>3, <1>24 DEF ReviewNext, DestroySteps
  <2>2. CASE plan[h] = {}
    BY <1>4, <1>24, <2>2 DEF ReviewNext, DestroySteps
  <2>3. CASE plan[h] # {}
    <3>1. \A r \in plan[h] : r.owner \in Sessions /\ (Exists(r) => Present(r.owner))
      BY <1>1 DEF TypeOK, JobTypes, Resource, Exists, HasContainer, HasVolume, AttendedInv, Mounted,
         NoContainer
    <3>2. \A r \in plan[h] : r.owner \in owned[h] \/ row[r.owner] = "deleted"
      BY <1>24 DEF ReviewNext, IndInv, CleanupInv, SparesOwned
    <3>3. UNCHANGED <<step, kind, subject, reply>>
      BY <1>24, <2>3, <3>1, <3>2 DEF ReviewNext, Present
    <3>4. step' = [step EXCEPT ![h] = "x_next"]
      BY <1>1, <1>24, <3>3 DEF ReviewNext, TypeOK, JobTypes
    <3> QED BY <1>1, <1>24, <2>1, <3>3, <3>4, GotoStays DEF ReviewNext, WithVolume, CleanupSteps
  <2> QED BY <2>2, <2>3
<1>25. ~ReviewRemove(h) /\ ~JobDropped(h)
  BY <1>1 DEF WaitedFor, ReviewRemove, JobDropped, Awaiting
<1>26. CASE JobFails(h)
  BY <1>4, <1>26 DEF JobFails, CreateSteps, DestroySteps, CleanupSteps
<1> QED
  BY <1>6, <1>7, <1>8, <1>9, <1>10, <1>11, <1>12, <1>13, <1>15, <1>16, <1>17, <1>18, <1>20, <1>21,
     <1>22, <1>23, <1>24, <1>25, <1>26 DEF Work, WorkFault

\* A job on a session keeps the record of its session true.
LEMMA JobsKeepOwnRecord ==
  ASSUME IndInv, AttendedInv, NEW h \in Requests, Work(h) \/ WorkFault(h), step[h] \in SessionSteps,
         NEW s \in Sessions, subject[h] = s
  PROVE  Recorded(s)'
<1> USE ConstantsAssumption
<1>1. /\ TypeOK /\ InPlace(h) /\ subject[h] \in Sessions /\ ShortName[subject[h]] \in Names
      /\ NameOf(h) = ShortName[subject[h]]
  BY JobsHoldMutex DEF IndInv, AttendedInv, NameOf
<1>2. reg[subject[h]] = "none" \/ vol[NameOf(h)] = subject[h] \/ step[h] = "d_forget"
  BY OwnRecord
<1> DEFINE n == ShortName[subject[h]]
<1>3. ASSUME reg'[s] = "none" \/ vol'[n] = s
      PROVE  Recorded(s)'
  BY <1>3 DEF Recorded
<1>4. CASE step[h] # "d_forget" /\ UNCHANGED <<reg, vol>>
  BY <1>1, <1>2, <1>3, <1>4
<1>5. CASE MakeVolume(h)
  BY <1>1, <1>2, <1>3, <1>5 DEF MakeVolume, TypeOK, StoreTypes
<1>6. CASE RunContainer(h)
  <2>1. vol[n] = s
    BY <1>1, <1>6 DEF RunContainer, InPlace, WithVolume
  <2>2. vol' = vol
    BY <1>1, <1>6, <2>1 DEF RunContainer, dockerVars
  <2> QED BY <1>3, <2>1, <2>2
<1>7. CASE InsertRecord(h)
  <2>1. vol'[n] = s
    BY <1>1, <1>7 DEF InsertRecord, InPlace, WithVolume, dockerVars
  <2> QED BY <1>3, <2>1
<1>8. CASE RemoveVolume(h)
  <2>1. step[h] \in {"d_volume", "i_volume"} /\ UNCHANGED reg
    BY <1>8 DEF RemoveVolume
  <2>2. CASE UNCHANGED vol
    BY <1>4, <2>1, <2>2
  <2>3. CASE step[h] = "i_volume"
    BY <1>1, <1>3, <2>1, <2>3 DEF InPlace
  <2>4. CASE step[h] = "d_volume" /\ Goto(h, "d_forget")
    <3>1. step'[h] = "d_forget" /\ subject'[h] = s
      BY <1>1, <2>4 DEF Goto, TypeOK, JobTypes
    <3> QED BY <3>1 DEF Recorded
  <2> QED BY <1>8, <2>1, <2>2, <2>3, <2>4 DEF RemoveVolume
<1>9. CASE ForgetRecord(h)
  BY <1>1, <1>3, <1>9 DEF ForgetRecord, TypeOK, StoreTypes
<1>10. ~ReviewRemove(h) /\ ~JobDropped(h)
  BY DEF AttendedInv, WaitedFor, ReviewRemove, JobDropped, Awaiting
<1>11. CASE JobFails(h)
  BY <1>4, <1>11 DEF JobFails, dockerVars
<1> QED
  BY <1>4, <1>5, <1>6, <1>7, <1>8, <1>9, <1>10, <1>11 DEF Work, WorkFault, CheckVolume, MatchContainer,
     StartContainer, WaitReady, ReadForReset, ReadForDestroy, InspectLabels, ListLabels,
     RemoveContainer, ListContainers, ListVolumes, ReviewNext, dockerVars

\* A job makes containers on its session's volume only, and removes the container first.
LEMMA JobsKeepMounts ==
  ASSUME IndInv, AttendedInv, NEW h \in Requests, Work(h) \/ WorkFault(h), NEW n \in Names
  PROVE  Mounted(n)'
<1> USE ConstantsAssumption
<1>1. /\ TypeOK /\ InPlace(h) /\ Mounted(n) /\ row' = row
  BY JobsLeaveOthers DEF IndInv, AttendedInv, clientVars
<1>2. step[h] \in SessionSteps => subject[h] \in Sessions /\ Present(subject[h])
  BY JobsHoldMutex
<1>3. ASSUME cont'[n] # NoContainer => vol'[n] = cont'[n].owner,
             vol'[n] \in {vol[n], NoVolume} \/ (vol'[n] = subject[h] /\ step[h] \in SessionSteps)
      PROVE  Mounted(n)'
  BY <1>1, <1>2, <1>3 DEF Mounted, Present
<1>4. CASE UNCHANGED vol /\ cont'[n] \in {cont[n], NoContainer}
  BY <1>1, <1>3, <1>4 DEF Mounted
<1>5. CASE MakeVolume(h)
  <2>1. cont[n] # NoContainer => cont[n].owner \in Sessions
    BY <1>1 DEF TypeOK, StoreTypes
  <2>2. step[h] \in SessionSteps
    BY <1>5 DEF MakeVolume, SessionSteps, CreateSteps
  <2> QED BY <1>1, <1>3, <1>5, <2>1, <2>2 DEF MakeVolume, Mounted, TypeOK, StoreTypes
<1>6. CASE RunContainer(h)
  <2>1. vol[NameOf(h)] = subject[h] /\ step[h] \in SessionSteps
    BY <1>1, <1>6 DEF RunContainer, InPlace, WithVolume, SessionSteps, CreateSteps
  <2>2. vol' = vol
    BY <1>1, <1>2, <1>6, <2>1 DEF RunContainer, dockerVars
  <2> QED BY <1>1, <1>3, <1>4, <1>6, <2>1, <2>2 DEF RunContainer, Mounted, TypeOK, StoreTypes, dockerVars
<1>7. CASE StartContainer(h)
  BY <1>1, <1>3, <1>4, <1>7 DEF StartContainer, Mounted, TypeOK, StoreTypes, NoContainer
<1>8. CASE RemoveContainer(h)
  BY <1>1, <1>4, <1>8 DEF RemoveContainer, TypeOK, StoreTypes
<1>9. CASE RemoveVolume(h)
  <2>1. UNCHANGED cont
    BY <1>9 DEF RemoveVolume
  <2>2. CASE UNCHANGED vol
    BY <1>4, <2>1, <2>2
  <2>3. CASE /\ cont[NameOf(h)].state = "none" \/ vol[NameOf(h)] = NoVolume
             /\ vol' = [vol EXCEPT ![NameOf(h)] = NoVolume]
    <3>1. cont[n] # NoContainer => cont[n].state # "none" /\ cont[n].owner \in Sessions
      BY <1>1 DEF TypeOK, StoreTypes
    <3>2. vol'[n] = IF n = NameOf(h) THEN NoVolume ELSE vol[n]
      BY <1>1, <2>3 DEF TypeOK, StoreTypes
    <3> QED BY <1>1, <1>3, <2>1, <2>3, <3>1, <3>2 DEF Mounted
  <2> QED BY <1>9, <2>2, <2>3 DEF RemoveVolume
<1>10. ~ReviewRemove(h) /\ ~JobDropped(h)
  BY DEF AttendedInv, WaitedFor, ReviewRemove, JobDropped, Awaiting
<1> QED
  BY <1>4, <1>5, <1>6, <1>7, <1>8, <1>9, <1>10 DEF Work, WorkFault, CheckVolume, MatchContainer,
     WaitReady, InsertRecord, ReadForReset, ReadForDestroy, InspectLabels, ListLabels,
     ForgetRecord, ListContainers, ListVolumes, ReviewNext, JobFails, dockerVars

\* Steps of agent_host's jobs keep the invariant.
LEMMA JobsKeepAttended ==
  ASSUME IndInv, AttendedInv, NEW h \in Requests, Work(h) \/ WorkFault(h)
  PROVE  AttendedInv'
<1>1. /\ \A g \in Requests \ {h} : Same(g)
      /\ \A t \in Sessions : step[h] \notin SessionSteps \/ subject[h] # t => Untouched(t)
  BY JobsLeaveOthers
<1>2. \A g \in Requests \ {h} : WaitedFor(g)' /\ InPlace(g)'
  <2>1. step[h] \in SessionSteps => mutex[subject[h]] = h
    BY JobsHoldMutex
  <2>2. ASSUME NEW g \in Requests \ {h}
        PROVE  Same(g) /\ \A t \in Sessions : mutex[t] = g => Untouched(t)
    BY <1>1, <2>1
  <2> QED BY <2>2, SameStays
<1>3. ASSUME NEW s \in Sessions
      PROVE  Recorded(s)'
  <2>1. CASE step[h] \in SessionSteps /\ subject[h] = s
    BY <2>1, JobsKeepOwnRecord
  <2>2. CASE step[h] \notin SessionSteps \/ subject[h] # s
    <3>1. Untouched(s)
      BY <1>1, <2>2
    <3>2. Recorded(s)
      BY DEF AttendedInv
    <3>3. ASSUME NEW g \in Requests, step[g] = "d_forget", subject[g] = s
          PROVE  step'[g] = "d_forget" /\ subject'[g] = s
      BY <1>1, <2>2, <3>3 DEF Same, SessionSteps, DestroySteps
    <3> QED BY <3>1, <3>2, <3>3 DEF Recorded, Untouched
  <2> QED BY <2>1, <2>2
<1>4. WaitedFor(h)' /\ InPlace(h)' /\ \A n \in Names : Mounted(n)'
  BY JobsStayInPlace, JobsKeepMounts
<1> QED BY <1>2, <1>3, <1>4 DEF AttendedInv

\* Every step of an attended system keeps the invariant.
LEMMA AttendedStep ==
  ASSUME IndInv, AttendedInv, Attended, [Next]_vars
  PROVE  AttendedInv'
<1>1. ASSUME NEW n \in Names, ContainerExits(n)
      PROVE  AttendedInv'
  <2>1. UNCHANGED <<row, op, target, pc, kind, subject, step, plan, reply, reg, vol>>
    BY <1>1 DEF ContainerExits, clientVars, jobVars
  <2>2. \A m \in Names : cont'[m] \in {cont[m], NoContainer}
    BY <1>1 DEF ContainerExits, IndInv, TypeOK, StoreTypes
  <2>3. \A m \in Names : Mounted(m)'
    BY <2>1, <2>2 DEF AttendedInv, Mounted, Present
  <2>4. \A h \in Requests : WaitedFor(h)' /\ InPlace(h)'
    BY <2>1 DEF AttendedInv, WaitedFor, InPlace, NameOf
  <2>5. \A s \in Sessions : Recorded(s)'
    BY <2>1 DEF AttendedInv, Recorded
  <2> QED BY <2>3, <2>4, <2>5 DEF AttendedInv
<1>2. CASE HostRestart
  <2>1. /\ UNCHANGED <<row, op, target, pc, cont, vol>> /\ reg' = [s \in Sessions |-> "none"]
        /\ \A h \in Requests : /\ step'[h] = "none"
                               /\ reply'[h] \in {reply[h], "err"}
    BY <1>2 DEF HostRestart, clientVars, dockerVars
  <2>2. \A h \in Requests : WaitedFor(h)' /\ InPlace(h)'
    BY <2>1 DEF AttendedInv, WaitedFor, InPlace, WithVolume
  <2>3. \A s \in Sessions : Recorded(s)'
    BY <2>1 DEF Recorded
  <2>4. \A n \in Names : Mounted(n)'
    BY <2>1 DEF AttendedInv, Mounted, Present
  <2> QED BY <2>2, <2>3, <2>4 DEF AttendedInv
<1>3. CASE UNCHANGED vars
  BY <1>3 DEF vars, clientVars, jobVars, dockerVars, AttendedInv, WaitedFor, InPlace, NameOf, Recorded,
     Mounted, Present
<1> QED BY <1>1, <1>2, <1>3, HandlersKeepAttended, JobsKeepAttended DEF Next

\* Initially nothing is at work and Docker is empty.
LEMMA AttendedInit ==
  ASSUME Init
  PROVE  AttendedInv
BY ConstantsAssumption DEF Init, AttendedInv, WaitedFor, InPlace, Recorded, Mounted, WithVolume, NoContainer

\* What the invariant says of kernels, of deleted sessions and of removals.
LEMMA AttendedSafety ==
  ASSUME IndInv, AttendedInv
  PROVE  RunningMountsOwnWorkspace /\ DeleteLeavesNothing /\ RemovesOnlyOwn
<1>1. RunningMountsOwnWorkspace
  BY DEF AttendedInv, Mounted, RunningMountsOwnWorkspace, NoContainer
<1>2. DeleteLeavesNothing
  <2> SUFFICES ASSUME NEW s \in Sessions, row[s] = "deleted"
               PROVE  ~HasContainer(s) /\ ~HasVolume(s)
    BY DEF DeleteLeavesNothing
  <2>1. ~HasVolume(s)
    BY DEF AttendedInv, Mounted, Present, HasVolume
  <2> QED BY <2>1 DEF AttendedInv, Mounted, HasContainer, HasVolume, NoContainer
<1>3. RemovesOnlyOwn
  <2> SUFFICES ASSUME NEW h \in Requests, NEW n \in Names
               PROVE  /\ RemoveContainer(h) => cont'[n] = cont[n] \/ cont[n].owner = subject[h]
                      /\ RemoveVolume(h) => vol'[n] = vol[n] \/ vol[n] = subject[h]
    BY DEF RemovesOnlyOwn
  <2>1. InPlace(h) /\ Mounted(n) /\ TypeOK
    BY DEF AttendedInv, IndInv
  <2>2. CASE RemoveContainer(h)
    <3>1. vol[NameOf(h)] = subject[h]
      BY <2>1, <2>2 DEF RemoveContainer, InPlace, WithVolume
    <3>2. cont'[n] = cont[n] \/ (n = NameOf(h) /\ cont'[n] = NoContainer)
      BY <2>1, <2>2 DEF RemoveContainer, TypeOK, StoreTypes
    <3> QED BY <2>1, <2>2, <3>1, <3>2 DEF Mounted, RemoveContainer, RemoveVolume
  <2>3. CASE RemoveVolume(h)
    <3>1. vol[NameOf(h)] = subject[h]
      BY <2>1, <2>3 DEF RemoveVolume, InPlace, WithVolume
    <3>2. vol'[n] = vol[n] \/ n = NameOf(h)
      BY <2>1, <2>3 DEF RemoveVolume, TypeOK, StoreTypes
    <3> QED BY <2>3, <3>1, <3>2 DEF RemoveContainer, RemoveVolume
  <2> QED BY <2>2, <2>3
<1> QED BY <1>1, <1>2, <1>3

\* Both invariants hold of an attended system, alone or as a scene.
THEOREM AttendedInvariance ==
  ASSUME Attended
  PROVE  /\ Spec => [](IndInv /\ AttendedInv)
         /\ SessionsSpec => [](scene = "locked" => IndInv /\ AttendedInv)
<1> DEFINE Inv == IndInv /\ AttendedInv
<1>1. Init => Inv
  BY InvariantInit, AttendedInit
<1>2. ASSUME Inv, [Next]_vars
      PROVE  Inv'
  BY <1>2, InvariantStep, AttendedStep
<1>3. SessionsInit => (scene = "locked" => Inv)
  BY <1>1 DEF SessionsInit
<1>4. (scene = "locked" => Inv) /\ [SessionsNext]_<<scene, vars>> => (scene = "locked" => Inv)'
  <2> SUFFICES ASSUME scene = "locked" => Inv, [SessionsNext]_<<scene, vars>>, scene' = "locked"
               PROVE  Inv'
    OBVIOUS
  <2>1. scene = "locked" /\ [Next]_vars
    BY DEF SessionsNext
  <2> QED BY <1>2, <2>1
<1>5. Inv /\ [Next]_vars => Inv'
  BY <1>2
<1>6. Spec => []Inv
  BY <1>1, <1>5, PTL DEF Spec
<1>7. SessionsSpec => [](scene = "locked" => Inv)
  BY <1>3, <1>4, PTL DEF SessionsSpec
<1> QED BY <1>6, <1>7

\* As long as every job has a handler that waits for it, whatever calls, writes and
\* kernels fail, a running kernel has the workspace volume of its own session mounted.
THEOREM KernelsMountOwnWorkspace ==
  ASSUME Attended
  PROVE  (Spec => []RunningMountsOwnWorkspace) /\ (SessionsSpec => []WorkspaceMounted)
<1>1. IndInv /\ AttendedInv => RunningMountsOwnWorkspace
  BY AttendedSafety
<1>2. (scene = "locked" => IndInv /\ AttendedInv) => WorkspaceMounted
  BY <1>1 DEF WorkspaceMounted
<1> QED BY <1>1, <1>2, AttendedInvariance, PTL

\* As long as every job has a handler that waits for it, a deleted session leaves neither
\* a container nor a volume behind, not even under a name it shares with another.
THEOREM DeletedLeaveNothing ==
  ASSUME Attended
  PROVE  (Spec => []DeleteLeavesNothing) /\ (SessionsSpec => []NothingLeft)
<1>1. IndInv /\ AttendedInv => DeleteLeavesNothing
  BY AttendedSafety
<1>2. (scene = "locked" => IndInv /\ AttendedInv) => NothingLeft
  BY <1>1 DEF NothingLeft
<1> QED BY <1>1, <1>2, AttendedInvariance, PTL

\* As long as every job has a handler that waits for it, a job removes by name what
\* carries its own session's label and nothing else, however names collide.
THEOREM ForeignResourcesKept ==
  ASSUME Attended
  PROVE  (Spec => NeverRemovesForeign) /\ (SessionsSpec => ForeignKept)
<1>1. IndInv /\ AttendedInv => RemovesOnlyOwn
  BY AttendedSafety
<1>2. IndInv /\ AttendedInv => [RemovesOnlyOwn]_vars
  BY <1>1
<1>3. (scene = "locked" => IndInv /\ AttendedInv) => [scene = "locked" => RemovesOnlyOwn]_vars
  BY <1>1
<1>4. Spec => NeverRemovesForeign
  BY <1>2, AttendedInvariance, PTL DEF NeverRemovesForeign
<1>5. SessionsSpec => ForeignKept
  BY <1>3, AttendedInvariance, PTL DEF ForeignKept
<1> QED BY <1>4, <1>5

=============================================================================
