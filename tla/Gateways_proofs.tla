-------------------------- MODULE Gateways_proofs --------------------------
(***************************************************************************)
(* Proofs about Gateways, for every set of gateways, requests and          *)
(* settings, every choice of operations and faults, and every bound.       *)
(***************************************************************************)
EXTENDS MCGateways, TLAPS

\* a process that waits for an answer has a gateway to wait for
CurInv == \A p \in Procs : pc[p] \in Awaiting => cur[p].g \in GatewayIds

TypeInv == TypeOK /\ CurInv

Work == [g : GatewayIds, conf : Confs \cup {NoConf}]
Replies == {"none", "ok", "conflict", "err"} \cup Reports
Status == {"stopped", "starting", "running", "error"}

\* what the procVars hold
ProcTypes ==
  /\ op \in [Procs -> InteractiveOps \cup {"apply", "startup", "none"}]
  /\ pc \in [Procs -> PcStates]
  /\ want \in [Procs -> SUBSET GatewayIds]
  /\ todo \in [Procs -> SUBSET Task]
  /\ cur \in [Procs -> Work \cup {NoWork}]
  /\ tries \in [Procs -> 0..Attempts]
  /\ failed \in [Procs -> BOOLEAN]
  /\ CurInv

----------------------------------------------------------------------------
(* The types of what the shared parts of the actions assign                *)

LEMMA CallTypes ==
  ASSUME TypeInv, NEW p \in Procs, NEW st \in {"create", "take"}, NEW w \in Work,
         NEW at \in Awaiting, Call(p, st, w, at)
  PROVE  jobs' \subseteq Job /\ pc' \in [Procs -> PcStates]
<1>1. [by |-> p, step |-> st, g |-> w.g, conf |-> w.conf] \in Job
  BY DEF Work, Job
<1>2. jobs' \subseteq Job
  BY <1>1 DEF TypeInv, TypeOK, Call
<1>3. pc' \in [Procs -> PcStates]
  BY DEF TypeInv, TypeOK, Call, Awaiting, PcStates
<1> QED BY <1>2, <1>3

LEMMA PlanTypes ==
  ASSUME TypeInv, NEW p \in Procs, NEW o \in InteractiveOps \cup {"apply", "startup"},
         NEW where \in {"list", "work"}, NEW tasks \in SUBSET Task,
         NEW ids \in SUBSET GatewayIds, Plan(p, o, where, tasks, ids)
  PROVE  ProcTypes'
<1> USE GatewayAssumption
<1>1. op' \in [Procs -> InteractiveOps \cup {"apply", "startup", "none"}]
  BY DEF TypeInv, TypeOK, Plan
<1>2. pc' \in [Procs -> PcStates]
  BY DEF TypeInv, TypeOK, Plan, PcStates
<1>3. want' \in [Procs -> SUBSET GatewayIds]
  BY DEF TypeInv, TypeOK, Plan
<1>4. todo' \in [Procs -> SUBSET Task]
  BY DEF TypeInv, TypeOK, Plan
<1>5. cur' \in [Procs -> Work \cup {NoWork}]
  BY DEF TypeInv, TypeOK, Plan, Work
<1>6. tries' \in [Procs -> 0..Attempts] /\ failed' \in [Procs -> BOOLEAN]
  BY DEF TypeInv, TypeOK, Plan
<1>7. CurInv'
  BY DEF TypeInv, TypeOK, CurInv, Plan, Awaiting
<1> QED BY <1>1, <1>2, <1>3, <1>4, <1>5, <1>6, <1>7 DEF ProcTypes

LEMMA NextTaskTypes ==
  ASSUME TypeInv, NEW p \in Procs, NEW t, NextTask(p, t), failed' \in [Procs -> BOOLEAN]
  PROVE  ProcTypes'
<1> USE GatewayAssumption
<1>1. op' \in [Procs -> InteractiveOps \cup {"apply", "startup", "none"}]
  BY DEF TypeInv, TypeOK, NextTask
<1>2. pc' \in [Procs -> PcStates] /\ want' \in [Procs -> SUBSET GatewayIds]
  BY DEF TypeInv, TypeOK, NextTask, PcStates
<1>3. todo' \in [Procs -> SUBSET Task]
  BY DEF TypeInv, TypeOK, NextTask
<1>4. cur' \in [Procs -> Work \cup {NoWork}]
  BY DEF TypeInv, TypeOK, NextTask, Work
<1>5. tries' \in [Procs -> 0..Attempts]
  BY DEF TypeInv, TypeOK, NextTask
<1>6. CurInv'
  BY DEF TypeInv, TypeOK, CurInv, NextTask, Awaiting
<1> QED BY <1>1, <1>2, <1>3, <1>4, <1>5, <1>6 DEF ProcTypes

LEMMA GiveUpTypes ==
  ASSUME TypeInv, NEW p \in Procs, NEW t \in Task, GiveUp(p, t, tries[p] + 1)
  PROVE  ProcTypes'
<1> USE GatewayAssumption
<1>1. CASE op[p] = "startup" /\ tries[p] + 1 < Attempts
  <2>1. pc' \in [Procs -> PcStates]
    BY <1>1 DEF TypeInv, TypeOK, GiveUp, PcStates
  <2>2. cur' \in [Procs -> Work \cup {NoWork}]
    BY <1>1 DEF TypeInv, TypeOK, GiveUp, Work, Task
  <2>3. tries' \in [Procs -> 0..Attempts]
    <3>1. tries[p] \in 0..Attempts
      BY DEF TypeInv, TypeOK
    <3>2. tries[p] + 1 \in 0..Attempts
      BY <1>1, <3>1
    <3> QED BY <1>1, <3>2 DEF TypeInv, TypeOK, GiveUp
  <2>4. CurInv'
    BY <1>1 DEF TypeInv, TypeOK, CurInv, GiveUp, Awaiting
  <2> QED BY <1>1, <2>1, <2>2, <2>3, <2>4 DEF TypeInv, TypeOK, GiveUp, ProcTypes, Work
<1>2. CASE ~(op[p] = "startup" /\ tries[p] + 1 < Attempts)
  <2>1. NextTask(p, t) /\ failed' = [failed EXCEPT ![p] = TRUE]
    BY <1>2 DEF GiveUp
  <2>2. failed' \in [Procs -> BOOLEAN]
    BY <2>1 DEF TypeInv, TypeOK
  <2> QED BY <2>1, <2>2, NextTaskTypes
<1> QED BY <1>1, <1>2

LEMMA EndTypes ==
  ASSUME TypeInv, NEW j \in jobs, NEW r \in Replies, End(j, r)
  PROVE  jobs' \subseteq Job /\ reply' \in [Procs -> Replies]
<1>1. jobs' \subseteq Job
  BY DEF TypeInv, TypeOK, End
<1>2. reply' \in [Procs -> Replies]
  BY DEF TypeInv, TypeOK, End, Replies
<1> QED BY <1>1, <1>2

LEMMA GotoTypes ==
  ASSUME TypeInv, NEW j \in jobs, NEW st \in CreateSteps \cup {"status", "drop"}, Goto(j, st)
  PROVE  jobs' \subseteq Job /\ reply' \in [Procs -> Replies]
<1>1. j \in Job
  BY DEF TypeInv, TypeOK
<1>2. [j EXCEPT !.step = st] \in Job
  BY <1>1 DEF Job
<1>3. jobs' \subseteq Job
  BY <1>2 DEF TypeInv, TypeOK, Goto
<1>4. reply' \in [Procs -> Replies]
  BY DEF TypeInv, TypeOK, Goto, Replies
<1> QED BY <1>3, <1>4

LEMMA FaultTypes ==
  ASSUME TypeInv, NEW f, Fault(f)
  PROVE  faults' \in 0..MaxFaults
BY GatewayAssumption DEF TypeInv, TypeOK, Fault

----------------------------------------------------------------------------
(* Type correctness                                                        *)

\* What a process does keeps the types.
LEMMA ProcessTypes ==
  ASSUME TypeInv, NEW p \in Procs,
         Begin(p) \/ Lock(p) \/ Handle(p) \/ ListFails(p) \/ TimeOut(p)
  PROVE  TypeInv'
<1> USE GatewayAssumption
<1>w. \A g \in GatewayIds : \A c \in Confs \cup {NoConf} : [g |-> g, conf |-> c] \in Work
  BY DEF Work
<1>t. \A g \in GatewayIds : \A d \in {"start", "stop", "destroy"} : [do |-> d, g |-> g] \in Task
  BY DEF Task
<1>c. \A q \in Procs : q \in Procs /\ pc[q] \in Awaiting => cur[q] \in Work
  BY DEF TypeInv, TypeOK, CurInv, Work, NoWork
<1>r. ASSUME TakeReply(p) PROVE reply' \in [Procs -> Replies]
  BY <1>r DEF TypeInv, TypeOK, TakeReply, Replies
<1>1. ASSUME NEW g \in GatewayIds, NEW s \in Settings, CreateGateway(p, g, s)
      PROVE  TypeInv'
  <2> DEFINE tasks == IF s.enabled THEN {[do |-> "start", g |-> g]} ELSE {}
  <2>1. tasks \in SUBSET Task
    BY <1>t
  <2>2. Plan(p, "create", "work", tasks, {})
    BY <1>1 DEF CreateGateway
  <2>3. doc' \in [GatewayIds -> Settings \cup {Absent}] /\ status' \in [GatewayIds -> Status]
    BY <1>1 DEF CreateGateway, TypeInv, TypeOK, Status
  <2> HIDE DEF tasks
  <2>4. ProcTypes'
    BY <2>1, <2>2, PlanTypes DEF InteractiveOps
  <2> QED BY <1>1, <2>3, <2>4 DEF CreateGateway, ProcTypes, TypeInv, TypeOK, Status, Work
<1>2. ASSUME NEW g \in GatewayIds, NEW s \in Settings, UpdateGateway(p, g, s)
      PROVE  TypeInv'
  <2>1. PICK d \in SUBSET {"start", "stop"} :
          Plan(p, "update", "work", {[do |-> x, g |-> g] : x \in d}, {})
    <3> DEFINE d == CASE s.enabled /\ ~doc[g].enabled -> {"start"}
                      [] ~s.enabled /\ doc[g].enabled -> {"stop"}
                      [] OTHER -> IF s.conf # doc[g].conf /\ status[g] = "running"
                                    THEN {"stop", "start"} ELSE {}
    <3>1. d \in SUBSET {"start", "stop"}
      OBVIOUS
    <3>2. Plan(p, "update", "work", {[do |-> x, g |-> g] : x \in d}, {})
      BY <1>2 DEF UpdateGateway
    <3> HIDE DEF d
    <3> QED BY <3>1, <3>2
  <2>2. {[do |-> x, g |-> g] : x \in d} \in SUBSET Task
    BY <1>t
  <2>3. doc' \in [GatewayIds -> Settings \cup {Absent}]
    BY <1>2 DEF UpdateGateway, TypeInv, TypeOK
  <2>4. ProcTypes'
    BY <2>1, <2>2, PlanTypes DEF InteractiveOps
  <2> QED BY <1>2, <2>3, <2>4 DEF UpdateGateway, ProcTypes, TypeInv, TypeOK, Work
<1>3. ASSUME NEW g \in GatewayIds, DeleteGateway(p, g)
      PROVE  TypeInv'
  <2>1. cur'[p] \in Work /\ cur' \in [Procs -> Work \cup {NoWork}] /\ cur'[p].g = g
    BY <1>3, <1>w DEF DeleteGateway, TypeInv, TypeOK
  <2>2. jobs' \subseteq Job /\ pc' \in [Procs -> PcStates]
    <3>1. CASE status[g] \in {"stopped", "error"}
      BY <1>3, <3>1 DEF DeleteGateway, TypeInv, TypeOK, PcStates
    <3>2. CASE status[g] \notin {"stopped", "error"}
      BY <1>3, <3>2, <2>1, CallTypes DEF DeleteGateway, Awaiting
    <3> QED BY <3>1, <3>2
  <2>3. CurInv'
    BY <1>3, <2>1 DEF DeleteGateway, CurInv, TypeInv, TypeOK, Call
  <2>4. op' \in [Procs -> InteractiveOps \cup {"apply", "startup", "none"}]
    BY <1>3 DEF DeleteGateway, TypeInv, TypeOK, InteractiveOps
  <2> QED BY <1>3, <2>1, <2>2, <2>3, <2>4 DEF DeleteGateway, TypeInv, TypeOK, Work
<1>4. ASSUME NEW o \in {"start", "stop"}, NEW g \in GatewayIds, StartOrStop(p, o, g)
      PROVE  TypeInv'
  <2>1. {[do |-> o, g |-> g]} \in SUBSET Task
    BY <1>t
  <2>2. ProcTypes'
    BY <1>4, <2>1, PlanTypes DEF StartOrStop, InteractiveOps
  <2> QED BY <1>4, <2>2 DEF StartOrStop, ProcTypes, TypeInv, TypeOK, Work
<1>5. ASSUME BeginApply(p)
      PROVE  TypeInv'
  BY <1>5 DEF BeginApply, TypeInv, TypeOK, CurInv, PcStates, Awaiting
<1>6. ASSUME NEW new \in [GatewayIds -> Settings \cup {Absent}], Commit(p, new)
      PROVE  TypeInv'
  <2> DEFINE ids == {g \in GatewayIds : new[g] # Absent}
             tasks == {StartOrStopTask(new, g) : g \in {i \in ids : new[i] # doc[i]}}
  <2>1. tasks \in SUBSET Task /\ ids \in SUBSET GatewayIds
    BY <1>t DEF StartOrStopTask
  <2>2. Plan(p, "apply", "list", tasks, ids)
    BY <1>6 DEF Commit
  <2> HIDE DEF ids, tasks
  <2>3. ProcTypes'
    BY <2>1, <2>2, PlanTypes
  <2> QED BY <1>6, <2>3 DEF Commit, ProcTypes, TypeInv, TypeOK, Work
<1>7. ASSUME p = Startup, StartupDesired
      PROVE  TypeInv'
  <2> DEFINE ids == {g \in GatewayIds : Declared(g)}
             tasks == {StartOrStopTask(doc, g) : g \in ids}
  <2>1. tasks \in SUBSET Task /\ ids \in SUBSET GatewayIds
    BY <1>t DEF StartOrStopTask
  <2>2. Plan(p, "startup", "list", tasks, ids)
    BY <1>7 DEF StartupDesired
  <2> HIDE DEF ids, tasks
  <2>3. ProcTypes'
    BY <2>1, <2>2, PlanTypes
  <2> QED BY <1>7, <2>3 DEF StartupDesired, ProcTypes, TypeInv, TypeOK, Work
<1>8. ASSUME ListUpstream(p)
      PROVE  TypeInv'
  <2> DEFINE seen == {g \in GatewayIds : rec[g] # NoConf}
             tasks == {t \in todo[p] : t.do = "start" \/ t.g \in seen}
                        \cup {[do |-> "destroy", g |-> g] : g \in seen \ want[p]}
  <2>1. todo' \in [Procs -> SUBSET Task]
    <3>1. todo[p] \in SUBSET Task
      BY DEF TypeInv, TypeOK
    <3>2. tasks \in SUBSET Task
      BY <3>1, <1>t
    <3>3. todo' = [todo EXCEPT ![p] = tasks]
      BY <1>8 DEF ListUpstream
    <3> HIDE DEF tasks
    <3> QED BY <3>2, <3>3 DEF TypeInv, TypeOK
  <2> QED BY <1>8, <2>1 DEF ListUpstream, TypeInv, TypeOK, CurInv, PcStates, Awaiting
<1>9. ASSUME ListFails(p)
      PROVE  TypeInv'
  <2>1. todo' \in [Procs -> SUBSET Task]
    BY <1>9 DEF ListFails, TypeInv, TypeOK
  <2> QED BY <1>9, <2>1, FaultTypes DEF ListFails, TypeInv, TypeOK, CurInv, PcStates, Awaiting
<1>10. ASSUME DeleteReply(p)
       PROVE  TypeInv'
  BY <1>10, <1>r DEF DeleteReply, TypeInv, TypeOK, CurInv, PcStates, Awaiting, Replies
<1>11. ASSUME DeleteDone(p)
       PROVE  TypeInv'
  <2>1. doc' \in [GatewayIds -> Settings \cup {Absent}] /\ status' \in [GatewayIds -> Status]
    BY <1>11 DEF DeleteDone, TypeInv, TypeOK, Status
  <2>2. cur' \in [Procs -> Work \cup {NoWork}] /\ CurInv'
    BY <1>11 DEF DeleteDone, TypeInv, TypeOK, CurInv, Work, Awaiting
  <2> QED BY <1>11, <2>1, <2>2 DEF DeleteDone, TypeInv, TypeOK, PcStates, Work, Status
<1>12. ASSUME Replace(p)
       PROVE  TypeInv'
  <2>1. cur[p] \in Work
    BY <1>12, <1>c DEF Replace, Awaiting
  <2>2. jobs' \subseteq Job /\ pc' \in [Procs -> PcStates]
    BY <1>12, <2>1, CallTypes DEF Replace, Awaiting
  <2>3. CurInv'
    BY <1>12 DEF Replace, Call, TypeInv, TypeOK, CurInv, Awaiting
  <2> QED BY <1>12, <1>r, <2>2, <2>3 DEF Replace, TypeInv, TypeOK, Replies
<1>13. ASSUME Recreate(p)
       PROVE  TypeInv'
  <2>1. cur[p] \in Work
    BY <1>13, <1>c DEF Recreate, Awaiting
  <2>2. jobs' \subseteq Job /\ pc' \in [Procs -> PcStates]
    BY <1>13, <2>1, CallTypes DEF Recreate, Awaiting
  <2>3. CurInv'
    BY <1>13 DEF Recreate, Call, TypeInv, TypeOK, CurInv, Awaiting
  <2> QED BY <1>13, <1>r, <2>2, <2>3 DEF Recreate, TypeInv, TypeOK, Replies
<1>14. ASSUME Started(p)
       PROVE  TypeInv'
  <2>1. status' \in [GatewayIds -> Status]
    BY <1>14 DEF Reports, Started, TypeInv, TypeOK, Status
  <2>2. NextTask(p, Current(p, "start"))
    BY <1>14 DEF Started
  <2>3. ProcTypes'
    BY <1>14, <2>2, NextTaskTypes DEF Started, TypeInv, TypeOK
  <2> QED BY <1>14, <1>r, <2>1, <2>3 DEF Started, ProcTypes, TypeInv, TypeOK, Replies, Status, Work
<1>15. ASSUME NotStarted(p)
       PROVE  TypeInv'
  <2>1. Current(p, "start") \in Task
    BY <1>15, <1>c, <1>t DEF NotStarted, StartFailed, Current, Awaiting, Work
  <2>2. GiveUp(p, Current(p, "start"), tries[p] + 1)
    BY <1>15 DEF NotStarted
  <2>3. status' \in [GatewayIds -> Status]
    BY <1>15 DEF NotStarted, TypeInv, TypeOK, Status
  <2>4. ProcTypes'
    BY <2>1, <2>2, GiveUpTypes
  <2> QED BY <1>15, <1>r, <2>3, <2>4
          DEF NotStarted, ProcTypes, TypeInv, TypeOK, Replies, Status, Work
<1>16. ASSUME Stopped(p)
       PROVE  TypeInv'
  <2>1. status' \in [GatewayIds -> Status]
    BY <1>16 DEF Stopped, TypeInv, TypeOK, Status
  <2>2. NextTask(p, Current(p, "stop"))
    BY <1>16 DEF Stopped
  <2>3. ProcTypes'
    BY <1>16, <2>2, NextTaskTypes DEF Stopped, TypeInv, TypeOK
  <2> QED BY <1>16, <1>r, <2>1, <2>3 DEF Stopped, ProcTypes, TypeInv, TypeOK, Replies, Status, Work
<1>17. ASSUME Destroyed(p)
       PROVE  TypeInv'
  <2>1. Current(p, "destroy") \in Task
    BY <1>17, <1>c, <1>t DEF Destroyed, Current, Awaiting, Work
  <2>2. CASE reply[p] = "ok"
    <3>1. NextTask(p, Current(p, "destroy"))
      BY <1>17, <2>2 DEF Destroyed
    <3>2. ProcTypes'
      BY <1>17, <2>2, <3>1, NextTaskTypes DEF Destroyed, TypeInv, TypeOK
    <3> QED BY <1>17, <1>r, <3>2 DEF Destroyed, ProcTypes, TypeInv, TypeOK, Replies, Work
  <2>3. CASE reply[p] # "ok"
    <3>1. GiveUp(p, Current(p, "destroy"), tries[p] + 1)
      BY <1>17, <2>3 DEF Destroyed
    <3>2. ProcTypes'
      BY <2>1, <3>1, GiveUpTypes
    <3> QED BY <1>17, <1>r, <3>2 DEF Destroyed, ProcTypes, TypeInv, TypeOK, Replies, Work
  <2> QED BY <2>2, <2>3
<1>18. ASSUME Return(p)
       PROVE  TypeInv'
  BY <1>18 DEF Return, TypeInv, TypeOK, CurInv, PcStates, Awaiting
<1>19. ASSUME NEW t \in Task, StartCall(p, t)
       PROVE  TypeInv'
  <2>1. t.g \in GatewayIds /\ doc[t.g].conf \in Confs \cup {NoConf}
    BY DEF Task, TypeInv, TypeOK, Settings, Absent
  <2>2. cur'[p] \in Work /\ cur' \in [Procs -> Work \cup {NoWork}] /\ cur'[p].g = t.g
    BY <1>19, <1>w, <2>1 DEF StartCall, TypeInv, TypeOK
  <2>3. jobs' \subseteq Job /\ pc' \in [Procs -> PcStates]
    BY <1>19, <2>2, CallTypes DEF StartCall, Awaiting
  <2>4. CurInv'
    BY <1>19, <2>1, <2>2 DEF StartCall, Call, CurInv, TypeInv, TypeOK
  <2>5. status' \in [GatewayIds -> Status]
    BY <1>19 DEF StartCall, TypeInv, TypeOK, Status
  <2> QED BY <1>19, <2>2, <2>3, <2>4, <2>5 DEF StartCall, TypeInv, TypeOK, Work, Status
<1>20. ASSUME NEW t \in Task, StopCall(p, t)
       PROVE  TypeInv'
  <2>1. t.g \in GatewayIds
    BY DEF Task
  <2>2. cur'[p] \in Work /\ cur' \in [Procs -> Work \cup {NoWork}] /\ cur'[p].g = t.g
    BY <1>20, <1>w, <2>1 DEF StopCall, TypeInv, TypeOK
  <2>3. jobs' \subseteq Job /\ pc' \in [Procs -> PcStates]
    BY <1>20, <2>2, CallTypes DEF StopCall, Awaiting
  <2>4. CurInv'
    BY <1>20, <2>1, <2>2 DEF StopCall, Call, CurInv, TypeInv, TypeOK
  <2> QED BY <1>20, <2>2, <2>3, <2>4 DEF StopCall, TypeInv, TypeOK, Work
<1>21. ASSUME NEW t \in Task, DestroyCall(p, t)
       PROVE  TypeInv'
  <2>1. t.g \in GatewayIds
    BY DEF Task
  <2>2. cur'[p] \in Work /\ cur' \in [Procs -> Work \cup {NoWork}] /\ cur'[p].g = t.g
    BY <1>21, <1>w, <2>1 DEF DestroyCall, TypeInv, TypeOK
  <2>3. jobs' \subseteq Job /\ pc' \in [Procs -> PcStates]
    BY <1>21, <2>2, CallTypes DEF DestroyCall, Awaiting
  <2>4. CurInv'
    BY <1>21, <2>1, <2>2 DEF DestroyCall, Call, CurInv, TypeInv, TypeOK
  <2> QED BY <1>21, <2>2, <2>3, <2>4 DEF DestroyCall, TypeInv, TypeOK, Work
<1>22. ASSUME NEW t \in Task, CannotStart(p, t)
       PROVE  TypeInv'
  <2>1. faults' \in 0..MaxFaults
    BY <1>22, FaultTypes DEF CannotStart, TypeInv, TypeOK
  <2>2. GiveUp(p, t, tries[p] + 1)
    BY <1>22 DEF CannotStart
  <2>3. ProcTypes'
    BY <2>2, GiveUpTypes
  <2> QED BY <1>22, <2>1, <2>3 DEF CannotStart, ProcTypes, TypeInv, TypeOK, Work
<1>23. ASSUME NEW t \in Task, CannotStop(p, t)
       PROVE  TypeInv'
  BY <1>23 DEF CannotStop, TypeInv, TypeOK, CurInv
<1>24. ASSUME TimeOut(p)
       PROVE  TypeInv'
  <2>1. \A j \in jobs : [j EXCEPT !.by = Nobody] \in Job
    BY DEF TypeInv, TypeOK, Job
  <2>2. jobs' \subseteq Job
    BY <1>24, <2>1 DEF TimeOut, TypeInv, TypeOK
  <2> QED BY <1>24, <2>2, FaultTypes DEF TimeOut, TypeInv, TypeOK, CurInv, procVars
<1> QED BY <1>1, <1>2, <1>3, <1>4, <1>5, <1>6, <1>7, <1>8, <1>9, <1>10, <1>11, <1>12, <1>13,
           <1>14, <1>15, <1>16, <1>17, <1>18, <1>19, <1>20, <1>21, <1>22, <1>23, <1>24
        DEF Begin, Lock, Handle

\* What a job does keeps the types.
LEMMA JobTypes ==
  ASSUME TypeInv, NEW j \in jobs, Serve(j) \/ JobFails(j) \/ JobDropped(j)
  PROVE  TypeInv'
<1> USE GatewayAssumption
<1>j. j.conf \in Confs \cup {NoConf}
  BY DEF TypeInv, TypeOK, Job
<1> DEFINE Settles == jobs' \subseteq Job /\ reply' \in [Procs -> Replies]
<1>1. CASE LockRecords(j)
  <2>1. Settles
    BY <1>1, EndTypes, GotoTypes DEF LockRecords, CreateSteps, Replies
  <2> QED BY <1>1, <2>1 DEF LockRecords, procVars, TypeInv, TypeOK, CurInv, Replies
<1>2. CASE RemoveStale(j)
  <2>1. Settles
    BY <1>2, GotoTypes DEF RemoveStale, CreateSteps
  <2>2. cont' \in [GatewayIds -> Confs \cup {NoConf}]
    BY <1>2 DEF RemoveStale, TypeInv, TypeOK
  <2> QED BY <1>2, <2>1, <2>2 DEF RemoveStale, procVars, TypeInv, TypeOK, CurInv, Replies
<1>3. CASE RunContainer(j)
  <2>1. Settles
    BY <1>3, GotoTypes DEF RunContainer, CreateSteps
  <2>2. cont' \in [GatewayIds -> Confs \cup {NoConf}]
    BY <1>3, <1>j DEF RunContainer, TypeInv, TypeOK
  <2> QED BY <1>3, <2>1, <2>2 DEF RunContainer, procVars, TypeInv, TypeOK, CurInv, Replies
<1>4. CASE InsertRecord(j)
  <2>1. Settles
    BY <1>4, EndTypes, GotoTypes DEF InsertRecord, Replies
  <2>2. rec' \in [GatewayIds -> Confs \cup {NoConf}]
    BY <1>4, <1>j DEF InsertRecord, TypeInv, TypeOK
  <2> QED BY <1>4, <2>1, <2>2 DEF InsertRecord, procVars, TypeInv, TypeOK, CurInv, Replies
<1>5. CASE AskStatus(j)
  <2>1. Settles
    BY <1>5, EndTypes DEF AskStatus, Replies
  <2> QED BY <1>5, <2>1 DEF AskStatus, procVars, TypeInv, TypeOK, CurInv, Replies
<1>6. CASE TakeRecord(j)
  <2>1. Settles
    BY <1>6, EndTypes, GotoTypes DEF TakeRecord, Replies
  <2>2. rec' \in [GatewayIds -> Confs \cup {NoConf}]
    BY <1>6 DEF TakeRecord, TypeInv, TypeOK
  <2> QED BY <1>6, <2>1, <2>2 DEF TakeRecord, procVars, TypeInv, TypeOK, CurInv, Replies
<1>7. CASE DropContainer(j)
  <2>1. Settles
    BY <1>7, EndTypes DEF DropContainer, Replies
  <2>2. cont' \in [GatewayIds -> Confs \cup {NoConf}]
    BY <1>7 DEF DropContainer, TypeInv, TypeOK
  <2> QED BY <1>7, <2>1, <2>2 DEF DropContainer, procVars, TypeInv, TypeOK, CurInv, Replies
<1>8. CASE JobFails(j)
  <2>1. Settles
    BY <1>8, EndTypes DEF JobFails, Replies
  <2> QED BY <1>8, <2>1, FaultTypes DEF JobFails, procVars, TypeInv, TypeOK, CurInv, Replies
<1>9. CASE JobDropped(j)
  <2>1. Settles
    BY <1>9, EndTypes DEF JobDropped, Replies
  <2> QED BY <1>9, <2>1 DEF JobDropped, procVars, TypeInv, TypeOK, CurInv, Replies
<1> QED BY <1>1, <1>2, <1>3, <1>4, <1>5, <1>6, <1>7, <1>8, <1>9 DEF Serve

\* A restart keeps the types.
LEMMA RestartTypes ==
  ASSUME TypeInv, HostRestart \/ ClientRestart
  PROVE  TypeInv'
<1> USE GatewayAssumption
<1>1. CASE HostRestart
  <2>1. cont' \in [GatewayIds -> Confs \cup {NoConf}] /\ rec' \in [GatewayIds -> Confs \cup {NoConf}]
    BY <1>1 DEF HostRestart, TypeInv, TypeOK
  <2>2. reply' \in [Procs -> Replies] /\ jobs' \subseteq Job
    BY <1>1 DEF HostRestart, TypeInv, TypeOK, Replies
  <2> QED BY <1>1, <2>1, <2>2, FaultTypes
          DEF HostRestart, procVars, TypeInv, TypeOK, CurInv, Replies
<1>2. CASE ClientRestart
  <2>1. \A j \in jobs : [j EXCEPT !.by = Nobody] \in Job
    BY DEF TypeInv, TypeOK, Job
  <2>2. jobs' \subseteq Job /\ status' \in [GatewayIds -> Status] /\ reply' \in [Procs -> Replies]
    BY <1>2, <2>1 DEF ClientRestart, Status, Replies
  <2>3. pc' \in [Procs -> PcStates] /\ CurInv'
    BY <1>2 DEF ClientRestart, PcStates, CurInv, Awaiting
  <2>4. op' \in [Procs -> InteractiveOps \cup {"apply", "startup", "none"}]
    BY <1>2 DEF ClientRestart
  <2>5. /\ want' \in [Procs -> SUBSET GatewayIds]
        /\ todo' \in [Procs -> SUBSET Task]
        /\ cur' \in [Procs -> Work \cup {NoWork}]
        /\ tries' \in [Procs -> 0..Attempts]
        /\ failed' \in [Procs -> BOOLEAN]
    BY <1>2 DEF ClientRestart
  <2> QED BY <1>2, <2>2, <2>3, <2>4, <2>5, FaultTypes
          DEF ClientRestart, TypeInv, TypeOK, Status, Replies, Work
<1> QED BY <1>1, <1>2

LEMMA TypeInit == Init => TypeInv
BY GatewayAssumption DEF Init, TypeInv, TypeOK, CurInv, PcStates, Awaiting

LEMMA TypeStep == TypeInv /\ [Next]_vars => TypeInv'
<1> SUFFICES ASSUME TypeInv, [Next]_vars
             PROVE  TypeInv'
  OBVIOUS
<1>1. CASE UNCHANGED vars
  BY <1>1 DEF vars, procVars, TypeInv, TypeOK, CurInv
<1>2. CASE Next
  BY <1>2, ProcessTypes, JobTypes, RestartTypes DEF Next
<1> QED BY <1>1, <1>2

\* The variables always hold what their types allow: in particular the start-up
\* task never counts more than GATEWAY_AUTOSTART_ATTEMPTS attempts, and every
\* call in service carries a gateway and its settings.
THEOREM TypeCorrect == Spec => []TypeOK
<1>1. TypeInv => TypeOK
  BY DEF TypeInv
<1> QED BY <1>1, TypeInit, TypeStep, PTL DEF Spec

----------------------------------------------------------------------------
(* Orphans                                                                 *)

\* the job of a process that waits: it has not been answered, there is no other,
\* and it is about the gateway the process works on
JobInv ==
  /\ \A j \in jobs :
       j.by # Nobody => /\ pc[j.by] \in Awaiting
                        /\ reply[j.by] = "none"
                        /\ j.g = cur[j.by].g
  /\ \A i, j \in jobs : i.by # Nobody /\ i.by = j.by => i = j
  /\ \A p \in Procs : pc[p] \notin Awaiting => reply[p] = "none"

\* a reconciliation that has listed the document
Reconciles(p) == pc[p] \in {"list", "work"} \cup Awaiting

\* where applies and the start-up task are the only operations: a reconciliation
\* has apply_lock and knows the document as it is, and what it means to destroy
\* is not in it
ReconInv ==
  \A p \in Procs :
    /\ pc[p] \notin {"delete", "await_delete"}
    /\ Reconciles(p) => /\ applyLock = p
                        /\ want[p] = {g \in GatewayIds : Declared(g)}
    /\ \A t \in todo[p] : t.do = "destroy" => t.g \notin want[p]
    /\ pc[p] = "await_destroy" => cur[p].g \notin want[p]

\* a process without a job makes a call
LEMMA CallKeepsJobInv ==
  ASSUME TypeInv, JobInv, NEW p \in Procs, NEW st, NEW at \in Awaiting,
         \A j \in jobs : j.by # p, reply'[p] = "none",
         \A q \in Procs \ {p} : reply'[q] = reply[q] /\ cur'[q] = cur[q],
         Call(p, st, cur'[p], at)
  PROVE  JobInv'
<1> DEFINE new == [by |-> p, step |-> st, g |-> cur'[p].g, conf |-> cur'[p].conf]
<1>1. jobs' = jobs \cup {new}
  BY DEF Call
<1>2. \A j \in jobs : j.by \in Procs \cup {Nobody}
  BY DEF TypeInv, TypeOK, Job
<1>3. pc' = [pc EXCEPT ![p] = at] /\ pc \in [Procs -> PcStates]
  BY DEF Call, TypeInv, TypeOK
<1>4. new.by = p /\ new.g = cur'[p].g
  OBVIOUS
<1> HIDE DEF new
<1> QED BY <1>1, <1>2, <1>3, <1>4 DEF JobInv

\* a process without a job goes on with its work
LEMMA IdleKeepsJobInv ==
  ASSUME TypeInv, JobInv, NEW p \in Procs, UNCHANGED jobs,
         \A j \in jobs : j.by # p, pc'[p] \notin Awaiting, reply'[p] = "none",
         \A q \in Procs \ {p} : reply'[q] = reply[q] /\ cur'[q] = cur[q] /\ pc'[q] = pc[q]
  PROVE  JobInv'
<1>1. \A j \in jobs : j.by \in Procs \cup {Nobody}
  BY DEF TypeInv, TypeOK, Job
<1> QED BY <1>1 DEF JobInv

LEMMA EndKeepsJobInv ==
  ASSUME TypeInv, JobInv, NEW j \in jobs, NEW r, End(j, r), UNCHANGED procVars
  PROVE  JobInv'
<1>1. \A i \in jobs : i.by \in Procs \cup {Nobody}
  BY DEF TypeInv, TypeOK, Job
<1>2. \A i \in jobs' : i \in jobs /\ i # j
  BY DEF End
<1>3. \A i \in jobs' : i.by # Nobody => reply'[i.by] = reply[i.by]
  BY <1>1, <1>2 DEF End, JobInv, TypeInv, TypeOK
<1>4. \A q \in Procs : pc[q] \notin Awaiting => reply'[q] = "none"
  BY DEF End, JobInv, TypeInv, TypeOK
<1> QED BY <1>2, <1>3, <1>4 DEF JobInv, procVars

LEMMA GotoKeepsJobInv ==
  ASSUME TypeInv, JobInv, NEW j \in jobs, NEW st, Goto(j, st), UNCHANGED procVars
  PROVE  JobInv'
<1> DEFINE new == [j EXCEPT !.step = st]
<1>1. new.by = j.by /\ new.g = j.g
  BY DEF TypeInv, TypeOK, Job
<1>2. jobs' = (jobs \ {j}) \cup {new}
  BY DEF Goto
<1> HIDE DEF new
<1> QED BY <1>1, <1>2 DEF JobInv, Goto, procVars

LEMMA ProcessKeepsJobInv ==
  ASSUME TypeInv, JobInv, NEW p \in Procs,
         Begin(p) \/ Lock(p) \/ Handle(p) \/ ListFails(p) \/ TimeOut(p)
  PROVE  JobInv'
<1>i. ASSUME pc[p] \notin Awaiting \/ reply[p] # "none"
      PROVE  \A j \in jobs : j.by # p
  BY <1>i, GatewayAssumption DEF JobInv, Procs
<1>u. ASSUME pc[p] \notin Awaiting, UNCHANGED reply
      PROVE  reply'[p] = "none" /\ \A q \in Procs \ {p} : reply'[q] = reply[q]
  BY <1>u DEF JobInv
<1>n. ASSUME TakeReply(p)
      PROVE  reply'[p] = "none" /\ \A q \in Procs \ {p} : reply'[q] = reply[q]
  BY <1>n DEF TakeReply, TypeInv, TypeOK
<1> DEFINE Moves == /\ pc'[p] \notin Awaiting
                    /\ \A q \in Procs \ {p} : cur'[q] = cur[q] /\ pc'[q] = pc[q]
<1>p. ASSUME NEW o, NEW where \in {"list", "work"}, NEW tasks, NEW ids,
             Plan(p, o, where, tasks, ids)
      PROVE  Moves
  BY <1>p DEF Plan, TypeInv, TypeOK, Awaiting
<1>t. ASSUME NEW t, NextTask(p, t)
      PROVE  Moves
  BY <1>t DEF NextTask, TypeInv, TypeOK, Awaiting
<1>g. ASSUME NEW t, NEW n, GiveUp(p, t, n)
      PROVE  Moves
  <2>1. CASE op[p] = "startup" /\ n < Attempts
    BY <1>g, <2>1 DEF GiveUp, TypeInv, TypeOK, Awaiting
  <2>2. CASE ~(op[p] = "startup" /\ n < Attempts)
    BY <1>g, <1>t, <2>2 DEF GiveUp
  <2> QED BY <2>1, <2>2
<1>1. ASSUME NEW g \in GatewayIds, NEW s \in Settings, CreateGateway(p, g, s)
      PROVE  JobInv'
  BY <1>1, <1>i, <1>u, <1>p, IdleKeepsJobInv DEF CreateGateway, Awaiting
<1>2. ASSUME NEW g \in GatewayIds, NEW s \in Settings, UpdateGateway(p, g, s)
      PROVE  JobInv'
  BY <1>2, <1>i, <1>u, <1>p, IdleKeepsJobInv DEF UpdateGateway, Awaiting
<1>3. ASSUME NEW g \in GatewayIds, DeleteGateway(p, g)
      PROVE  JobInv'
  <2>1. \A j \in jobs : j.by # p
    BY <1>3, <1>i DEF DeleteGateway, Awaiting
  <2>2. \A q \in Procs \ {p} : cur'[q] = cur[q]
    BY <1>3 DEF DeleteGateway, TypeInv, TypeOK
  <2>3. reply'[p] = "none" /\ \A q \in Procs \ {p} : reply'[q] = reply[q]
    BY <1>3, <1>u DEF DeleteGateway, Awaiting
  <2>4. CASE status[g] \in {"stopped", "error"}
    BY <1>3, <2>1, <2>2, <2>3, <2>4, IdleKeepsJobInv DEF DeleteGateway, TypeInv, TypeOK, Awaiting
  <2>5. CASE status[g] \notin {"stopped", "error"}
    <3>1. Call(p, "take", cur'[p], "await_delete")
      BY <1>3, <2>5 DEF DeleteGateway
    <3> QED BY <2>1, <2>2, <2>3, <3>1, CallKeepsJobInv DEF Awaiting
  <2> QED BY <2>4, <2>5
<1>4. ASSUME NEW o \in {"start", "stop"}, NEW g \in GatewayIds, StartOrStop(p, o, g)
      PROVE  JobInv'
  BY <1>4, <1>i, <1>u, <1>p, IdleKeepsJobInv DEF StartOrStop, Awaiting
<1>5. ASSUME BeginApply(p)
      PROVE  JobInv'
  BY <1>5, <1>i, <1>u, IdleKeepsJobInv DEF BeginApply, Awaiting, TypeInv, TypeOK
<1>6. ASSUME NEW new \in [GatewayIds -> Settings \cup {Absent}], Commit(p, new)
      PROVE  JobInv'
  BY <1>6, <1>i, <1>u, <1>p, IdleKeepsJobInv DEF Commit, Awaiting
<1>7. ASSUME p = Startup, StartupDesired
      PROVE  JobInv'
  BY <1>7, <1>i, <1>u, <1>p, IdleKeepsJobInv DEF StartupDesired, Awaiting
<1>8. ASSUME ListUpstream(p)
      PROVE  JobInv'
  BY <1>8, <1>i, <1>u, IdleKeepsJobInv DEF ListUpstream, Awaiting, TypeInv, TypeOK
<1>9. ASSUME ListFails(p)
      PROVE  JobInv'
  BY <1>9, <1>i, <1>u, IdleKeepsJobInv DEF ListFails, Awaiting, TypeInv, TypeOK
<1>10. ASSUME DeleteReply(p)
       PROVE  JobInv'
  BY <1>10, <1>i, <1>n, IdleKeepsJobInv DEF DeleteReply, Awaiting, TypeInv, TypeOK
<1>11. ASSUME DeleteDone(p)
       PROVE  JobInv'
  BY <1>11, <1>i, <1>u, IdleKeepsJobInv DEF DeleteDone, Awaiting, TypeInv, TypeOK
<1>12. ASSUME Replace(p)
       PROVE  JobInv'
  <2>1. \A j \in jobs : j.by # p
    BY <1>12, <1>i DEF Replace, Awaiting
  <2>2. \A q \in Procs \ {p} : cur'[q] = cur[q]
    BY <1>12 DEF Replace, TypeInv, TypeOK
  <2>3. reply'[p] = "none" /\ \A q \in Procs \ {p} : reply'[q] = reply[q]
    BY <1>12, <1>n DEF Replace, Awaiting
  <2>4. Call(p, "take", cur'[p], "await_replace")
    BY <1>12 DEF Replace
  <2> QED BY <2>1, <2>2, <2>3, <2>4, CallKeepsJobInv DEF Awaiting
<1>13. ASSUME Recreate(p)
       PROVE  JobInv'
  <2>1. \A j \in jobs : j.by # p
    BY <1>13, <1>i DEF Recreate, Awaiting
  <2>2. \A q \in Procs \ {p} : cur'[q] = cur[q]
    BY <1>13 DEF Recreate, TypeInv, TypeOK
  <2>3. reply'[p] = "none" /\ \A q \in Procs \ {p} : reply'[q] = reply[q]
    BY <1>13, <1>n DEF Recreate, Awaiting
  <2>4. Call(p, "create", cur'[p], "await_recreate")
    BY <1>13 DEF Recreate
  <2> QED BY <2>1, <2>2, <2>3, <2>4, CallKeepsJobInv DEF Awaiting
<1>14. ASSUME Started(p)
       PROVE  JobInv'
  BY <1>14, <1>i, <1>n, <1>t, IdleKeepsJobInv DEF Reports, Started, Awaiting
<1>15. ASSUME NotStarted(p)
       PROVE  JobInv'
  BY <1>15, <1>i, <1>n, <1>g, IdleKeepsJobInv DEF NotStarted, Awaiting, StartFailed
<1>16. ASSUME Stopped(p)
       PROVE  JobInv'
  BY <1>16, <1>i, <1>n, <1>t, IdleKeepsJobInv DEF Stopped, Awaiting
<1>17. ASSUME Destroyed(p)
       PROVE  JobInv'
  BY <1>17, <1>i, <1>n, <1>t, <1>g, IdleKeepsJobInv DEF Destroyed, Awaiting
<1>18. ASSUME Return(p)
       PROVE  JobInv'
  BY <1>18, <1>i, <1>u, IdleKeepsJobInv DEF Return, Awaiting, TypeInv, TypeOK
<1>19. ASSUME NEW t \in Task, StartCall(p, t)
       PROVE  JobInv'
  <2>1. \A j \in jobs : j.by # p
    BY <1>19, <1>i DEF StartCall, Awaiting
  <2>2. \A q \in Procs \ {p} : cur'[q] = cur[q]
    BY <1>19 DEF StartCall, TypeInv, TypeOK
  <2>3. reply'[p] = "none" /\ \A q \in Procs \ {p} : reply'[q] = reply[q]
    BY <1>19, <1>u DEF StartCall, Awaiting
  <2>4. Call(p, "create", cur'[p], "await_create")
    BY <1>19 DEF StartCall
  <2> QED BY <2>1, <2>2, <2>3, <2>4, CallKeepsJobInv DEF Awaiting
<1>20. ASSUME NEW t \in Task, StopCall(p, t)
       PROVE  JobInv'
  <2>1. \A j \in jobs : j.by # p
    BY <1>20, <1>i DEF StopCall, Awaiting
  <2>2. \A q \in Procs \ {p} : cur'[q] = cur[q]
    BY <1>20 DEF StopCall, TypeInv, TypeOK
  <2>3. reply'[p] = "none" /\ \A q \in Procs \ {p} : reply'[q] = reply[q]
    BY <1>20, <1>u DEF StopCall, Awaiting
  <2>4. Call(p, "take", cur'[p], "await_stop")
    BY <1>20 DEF StopCall
  <2> QED BY <2>1, <2>2, <2>3, <2>4, CallKeepsJobInv DEF Awaiting
<1>21. ASSUME NEW t \in Task, DestroyCall(p, t)
       PROVE  JobInv'
  <2>1. \A j \in jobs : j.by # p
    BY <1>21, <1>i DEF DestroyCall, Awaiting
  <2>2. \A q \in Procs \ {p} : cur'[q] = cur[q]
    BY <1>21 DEF DestroyCall, TypeInv, TypeOK
  <2>3. reply'[p] = "none" /\ \A q \in Procs \ {p} : reply'[q] = reply[q]
    BY <1>21, <1>u DEF DestroyCall, Awaiting
  <2>4. Call(p, "take", cur'[p], "await_destroy")
    BY <1>21 DEF DestroyCall
  <2> QED BY <2>1, <2>2, <2>3, <2>4, CallKeepsJobInv DEF Awaiting
<1>22. ASSUME NEW t \in Task, CannotStart(p, t)
       PROVE  JobInv'
  BY <1>22, <1>i, <1>u, <1>g, IdleKeepsJobInv DEF CannotStart, Awaiting
<1>23. ASSUME NEW t \in Task, CannotStop(p, t)
       PROVE  JobInv'
  BY <1>23, <1>i, <1>u, IdleKeepsJobInv DEF CannotStop, Awaiting, TypeInv, TypeOK
<1>24. ASSUME TimeOut(p)
       PROVE  JobInv'
  <2>1. \A j \in jobs : j.by \in Procs \cup {Nobody} /\ [j EXCEPT !.by = Nobody].by = Nobody
    BY DEF TypeInv, TypeOK, Job
  <2>2. \A j \in jobs' : j.by # Nobody => j \in jobs /\ j.by # p
    BY <1>24, <2>1 DEF TimeOut
  <2> QED BY <1>24, <2>1, <2>2 DEF TimeOut, JobInv, procVars, TypeInv, TypeOK
<1> QED BY <1>1, <1>2, <1>3, <1>4, <1>5, <1>6, <1>7, <1>8, <1>9, <1>10, <1>11, <1>12, <1>13,
           <1>14, <1>15, <1>16, <1>17, <1>18, <1>19, <1>20, <1>21, <1>22, <1>23, <1>24
        DEF Begin, Lock, Handle

LEMMA JobStep == TypeInv /\ JobInv /\ [Next]_vars => JobInv'
<1> SUFFICES ASSUME TypeInv, JobInv, [Next]_vars
             PROVE  JobInv'
  OBVIOUS
<1>1. CASE UNCHANGED vars
  BY <1>1 DEF vars, procVars, JobInv
<1>2. ASSUME NEW j \in jobs, Serve(j) \/ JobFails(j) \/ JobDropped(j)
      PROVE  JobInv'
  <2>1. UNCHANGED procVars /\ ((\E r : End(j, r)) \/ (\E st : Goto(j, st)))
    BY <1>2 DEF Serve, LockRecords, RemoveStale, RunContainer, InsertRecord, AskStatus,
                TakeRecord, DropContainer, JobFails, JobDropped
  <2> QED BY <2>1, EndKeepsJobInv, GotoKeepsJobInv
<1>3. CASE HostRestart
  <2>1. \A p \in Procs : pc[p] \notin Awaiting => \A j \in jobs : j.by # p
    BY GatewayAssumption DEF JobInv, Procs
  <2>2. jobs' = {} /\ pc' = pc
    BY <1>3 DEF HostRestart, procVars
  <2>3. \A p \in Procs : (\A j \in jobs : j.by # p) => reply'[p] = reply[p]
    BY <1>3 DEF HostRestart
  <2> QED BY <2>1, <2>2, <2>3 DEF JobInv
<1>4. CASE ClientRestart
  <2>1. \A j \in jobs : [j EXCEPT !.by = Nobody].by = Nobody
    BY DEF TypeInv, TypeOK, Job
  <2> QED BY <1>4, <2>1 DEF ClientRestart, JobInv
<1> QED BY <1>1, <1>2, <1>3, <1>4, ProcessKeepsJobInv DEF Next

LEMMA ReconStep ==
  ASSUME Ops \subseteq {"apply"}, TypeInv, ReconInv, [Next]_vars
  PROVE  ReconInv'
<1> USE GatewayAssumption
<1> DEFINE Same(q) == /\ pc'[q] = pc[q] /\ want'[q] = want[q]
                      /\ todo'[q] = todo[q] /\ cur'[q] = cur[q]
\* a reconciliation goes on: it may move, drop tasks, and turn to another gateway
<1>m. ASSUME NEW p \in Procs, UNCHANGED <<doc, applyLock>>, want'[p] = want[p],
             \A q \in Procs \ {p} : Same(q), Reconciles(p) \/ ~Reconciles(p)',
             pc'[p] \notin {"delete", "await_delete"},
             \A t \in todo'[p] : t.do = "destroy" => t.g \notin want[p],
             pc'[p] = "await_destroy" => cur'[p].g \notin want[p]
      PROVE  ReconInv'
  BY <1>m DEF ReconInv, Reconciles, Declared
\* a reconciliation begins with apply_lock and the document
<1>b. ASSUME NEW p \in Procs, NEW o, NEW tasks, NEW ids, NEW d,
             applyLock = Nobody, applyLock' = p,
             doc' = d, ids = {g \in GatewayIds : d[g] # Absent},
             \A t \in tasks : t.do # "destroy",
             Plan(p, o, "list", tasks, ids)
      PROVE  ReconInv'
  <2>1. \A q \in Procs : ~Reconciles(q)
    BY <1>b DEF ReconInv, Procs
  <2>2. \A q \in Procs \ {p} : Same(q)
    BY <1>b DEF Plan, TypeInv, TypeOK
  <2>3. pc'[p] = "list" /\ want'[p] = ids /\ todo'[p] = tasks
    BY <1>b DEF Plan, TypeInv, TypeOK
  <2> QED BY <1>b, <2>1, <2>2, <2>3 DEF ReconInv, Reconciles, Declared, Awaiting
<1>t. ASSUME NEW p \in Procs, NEW t, NextTask(p, t), UNCHANGED <<doc, applyLock>>,
             Reconciles(p)
      PROVE  ReconInv'
  <2>1. /\ \A q \in Procs \ {p} : Same(q)
        /\ pc'[p] = "work" /\ want'[p] = want[p] /\ todo'[p] = todo[p] \ {t}
    BY <1>t DEF NextTask, TypeInv, TypeOK
  <2>2. \A u \in todo'[p] : u.do = "destroy" => u.g \notin want[p]
    BY <2>1 DEF ReconInv
  <2> QED BY <1>t, <2>1, <2>2, <1>m
<1>g. ASSUME NEW p \in Procs, NEW t, NEW n, GiveUp(p, t, n), UNCHANGED <<doc, applyLock>>,
             Reconciles(p)
      PROVE  ReconInv'
  <2>1. CASE op[p] = "startup" /\ n < Attempts
    <3>1. /\ \A q \in Procs \ {p} : Same(q)
          /\ pc'[p] = "work" /\ want'[p] = want[p] /\ todo'[p] = todo[p]
      BY <1>g, <2>1 DEF GiveUp, TypeInv, TypeOK
    <3>2. \A u \in todo'[p] : u.do = "destroy" => u.g \notin want[p]
      BY <3>1 DEF ReconInv
    <3> QED BY <1>g, <3>1, <3>2, <1>m
  <2>2. CASE ~(op[p] = "startup" /\ n < Attempts)
    BY <1>g, <1>t, <2>2 DEF GiveUp
  <2> QED BY <2>1, <2>2
<1>0. CASE UNCHANGED vars
  BY <1>0 DEF vars, procVars, ReconInv, Reconciles, Declared
<1>1. ASSUME NEW p \in Procs, Begin(p)
      PROVE  ReconInv'
  <2>1. BeginApply(p)
    BY <1>1 DEF Begin, CreateGateway, UpdateGateway, DeleteGateway, StartOrStop
  <2>2. /\ \A q \in Procs \ {p} : Same(q)
        /\ pc'[p] = "lock" /\ want'[p] = want[p] /\ todo'[p] = todo[p]
        /\ UNCHANGED <<doc, applyLock>>
    BY <2>1 DEF BeginApply, TypeInv, TypeOK
  <2> QED BY <2>2 DEF ReconInv, Reconciles, Declared, Awaiting
<1>2. ASSUME NEW p \in Procs, NEW new \in [GatewayIds -> Settings \cup {Absent}], Commit(p, new)
      PROVE  ReconInv'
  <2> DEFINE ids == {g \in GatewayIds : new[g] # Absent}
             tasks == {StartOrStopTask(new, g) : g \in {i \in ids : new[i] # doc[i]}}
  <2>1. \A t \in tasks : t.do # "destroy"
    BY DEF StartOrStopTask
  <2>2. Plan(p, "apply", "list", tasks, ids)
    BY <1>2 DEF Commit
  <2> HIDE DEF tasks
  <2> QED BY <1>2, <2>1, <2>2, <1>b DEF Commit
<1>3. CASE StartupDesired
  <2> DEFINE ids == {g \in GatewayIds : Declared(g)}
             tasks == {StartOrStopTask(doc, g) : g \in ids}
  <2>1. \A t \in tasks : t.do # "destroy"
    BY DEF StartOrStopTask
  <2>2. Plan(Startup, "startup", "list", tasks, ids)
    BY <1>3 DEF StartupDesired
  <2> HIDE DEF tasks
  <2> QED BY <1>3, <2>1, <2>2, <1>b DEF StartupDesired, Declared, Procs
<1>4. ASSUME NEW p \in Procs, ListUpstream(p)
      PROVE  ReconInv'
  <2>1. /\ \A q \in Procs \ {p} : Same(q)
        /\ pc'[p] = "work" /\ want'[p] = want[p] /\ UNCHANGED <<doc, applyLock>>
    BY <1>4 DEF ListUpstream, TypeInv, TypeOK
  <2>2. \A t \in todo'[p] : t \in todo[p] \/ t.g \notin want[p]
    BY <1>4 DEF ListUpstream, TypeInv, TypeOK
  <2>3. \A t \in todo'[p] : t.do = "destroy" => t.g \notin want[p]
    BY <2>2 DEF ReconInv
  <2> QED BY <1>4, <2>1, <2>3, <1>m DEF ListUpstream, Reconciles
<1>5. ASSUME NEW p \in Procs, ListFails(p)
      PROVE  ReconInv'
  <2>1. /\ \A q \in Procs \ {p} : Same(q)
        /\ pc'[p] = "work" /\ want'[p] = want[p] /\ todo'[p] \subseteq todo[p]
        /\ UNCHANGED <<doc, applyLock>>
    BY <1>5 DEF ListFails, TypeInv, TypeOK
  <2>2. \A t \in todo'[p] : t.do = "destroy" => t.g \notin want[p]
    BY <2>1 DEF ReconInv
  <2> QED BY <1>5, <2>1, <2>2, <1>m DEF ListFails, Reconciles
<1>6. ASSUME NEW p \in Procs, DeleteReply(p) \/ DeleteDone(p)
      PROVE  ReconInv'
  BY <1>6 DEF DeleteReply, DeleteDone, ReconInv
<1>7. ASSUME NEW p \in Procs, Replace(p) \/ Recreate(p)
      PROVE  ReconInv'
  <2>1. /\ \A q \in Procs \ {p} : Same(q)
        /\ pc'[p] \in {"await_replace", "await_recreate"} /\ want'[p] = want[p]
        /\ todo'[p] = todo[p] /\ UNCHANGED <<doc, applyLock>>
    BY <1>7 DEF Replace, Recreate, Call, TypeInv, TypeOK
  <2>2. \A t \in todo'[p] : t.do = "destroy" => t.g \notin want[p]
    BY <2>1 DEF ReconInv
  <2> QED BY <1>7, <2>1, <2>2, <1>m DEF Replace, Recreate, Reconciles, Awaiting
<1>8. ASSUME NEW p \in Procs, Started(p) \/ NotStarted(p) \/ Stopped(p) \/ Destroyed(p)
      PROVE  ReconInv'
  BY <1>8, <1>t, <1>g DEF Started, NotStarted, StartFailed, Stopped, Destroyed, Reconciles, Awaiting
<1>9. ASSUME NEW p \in Procs, Return(p)
      PROVE  ReconInv'
  <2>1. /\ \A q \in Procs \ {p} : Same(q)
        /\ pc'[p] = "idle" /\ todo'[p] = {}
    BY <1>9 DEF Return, TypeInv, TypeOK
  <2>2. \A q \in Procs \ {p} : Reconciles(q) => applyLock' = q
    BY <1>9 DEF Return, ReconInv, Reconciles
  <2>3. UNCHANGED doc
    BY <1>9 DEF Return
  <2> QED BY <2>1, <2>2, <2>3 DEF ReconInv, Reconciles, Declared, Awaiting
<1>10. ASSUME NEW p \in Procs, NEW t \in Task, StartCall(p, t) \/ StopCall(p, t) \/ DestroyCall(p, t)
       PROVE  ReconInv'
  <2>1. /\ \A q \in Procs \ {p} : Same(q)
        /\ pc'[p] \in {"await_create", "await_stop", "await_destroy"} /\ want'[p] = want[p]
        /\ todo'[p] = todo[p] /\ cur'[p].g = t.g /\ UNCHANGED <<doc, applyLock>>
    BY <1>10 DEF StartCall, StopCall, DestroyCall, Call, TypeInv, TypeOK
  <2>2. \A u \in todo'[p] : u.do = "destroy" => u.g \notin want[p]
    BY <2>1 DEF ReconInv
  <2>3. pc'[p] = "await_destroy" => t.do = "destroy" /\ t \in todo[p]
    BY <1>10 DEF StartCall, StopCall, DestroyCall, IsNext, Call, TypeInv, TypeOK
  <2> QED BY <1>10, <2>1, <2>2, <2>3, <1>m DEF StartCall, StopCall, DestroyCall, Reconciles
<1>11. ASSUME NEW p \in Procs, NEW t \in Task, CannotStart(p, t)
       PROVE  ReconInv'
  BY <1>11, <1>g DEF CannotStart, Reconciles
<1>12. ASSUME NEW p \in Procs, NEW t \in Task, CannotStop(p, t)
       PROVE  ReconInv'
  <2>1. /\ \A q \in Procs \ {p} : Same(q)
        /\ pc'[p] = "work" /\ want'[p] = want[p] /\ todo'[p] \subseteq todo[p]
        /\ UNCHANGED <<doc, applyLock>>
    BY <1>12 DEF CannotStop, TypeInv, TypeOK
  <2>2. \A u \in todo'[p] : u.do = "destroy" => u.g \notin want[p]
    BY <2>1 DEF ReconInv
  <2> QED BY <1>12, <2>1, <2>2, <1>m DEF CannotStop, Reconciles
<1>13. ASSUME NEW p \in Procs, TimeOut(p)
       PROVE  ReconInv'
  BY <1>13 DEF TimeOut, procVars, ReconInv, Reconciles, Declared
<1>14. ASSUME NEW j \in jobs, Serve(j) \/ JobFails(j) \/ JobDropped(j)
       PROVE  ReconInv'
  <2>1. UNCHANGED <<doc, applyLock, procVars>>
    BY <1>14 DEF Serve, LockRecords, RemoveStale, RunContainer, InsertRecord, AskStatus,
                 TakeRecord, DropContainer, JobFails, JobDropped
  <2> QED BY <2>1 DEF procVars, ReconInv, Reconciles, Declared
<1>15. CASE HostRestart
  BY <1>15 DEF HostRestart, procVars, ReconInv, Reconciles, Declared
<1>16. CASE ClientRestart
  BY <1>16 DEF ClientRestart, ReconInv, Reconciles, Declared, Awaiting
<1> QED BY <1>0, <1>1, <1>2, <1>3, <1>4, <1>5, <1>6, <1>7, <1>8, <1>9, <1>10, <1>11, <1>12,
           <1>13, <1>14, <1>15, <1>16
        DEF Next, Lock, Handle

\* As long as the document changes only by applies, a reconciliation destroys
\* as an orphan only what the document does not have: apply_lock suffices,
\* whatever times out, fails or restarts.
THEOREM AppliesDestroyOrphansOnly ==
  ASSUME Ops \subseteq {"apply"}
  PROVE  Spec => OrphansOnly
<1> DEFINE Inv == TypeInv /\ JobInv /\ ReconInv
<1>1. Init => Inv
  <2>1. Init => JobInv
    BY DEF Init, JobInv
  <2>2. Init => ReconInv
    BY DEF Init, ReconInv, Reconciles, Awaiting
  <2> QED BY <2>1, <2>2, TypeInit
<1>2. Inv /\ [Next]_vars => Inv'
  BY TypeStep, JobStep, ReconStep
<1>3. Inv => \A j \in jobs : TakeRecord(j) /\ j.by # Nobody /\ pc[j.by] = "await_destroy"
                               => ~Declared(j.g)
  <2> SUFFICES ASSUME Inv, NEW j \in jobs, j.by # Nobody, pc[j.by] = "await_destroy"
               PROVE  ~Declared(j.g)
    OBVIOUS
  <2>1. j.by \in Procs /\ j.g \in GatewayIds
    BY DEF TypeInv, TypeOK, Job
  <2>2. j.g = cur[j.by].g
    BY DEF JobInv
  <2>3. j.g \notin want[j.by] /\ want[j.by] = {g \in GatewayIds : Declared(g)}
    BY <2>1, <2>2 DEF ReconInv, Reconciles, Awaiting
  <2> QED BY <2>1, <2>3
<1> HIDE DEF Inv
<1>4. Inv => [\A j \in jobs : TakeRecord(j) /\ j.by # Nobody /\ pc[j.by] = "await_destroy"
                               => ~Declared(j.g)]_vars
  BY <1>3
<1> QED BY <1>1, <1>2, <1>4, PTL DEF Spec, OrphansOnly

----------------------------------------------------------------------------
(* One process at a time                                                   *)

\* no call is given up and nothing restarts, and the operators wait for each
\* answer or there are only applies
Orderly ==
  /\ FaultKinds \subseteq {"call", "config"}
  /\ ~Concurrent \/ Ops \subseteq {"apply"}

Reconciling == {"apply", "startup"}

\* a process between its first step under apply_lock, or its request, and its end
Busy(p) == pc[p] \notin {"idle", "lock"}

TurnInv ==
  /\ \A j \in jobs : j.by # Nobody
  /\ ~Concurrent => \A p, q \in Procs : pc[p] # "idle" /\ pc[q] # "idle" => p = q
  /\ \A p \in Procs : op[p] \in Reconciling /\ Reconciles(p) => applyLock = p
  /\ \A p \in Procs : pc[p] \in {"delete", "await_delete"} => op[p] = "delete"
  /\ Ops \subseteq {"apply"} => \A p \in Procs : Busy(p) => op[p] \in Reconciling

\* what a step of p leaves to the others
Others(p) ==
  \A q \in Procs \ {p} : /\ pc'[q] = pc[q] /\ op'[q] = op[q] /\ want'[q] = want[q]
                         /\ todo'[q] = todo[q] /\ cur'[q] = cur[q] /\ tries'[q] = tries[q]
                         /\ reply'[q] = reply[q]

LEMMA OneBusy ==
  ASSUME Orderly, TypeInv, TurnInv, NEW p \in Procs, NEW q \in Procs, Busy(p), Busy(q)
  PROVE  p = q
<1>1. CASE ~Concurrent
  BY <1>1 DEF TurnInv, Busy
<1>2. CASE Ops \subseteq {"apply"}
  <2>1. ASSUME NEW r \in Procs, Busy(r) PROVE applyLock = r
    <3>1. op[r] \in Reconciling
      BY <1>2, <2>1 DEF TurnInv
    <3>2. Reconciles(r)
      BY <2>1, <3>1 DEF TurnInv, TypeInv, TypeOK, PcStates, Busy, Reconciles, Reconciling, Awaiting
    <3> QED BY <3>1, <3>2 DEF TurnInv
  <2> QED BY <2>1
<1> QED BY <1>1, <1>2 DEF Orderly

LEMMA NoOther ==
  ASSUME Orderly, TypeInv, JobInv, TurnInv, NEW p \in Procs, Busy(p)
  PROVE  /\ \A q \in Procs \ {p} : pc[q] \notin Awaiting /\ reply[q] = "none"
         /\ \A j \in jobs : j.by = p
         /\ \A i, j \in jobs : i = j
<1>1. \A q \in Procs \ {p} : pc[q] \notin Awaiting
  BY OneBusy DEF Busy, Awaiting
<1>2. \A q \in Procs \ {p} : reply[q] = "none"
  BY <1>1 DEF JobInv
<1>3. \A j \in jobs : j.by = p
  <2> TAKE j \in jobs
  <2>1. j.by \in Procs /\ pc[j.by] \in Awaiting
    BY DEF TypeInv, TypeOK, Job, TurnInv, JobInv
  <2> QED BY <1>1, <2>1
<1>4. \A i, j \in jobs : i = j
  BY <1>3, GatewayAssumption DEF JobInv, TurnInv
<1> QED BY <1>1, <1>2, <1>3, <1>4

\* a process that is not waiting has no job
LEMMA NoJob ==
  ASSUME JobInv, NEW p \in Procs, pc[p] \notin Awaiting \/ reply[p] # "none"
  PROVE  \A j \in jobs : j.by # p
BY GatewayAssumption DEF JobInv, Procs

LEMMA PlanEffect ==
  ASSUME TypeInv, NEW p \in Procs, NEW o, NEW where, NEW tasks, NEW ids,
         Plan(p, o, where, tasks, ids), reply' = reply
  PROVE  /\ Others(p)
         /\ op'[p] = o /\ pc'[p] = where /\ todo'[p] = tasks /\ want'[p] = ids
         /\ cur'[p] = NoWork /\ tries'[p] = 0
BY DEF Plan, TypeInv, TypeOK, Others

LEMMA NextTaskEffect ==
  ASSUME TypeInv, NEW p \in Procs, NEW t, NextTask(p, t), reply' = reply \/ TakeReply(p)
  PROVE  /\ Others(p)
         /\ op'[p] = op[p] /\ pc'[p] = "work" /\ todo'[p] = todo[p] \ {t} /\ want'[p] = want[p]
         /\ cur'[p] = NoWork /\ tries'[p] = 0
BY DEF NextTask, TypeInv, TypeOK, Others, TakeReply

LEMMA GiveUpEffect ==
  ASSUME TypeInv, NEW p \in Procs, NEW t, NEW n, GiveUp(p, t, n), reply' = reply \/ TakeReply(p)
  PROVE  /\ Others(p)
         /\ op'[p] = op[p] /\ pc'[p] = "work" /\ want'[p] = want[p]
         /\ IF op[p] = "startup" /\ n < Attempts
              THEN todo'[p] = todo[p] /\ tries'[p] = n
              ELSE todo'[p] = todo[p] \ {t} /\ tries'[p] = 0
<1>1. CASE op[p] = "startup" /\ n < Attempts
  BY <1>1 DEF GiveUp, TypeInv, TypeOK, Others, TakeReply
<1>2. CASE ~(op[p] = "startup" /\ n < Attempts)
  BY <1>2, NextTaskEffect DEF GiveUp
<1> QED BY <1>1, <1>2

\* a call for the gateway the process turns to, or stays with
LEMMA CallEffect ==
  ASSUME TypeInv, NEW p \in Procs, NEW st, NEW w, NEW at, Call(p, st, w, at),
         UNCHANGED <<op, want, todo, tries>>,
         reply' = reply \/ TakeReply(p), cur' = cur \/ cur' = [cur EXCEPT ![p] = w]
  PROVE  /\ Others(p)
         /\ op'[p] = op[p] /\ pc'[p] = at /\ todo'[p] = todo[p] /\ want'[p] = want[p]
         /\ tries'[p] = tries[p]
BY DEF Call, TypeInv, TypeOK, Others, TakeReply

\* a step of p, seen by the rest
LEMMA TurnMove ==
  ASSUME TypeInv, TurnInv, NEW p \in Procs, Others(p), \A j \in jobs' : j.by # Nobody,
         pc[p] # "idle" \/ Quiet \/ Concurrent,
         \/ applyLock' = applyLock
         \/ applyLock = Nobody /\ applyLock' = p
         \/ applyLock = p /\ ~Reconciles(p)',
         op'[p] \in Reconciling /\ Reconciles(p)' => applyLock' = p,
         pc'[p] \in {"delete", "await_delete"} => op'[p] = "delete",
         Ops \subseteq {"apply"} /\ Busy(p)' => op'[p] \in Reconciling
  PROVE  TurnInv'
<1>1. ~Concurrent => \A q, r \in Procs : pc'[q] # "idle" /\ pc'[r] # "idle" => q = r
  <2> SUFFICES ASSUME ~Concurrent PROVE \A q \in Procs \ {p} : pc[q] = "idle"
    BY DEF Others
  <2> QED BY DEF TurnInv, Quiet
<1>2. ASSUME NEW q \in Procs, op'[q] \in Reconciling, Reconciles(q)' PROVE applyLock' = q
  <2>1. CASE q = p
    BY <1>2, <2>1
  <2>2. CASE q # p
    <3>1. op[q] \in Reconciling /\ Reconciles(q)
      BY <1>2, <2>2 DEF Others, Reconciles
    <3>2. applyLock = q
      BY <3>1 DEF TurnInv
    <3> QED BY <2>2, <3>2, GatewayAssumption
  <2> QED BY <2>1, <2>2
<1>3. ASSUME Ops \subseteq {"apply"}, NEW q \in Procs, Busy(q)'
      PROVE  op'[q] \in Reconciling
  <2>1. CASE q = p
    BY <1>3, <2>1
  <2>2. CASE q # p
    BY <1>3, <2>2 DEF Others, Busy, TurnInv
  <2> QED BY <2>1, <2>2
<1>4. ASSUME NEW q \in Procs, pc'[q] \in {"delete", "await_delete"} PROVE op'[q] = "delete"
  BY <1>4 DEF Others, TurnInv
<1> QED BY <1>1, <1>2, <1>3, <1>4 DEF TurnInv

\* every step of a process leaves the others, the records and the containers alone
LEMMA ProcFrame ==
  ASSUME TypeInv, NEW p \in Procs, Begin(p) \/ Lock(p) \/ Handle(p)
  PROVE  Others(p) /\ UNCHANGED <<rec, cont>>
<1>1. ASSUME Begin(p) PROVE Others(p) /\ UNCHANGED <<rec, cont>>
  <2>1. ASSUME NEW g \in GatewayIds, NEW s \in Settings, CreateGateway(p, g, s) \/ UpdateGateway(p, g, s)
        PROVE  Others(p) /\ UNCHANGED <<rec, cont>>
    BY <2>1, PlanEffect DEF CreateGateway, UpdateGateway
  <2>2. ASSUME NEW g \in GatewayIds, DeleteGateway(p, g)
        PROVE  Others(p) /\ UNCHANGED <<rec, cont>>
    BY <2>2 DEF DeleteGateway, Call, TypeInv, TypeOK, Others
  <2>3. ASSUME NEW g \in GatewayIds, NEW o \in {"start", "stop"}, StartOrStop(p, o, g)
        PROVE  Others(p) /\ UNCHANGED <<rec, cont>>
    BY <2>3, PlanEffect DEF StartOrStop
  <2>4. CASE BeginApply(p)
    BY <2>4 DEF BeginApply, TypeInv, TypeOK, Others
  <2> QED BY <1>1, <2>1, <2>2, <2>3, <2>4 DEF Begin
<1>2. ASSUME Lock(p) PROVE Others(p) /\ UNCHANGED <<rec, cont>>
  <2>1. ASSUME NEW new \in [GatewayIds -> Settings \cup {Absent}], Commit(p, new)
        PROVE  Others(p) /\ UNCHANGED <<rec, cont>>
    BY <2>1, PlanEffect DEF Commit
  <2>2. CASE p = Startup /\ StartupDesired
    BY <2>2, PlanEffect DEF StartupDesired
  <2> QED BY <1>2, <2>1, <2>2 DEF Lock
<1>3. ASSUME Handle(p) PROVE Others(p) /\ UNCHANGED <<rec, cont>>
  <2>1. CASE ListUpstream(p) \/ DeleteReply(p) \/ DeleteDone(p) \/ Return(p)
    BY <2>1 DEF ListUpstream, DeleteReply, DeleteDone, Return, TakeReply, TypeInv, TypeOK, Others
  <2>2. CASE Replace(p) \/ Recreate(p)
    BY <2>2, CallEffect DEF Replace, Recreate
  <2>3. CASE Started(p) \/ NotStarted(p) \/ Stopped(p) \/ Destroyed(p)
    BY <2>3, NextTaskEffect, GiveUpEffect DEF Started, NotStarted, Stopped, Destroyed
  <2>4. ASSUME NEW t \in Task, StartCall(p, t) \/ StopCall(p, t) \/ DestroyCall(p, t)
        PROVE  Others(p) /\ UNCHANGED <<rec, cont>>
    BY <2>4 DEF StartCall, StopCall, DestroyCall, Call, TypeInv, TypeOK, Others
  <2>5. ASSUME NEW t \in Task, CannotStart(p, t)
        PROVE  Others(p) /\ UNCHANGED <<rec, cont>>
    BY <2>5, GiveUpEffect DEF CannotStart
  <2>6. ASSUME NEW t \in Task, CannotStop(p, t)
        PROVE  Others(p) /\ UNCHANGED <<rec, cont>>
    BY <2>6 DEF CannotStop, TypeInv, TypeOK, Others
  <2> QED BY <1>3, <2>1, <2>2, <2>3, <2>4, <2>5, <2>6 DEF Handle
<1> QED BY <1>1, <1>2, <1>3

\* where a process goes from its work
LEMMA HandleMoves ==
  ASSUME TypeInv, NEW p \in Procs, Handle(p)
  PROVE  /\ Busy(p)
         /\ \/ /\ op'[p] = op[p] /\ applyLock' = applyLock /\ Reconciles(p) /\ Busy(p)'
               /\ pc'[p] = "delete" => pc[p] = "await_delete"
               /\ pc'[p] # "await_delete"
            \/ op'[p] = "none" /\ pc'[p] = "idle" /\ pc[p] \in {"work", "delete"}
               /\ (applyLock' = applyLock \/ applyLock = p)
         /\ \A j \in jobs' : j \in jobs \/ j.by = p
<1>1. CASE ListUpstream(p) \/ DeleteReply(p)
  BY <1>1 DEF ListUpstream, DeleteReply, TypeInv, TypeOK, Busy, Reconciles, Awaiting
<1>2. CASE DeleteDone(p) \/ Return(p)
  BY <1>2 DEF DeleteDone, Return, TypeInv, TypeOK, Busy
<1>3. CASE Replace(p) \/ Recreate(p)
  BY <1>3 DEF Replace, Recreate, Call, Busy, Reconciles, Awaiting, TypeInv, TypeOK
<1>4. CASE Started(p) \/ NotStarted(p) \/ Stopped(p) \/ Destroyed(p)
  BY <1>4, NextTaskEffect, GiveUpEffect
     DEF Started, NotStarted, StartFailed, Stopped, Destroyed, Busy, Reconciles, Awaiting
<1>5. ASSUME NEW t \in Task, StartCall(p, t) \/ StopCall(p, t) \/ DestroyCall(p, t)
      PROVE  /\ op'[p] = op[p] /\ applyLock' = applyLock /\ pc[p] = "work"
             /\ pc'[p] \in {"await_create", "await_stop", "await_destroy"}
             /\ \A j \in jobs' : j \in jobs \/ j.by = p
  BY <1>5 DEF StartCall, StopCall, DestroyCall, Call, TypeInv, TypeOK
<1>6. ASSUME NEW t \in Task, CannotStart(p, t)
      PROVE  /\ op'[p] = op[p] /\ applyLock' = applyLock /\ pc[p] = "work" /\ pc'[p] = "work"
             /\ jobs' = jobs
  BY <1>6, GiveUpEffect DEF CannotStart
<1>7. ASSUME NEW t \in Task, CannotStop(p, t)
      PROVE  /\ op'[p] = op[p] /\ applyLock' = applyLock /\ pc[p] = "work" /\ pc'[p] = "work"
             /\ jobs' = jobs
  BY <1>7 DEF CannotStop
<1> QED BY <1>1, <1>2, <1>3, <1>4, <1>5, <1>6, <1>7 DEF Handle, Busy, Reconciles

\* where no call is given up and nothing restarts, every step is one of these
LEMMA OrderlySteps ==
  ASSUME Orderly, TurnInv, Next
  PROVE  \/ \E p \in Procs : Begin(p) \/ Lock(p) \/ Handle(p)
         \/ \E j \in jobs : Serve(j) \/ JobFails(j)
BY DEF Orderly, TurnInv, Next, ListFails, TimeOut, HostRestart, ClientRestart, JobDropped, Fault

LEMMA ServeFrame ==
  ASSUME NEW j \in jobs, Serve(j) \/ JobFails(j)
  PROVE  UNCHANGED <<doc, status, procVars, applyLock>>
BY DEF Serve, LockRecords, RemoveStale, RunContainer, InsertRecord, AskStatus, TakeRecord,
       DropContainer, JobFails

LEMMA TurnStep ==
  ASSUME Orderly, TypeInv, TypeInv', TurnInv, [Next]_vars
  PROVE  TurnInv'
<1> USE GatewayAssumption
<1>0. CASE UNCHANGED vars
  BY <1>0 DEF vars, procVars, TurnInv, Busy, Reconciles
<1>1. ASSUME NEW p \in Procs, Begin(p) PROVE TurnInv'
  <2>1. Others(p)
    BY <1>1, ProcFrame
  <2>2. pc[p] # "idle" \/ Quiet \/ Concurrent
    BY <1>1 DEF Begin
  <2>3. p # Nobody
    BY DEF Procs
  <2>4. ASSUME NEW g \in GatewayIds, NEW s \in Settings, CreateGateway(p, g, s) \/ UpdateGateway(p, g, s)
        PROVE  TurnInv'
    <3>1. /\ applyLock' = applyLock /\ jobs' = jobs /\ pc'[p] = "work"
          /\ op'[p] \in {"create", "update"} /\ ~(Ops \subseteq {"apply"})
      BY <2>4, PlanEffect DEF CreateGateway, UpdateGateway
    <3> QED BY <2>1, <2>2, <3>1, TurnMove DEF TurnInv, Reconciling
  <2>5. ASSUME NEW g \in GatewayIds, DeleteGateway(p, g) PROVE TurnInv'
    <3>1. /\ applyLock' = applyLock /\ \A j \in jobs' : j \in jobs \/ j.by = p
          /\ op'[p] = "delete" /\ ~(Ops \subseteq {"apply"})
      BY <2>5 DEF DeleteGateway, Call, TypeInv, TypeOK
    <3> QED BY <2>1, <2>2, <2>3, <3>1, TurnMove DEF TurnInv, Reconciling
  <2>6. ASSUME NEW g \in GatewayIds, NEW o \in {"start", "stop"}, StartOrStop(p, o, g)
        PROVE  TurnInv'
    <3>1. /\ applyLock' = applyLock /\ jobs' = jobs /\ pc'[p] = "work"
          /\ op'[p] \in {"start", "stop"} /\ ~(Ops \subseteq {"apply"})
      BY <2>6, PlanEffect DEF StartOrStop
    <3> QED BY <2>1, <2>2, <3>1, TurnMove DEF TurnInv, Reconciling
  <2>7. CASE BeginApply(p)
    <3>1. applyLock' = applyLock /\ jobs' = jobs /\ pc'[p] = "lock"
      BY <2>7 DEF BeginApply, TypeInv, TypeOK
    <3> QED BY <2>1, <2>2, <3>1, TurnMove DEF TurnInv, Reconciles, Busy, Awaiting
  <2> QED BY <1>1, <2>4, <2>5, <2>6, <2>7 DEF Begin
<1>2. ASSUME NEW p \in Procs, Lock(p) PROVE TurnInv'
  <2>1. /\ applyLock = Nobody /\ applyLock' = p /\ jobs' = jobs /\ pc[p] = "lock" /\ pc'[p] = "list"
        /\ op'[p] \in Reconciling
    <3>1. ASSUME NEW new \in [GatewayIds -> Settings \cup {Absent}], Commit(p, new)
          PROVE  /\ applyLock = Nobody /\ applyLock' = p /\ jobs' = jobs /\ pc[p] = "lock"
                 /\ pc'[p] = "list" /\ op'[p] = "apply"
      BY <3>1, PlanEffect DEF Commit
    <3>2. ASSUME p = Startup, StartupDesired
          PROVE  /\ applyLock = Nobody /\ applyLock' = p /\ jobs' = jobs /\ pc[p] = "lock"
                 /\ pc'[p] = "list" /\ op'[p] = "startup"
      BY <3>2, PlanEffect DEF StartupDesired
    <3> QED BY <1>2, <3>1, <3>2 DEF Lock, Reconciling
  <2> QED BY <1>2, <2>1, ProcFrame, TurnMove DEF TurnInv
<1>3. ASSUME NEW p \in Procs, Handle(p) PROVE TurnInv'
  <2>1. Others(p)
    BY <1>3, ProcFrame
  <2>2. \A j \in jobs' : j.by # Nobody
    BY <1>3, HandleMoves DEF TurnInv, Procs
  <2>3. pc[p] # "idle"
    BY <1>3, HandleMoves DEF Busy
  <2>4. CASE /\ op'[p] = op[p] /\ applyLock' = applyLock /\ Reconciles(p) /\ Busy(p)'
             /\ pc'[p] = "delete" => pc[p] = "await_delete"
             /\ pc'[p] # "await_delete"
    <3>1. Busy(p)
      BY <1>3, HandleMoves
    <3> QED BY <2>1, <2>2, <2>3, <2>4, <3>1, TurnMove DEF TurnInv
  <2>5. CASE op'[p] = "none" /\ pc'[p] = "idle" /\ (applyLock' = applyLock \/ applyLock = p)
    <3>1. ~Reconciles(p)' /\ ~Busy(p)'
      BY <2>5 DEF Reconciles, Awaiting, Busy
    <3> QED BY <2>1, <2>2, <2>3, <2>5, <3>1, TurnMove
  <2> QED BY <1>3, <2>4, <2>5, HandleMoves
<1>4. ASSUME NEW j \in jobs, Serve(j) \/ JobFails(j) PROVE TurnInv'
  <2>1. UNCHANGED <<procVars, applyLock>>
    BY <1>4, ServeFrame
  <2>2. (\E r : End(j, r)) \/ (\E st : Goto(j, st))
    BY <1>4 DEF Serve, LockRecords, RemoveStale, RunContainer, InsertRecord, AskStatus,
                TakeRecord, DropContainer, JobFails
  <2>3. \A i \in jobs' : i.by # Nobody
    <3>1. j.by # Nobody /\ \A st : [j EXCEPT !.step = st].by = j.by
      BY DEF TurnInv, TypeInv, TypeOK, Job
    <3>2. \A i \in jobs' : i \in jobs \/ \E st : i = [j EXCEPT !.step = st]
      BY <2>2 DEF End, Goto
    <3> QED BY <3>1, <3>2 DEF TurnInv
  <2> QED BY <2>1, <2>3 DEF procVars, TurnInv, Busy, Reconciles
<1> QED BY <1>0, <1>1, <1>2, <1>3, <1>4, OrderlySteps

----------------------------------------------------------------------------
(* What an answer says                                                     *)

Creating == {"await_create", "await_recreate"}
Starting == Creating \cup {"await_replace"}

StartOf(g)   == [do |-> "start", g |-> g]
StopOf(g)    == [do |-> "stop", g |-> g]
DestroyOf(g) == [do |-> "destroy", g |-> g]

\* how far the call of the process at work has come, with the record and the
\* container of its gateway
JobOK(j) ==
  /\ j.conf = cur[j.by].conf
  /\ j.step \in IF pc[j.by] \in Creating THEN {"create", "status"} \cup CreateSteps
                                         ELSE {"take", "drop"}
  /\ j.step \in CreateSteps \cup {"drop"} => rec[j.g] = NoConf
  /\ j.step = "create" /\ pc[j.by] = "await_recreate" => rec[j.g] = NoConf
  /\ j.step = "ready" => cont[j.g] = j.conf
  /\ j.step = "status" => rec[j.g] = j.conf /\ cont[j.g] = j.conf

\* what the answer to process p means
ReplyOK(p) ==
  /\ pc[p] \in Creating => reply[p] \in {"none", "conflict", "err"} \cup Reports
  /\ pc[p] \in Awaiting \ Creating => reply[p] \in {"none", "ok", "err"}
  /\ pc[p] = "await_recreate" => reply[p] # "conflict"
  /\ reply[p] \in Reports => rec[cur[p].g] = cur[p].conf /\ cont[cur[p].g] = cur[p].conf
  /\ pc[p] = "await_replace" /\ reply[p] = "ok" => rec[cur[p].g] = NoConf

\* a start has the settings the document has
StartOK(p) ==
  pc[p] \in Starting => /\ Declared(cur[p].g)
                        /\ cur[p].conf = doc[cur[p].g].conf
                        /\ StartOf(cur[p].g) \in todo[p]

CallInv ==
  /\ \A j \in jobs : JobOK(j)
  /\ \A p \in Procs : ReplyOK(p) /\ StartOK(p)

\* the types of what a waiting process and its job are about
LEMMA CurTypes ==
  ASSUME TypeInv, CallInv, NEW p \in Procs, pc[p] \in Awaiting
  PROVE  /\ cur[p].g \in GatewayIds
         /\ cur[p].conf \in Confs \cup {NoConf}
         /\ pc[p] \in Starting => cur[p].conf \in Confs /\ cur[p].conf # NoConf
<1>1. cur[p].g \in GatewayIds
  BY DEF TypeInv, CurInv
<1>2. cur[p].conf \in Confs \cup {NoConf}
  BY DEF TypeInv, TypeOK, NoWork
<1>3. ASSUME pc[p] \in Starting PROVE cur[p].conf \in Confs /\ cur[p].conf # NoConf
  <2>1. Declared(cur[p].g) /\ cur[p].conf = doc[cur[p].g].conf
    BY <1>3 DEF CallInv, StartOK
  <2>2. doc[cur[p].g] \in Settings
    BY <1>1, <2>1 DEF Declared, TypeInv, TypeOK
  <2> QED BY <2>1, <2>2, GatewayAssumption DEF Settings
<1> QED BY <1>1, <1>2, <1>3

\* p makes no call
LEMMA CallRest ==
  ASSUME TypeInv, JobInv, CallInv, NEW p \in Procs, Others(p), UNCHANGED <<jobs, rec, cont>>,
         \A j \in jobs : j.by \in Procs \ {p},
         pc'[p] \notin Awaiting, reply'[p] = "none",
         doc' = doc \/ \A q \in Procs \ {p} : ~Busy(q)
  PROVE  CallInv'
<1>1. ASSUME NEW j \in jobs PROVE JobOK(j)'
  <2>1. j.by \in Procs \ {p} /\ JobOK(j)
    BY DEF CallInv
  <2>2. pc'[j.by] = pc[j.by] /\ cur'[j.by] = cur[j.by]
    BY <2>1 DEF Others
  <2> QED BY <2>1, <2>2 DEF JobOK
<1>2. ASSUME NEW q \in Procs PROVE ReplyOK(q)'
  <2>1. CASE q = p
    BY <2>1 DEF Reports, ReplyOK, Creating, Awaiting
  <2>2. CASE q # p
    <3>1. pc'[q] = pc[q] /\ cur'[q] = cur[q] /\ reply'[q] = reply[q] /\ ReplyOK(q)
      BY <2>2 DEF Others, CallInv
    <3> QED BY <3>1 DEF ReplyOK
  <2> QED BY <2>1, <2>2
<1>3. ASSUME NEW q \in Procs PROVE StartOK(q)'
  <2>1. CASE q = p
    BY <2>1 DEF StartOK, Starting, Creating, Awaiting
  <2>2. CASE q # p
    <3>1. pc'[q] = pc[q] /\ cur'[q] = cur[q] /\ todo'[q] = todo[q] /\ StartOK(q)
      BY <2>2 DEF Others, CallInv
    <3>2. CASE doc' = doc
      BY <3>1, <3>2 DEF StartOK, Declared
    <3>3. CASE ~Busy(q)
      BY <3>1, <3>3 DEF StartOK, Starting, Creating, Busy
    <3> QED BY <2>2, <3>2, <3>3
  <2> QED BY <2>1, <2>2
<1> QED BY <1>1, <1>2, <1>3 DEF CallInv

\* p makes a call
LEMMA CallMade ==
  ASSUME TypeInv, JobInv, CallInv, NEW p \in Procs, Others(p), UNCHANGED <<doc, rec, cont>>,
         \A j \in jobs : j.by \in Procs \ {p},
         NEW st, NEW at \in Awaiting, Call(p, st, cur'[p], at),
         reply'[p] = "none", pc'[p] = at,
         st = IF at \in Creating THEN "create" ELSE "take",
         at = "await_recreate" => rec[cur'[p].g] = NoConf,
         StartOK(p)'
  PROVE  CallInv'
<1>0. PICK new : new = [by |-> p, step |-> st, g |-> cur'[p].g, conf |-> cur'[p].conf]
  OBVIOUS
<1>1. jobs' = jobs \cup {new}
  BY <1>0 DEF Call
<1>2. new.by = p /\ new.step = st /\ new.g = cur'[p].g /\ new.conf = cur'[p].conf
  BY <1>0
<1>3. JobOK(new)'
  BY <1>2 DEF JobOK, CreateSteps
<1>4. ASSUME NEW j \in jobs PROVE JobOK(j)'
  <2>1. j.by \in Procs \ {p} /\ JobOK(j)
    BY DEF CallInv
  <2>2. pc'[j.by] = pc[j.by] /\ cur'[j.by] = cur[j.by]
    BY <2>1 DEF Others
  <2> QED BY <2>1, <2>2 DEF JobOK
<1>5. ASSUME NEW q \in Procs PROVE ReplyOK(q)' /\ StartOK(q)'
  <2>1. CASE q = p
    BY <2>1 DEF Reports, ReplyOK
  <2>2. CASE q # p
    <3>1. /\ pc'[q] = pc[q] /\ cur'[q] = cur[q] /\ reply'[q] = reply[q] /\ todo'[q] = todo[q]
          /\ ReplyOK(q) /\ StartOK(q)
      BY <2>2 DEF Others, CallInv
    <3> QED BY <3>1 DEF ReplyOK, StartOK, Declared
  <2> QED BY <2>1, <2>2
<1> QED BY <1>1, <1>3, <1>4, <1>5 DEF CallInv

LEMMA ServedStep ==
  ASSUME Orderly, TypeInv, TypeInv', JobInv, TurnInv, CallInv, NEW j \in jobs, Serve(j) \/ JobFails(j)
  PROVE  CallInv'
<1> USE GatewayAssumption
<1>1. PICK p \in Procs : p = j.by
  BY DEF TypeInv, TypeOK, Job, TurnInv
<1>2. pc[p] \in Awaiting /\ reply[p] = "none" /\ j.g = cur[p].g
  BY <1>1 DEF JobInv, TurnInv
<1>3. Busy(p)
  BY <1>2 DEF Busy, Awaiting
<1>4. /\ \A q \in Procs \ {p} : pc[q] \notin Awaiting /\ reply[q] = "none"
      /\ \A i \in jobs : i = j
  BY <1>3, NoOther
<1>5. JobOK(j) /\ ReplyOK(p) /\ StartOK(p) /\ j.conf = cur[p].conf
  BY <1>1 DEF CallInv, JobOK
<1>6. UNCHANGED <<doc, status, procVars, applyLock>>
  BY ServeFrame
<1>7. \A q \in Procs : StartOK(q)'
  BY <1>6 DEF CallInv, StartOK, procVars, Declared
<1>8. /\ cur[p].g \in GatewayIds /\ cur[p].conf \in Confs \cup {NoConf}
      /\ pc[p] \in Creating => cur[p].conf # NoConf
  BY <1>2, CurTypes DEF Starting
<1>9. j \in Job
  BY DEF TypeInv, TypeOK
\* the call goes on
<1>10. ASSUME NEW st, Goto(j, st),
              st \in IF pc[p] \in Creating THEN {"create", "status"} \cup CreateSteps ELSE {"take", "drop"},
              st \in CreateSteps \cup {"drop"} => rec'[j.g] = NoConf,
              st = "ready" => cont'[j.g] = j.conf, st # "create",
              st = "status" => rec'[j.g] = j.conf /\ cont'[j.g] = j.conf
       PROVE  CallInv'
  <2> DEFINE new == [j EXCEPT !.step = st]
  <2>1. new.by = p /\ new.step = st /\ new.g = j.g /\ new.conf = j.conf
    BY <1>1, <1>9 DEF Job
  <2>2. \A i \in jobs' : i = new
    BY <1>4, <1>10 DEF Goto
  <2> HIDE DEF new
  <2>3. JobOK(new)'
    BY <1>5, <1>6, <1>10, <2>1 DEF JobOK, procVars
  <2>4. \A q \in Procs : reply'[q] = "none"
    BY <1>2, <1>4, <1>10 DEF Goto
  <2>5. \A q \in Procs : ReplyOK(q)'
    BY <2>4 DEF Reports, ReplyOK
  <2>6. \A i \in jobs' : JobOK(i)'
    BY <2>2, <2>3
  <2> QED BY <1>7, <2>5, <2>6 DEF CallInv
\* the call is answered
<1>11. ASSUME NEW r \in Replies, End(j, r), ReplyOK(p)'
       PROVE  CallInv'
  <2>1. jobs' = {}
    BY <1>4, <1>11 DEF End
  <2>2. \A q \in Procs \ {p} : reply'[q] = "none"
    BY <1>1, <1>4, <1>11 DEF End, TypeInv, TypeOK
  <2>3. ASSUME NEW q \in Procs \ {p} PROVE ReplyOK(q)'
    BY <2>2 DEF Reports, ReplyOK
  <2> QED BY <1>7, <1>11, <2>1, <2>3 DEF CallInv
<1>12. ASSUME NEW r, End(j, r) PROVE reply'[p] = r
  BY <1>1, <1>12 DEF End, TypeInv, TypeOK
<1>13. pc' = pc /\ cur' = cur
  BY <1>6 DEF procVars
<1>14. CASE LockRecords(j)
  <2>1. pc[p] \in Creating
    BY <1>1, <1>5, <1>14 DEF LockRecords, JobOK
  <2>2. CASE rec[j.g] # NoConf
    <3>1. End(j, "conflict")
      BY <1>14, <2>2 DEF LockRecords
    <3>2. pc[p] # "await_recreate"
      BY <1>1, <1>5, <1>14, <2>2 DEF LockRecords, JobOK
    <3>3. ReplyOK(p)'
      BY <1>12, <1>13, <2>1, <3>1, <3>2 DEF Reports, ReplyOK, Creating
    <3> QED BY <1>11, <3>1, <3>3 DEF Replies
  <2>3. CASE rec[j.g] = NoConf
    <3>1. Goto(j, "remove") /\ rec' = rec
      BY <1>14, <2>3 DEF LockRecords
    <3> QED BY <1>10, <2>1, <2>3, <3>1 DEF CreateSteps
  <2> QED BY <2>2, <2>3
<1>15. CASE RemoveStale(j) \/ RunContainer(j)
  <2>1. pc[p] \in Creating /\ rec[j.g] = NoConf
    BY <1>1, <1>5, <1>15 DEF RemoveStale, RunContainer, JobOK, CreateSteps
  <2>2. CASE RemoveStale(j)
    BY <1>10, <2>1, <2>2 DEF RemoveStale, CreateSteps
  <2>3. CASE RunContainer(j)
    <3>1. cont'[j.g] = j.conf
      BY <1>2, <1>8, <2>3 DEF RunContainer, TypeInv, TypeOK
    <3> QED BY <1>10, <2>1, <2>3, <3>1 DEF RunContainer, CreateSteps
  <2> QED BY <1>15, <2>2, <2>3
<1>16. CASE InsertRecord(j)
  <2>1. pc[p] \in Creating /\ cont[j.g] = j.conf
    BY <1>1, <1>5, <1>16 DEF InsertRecord, JobOK
  <2>2. cont[j.g] # NoConf
    BY <1>5, <1>8, <2>1
  <2>3. Goto(j, "status") /\ rec' = [rec EXCEPT ![j.g] = j.conf] /\ cont' = cont
    BY <1>16, <2>2 DEF InsertRecord
  <2>4. rec'[j.g] = j.conf
    BY <1>2, <1>8, <2>3 DEF TypeInv, TypeOK
  <2> QED BY <1>10, <2>1, <2>3, <2>4 DEF CreateSteps
<1>17. CASE AskStatus(j)
  <2>1. pc[p] \in Creating /\ rec[j.g] = j.conf /\ cont[j.g] = j.conf
    BY <1>1, <1>5, <1>17 DEF AskStatus, JobOK
  <2>2. PICK s \in Reports : End(j, s) /\ UNCHANGED <<rec, cont>>
    BY <1>17 DEF AskStatus
  <2>3. ReplyOK(p)'
    BY <1>2, <1>5, <1>12, <1>13, <2>1, <2>2 DEF ReplyOK, Creating, Reports
  <2> QED BY <1>11, <2>2, <2>3 DEF Replies
<1>18. CASE TakeRecord(j)
  <2>1. pc[p] \notin Creating
    BY <1>1, <1>5, <1>18 DEF TakeRecord, JobOK, CreateSteps
  <2>2. rec'[j.g] = NoConf
    BY <1>2, <1>8, <1>18 DEF TakeRecord, TypeInv, TypeOK
  <2>3. CASE End(j, "ok")
    <3>1. ReplyOK(p)'
      BY <1>2, <1>12, <1>13, <2>1, <2>2, <2>3 DEF Reports, ReplyOK, Creating
    <3> QED BY <1>11, <2>3, <3>1 DEF Replies
  <2>4. CASE Goto(j, "drop")
    BY <1>10, <2>1, <2>2, <2>4 DEF CreateSteps
  <2> QED BY <1>18, <2>3, <2>4 DEF TakeRecord
<1>19. CASE DropContainer(j)
  <2>1. pc[p] \notin Creating /\ rec[j.g] = NoConf
    BY <1>1, <1>5, <1>19 DEF DropContainer, JobOK, CreateSteps
  <2>2. End(j, "ok") /\ rec' = rec
    BY <1>19 DEF DropContainer
  <2>3. ReplyOK(p)'
    BY <1>2, <1>12, <1>13, <2>1, <2>2 DEF Reports, ReplyOK, Creating
  <2> QED BY <1>11, <2>2, <2>3 DEF Replies
<1>20. CASE JobFails(j)
  <2>1. End(j, "err")
    BY <1>20 DEF JobFails
  <2>2. ReplyOK(p)'
    BY <1>12, <2>1 DEF Reports, ReplyOK
  <2> QED BY <1>11, <2>1, <2>2 DEF Replies
<1> QED BY <1>14, <1>15, <1>16, <1>17, <1>18, <1>19, <1>20 DEF Serve

\* a process that does more than ask for apply_lock is the only one at work
LEMMA OnlyOne ==
  ASSUME Orderly, TypeInv, TurnInv, NEW p \in Procs, Begin(p) \/ Lock(p) \/ Handle(p), ~BeginApply(p)
  PROVE  \A q \in Procs \ {p} : ~Busy(q)
<1> USE GatewayAssumption
<1>1. CASE Begin(p)
  <2>1. ~(Ops \subseteq {"apply"})
    BY <1>1 DEF Begin, CreateGateway, UpdateGateway, DeleteGateway, StartOrStop
  <2>2. Quiet
    BY <1>1, <2>1 DEF Begin, Orderly
  <2> QED BY <2>2 DEF Quiet, Busy
<1>2. CASE Lock(p)
  <2>1. pc[p] = "lock" /\ applyLock = Nobody
    BY <1>2 DEF Lock, Commit, StartupDesired
  <2>2. CASE ~Concurrent
    BY <2>1, <2>2 DEF TurnInv, Busy
  <2>3. CASE Ops \subseteq {"apply"}
    <3>1. ASSUME NEW q \in Procs, Busy(q) PROVE FALSE
      <4>1. op[q] \in Reconciling
        BY <2>3, <3>1 DEF TurnInv
      <4>2. Reconciles(q)
        BY <3>1, <4>1 DEF TurnInv, TypeInv, TypeOK, PcStates, Busy, Reconciles, Reconciling, Awaiting
      <4>3. applyLock = q
        BY <4>1, <4>2 DEF TurnInv
      <4> QED BY <2>1, <4>3 DEF Procs
    <3> QED BY <3>1
  <2> QED BY <2>2, <2>3 DEF Orderly
<1>3. CASE Handle(p)
  BY <1>3, HandleMoves, OneBusy
<1> QED BY <1>1, <1>2, <1>3

LEMMA BeginApplyFrame ==
  ASSUME TypeInv, NEW p \in Procs, BeginApply(p)
  PROVE  /\ UNCHANGED <<doc, status, want, todo, cur, tries, failed, applyLock, jobs, reply, rec, cont, faults>>
         /\ p \in Requests /\ pc[p] = "idle" /\ pc'[p] = "lock" /\ op'[p] = "apply"
         /\ \A q \in Procs \ {p} : pc'[q] = pc[q] /\ op'[q] = op[q]
BY DEF BeginApply, TypeInv, TypeOK

\* a process without a call, or whose call has been answered
LEMMA FreeJobs ==
  ASSUME TypeInv, JobInv, TurnInv, NEW p \in Procs, pc[p] \notin Awaiting \/ reply[p] # "none"
  PROVE  \A j \in jobs : j.by \in Procs \ {p}
BY NoJob DEF TurnInv, TypeInv, TypeOK, Job

LEMMA ReplyTaken ==
  ASSUME TypeInv, JobInv, NEW p \in Procs,
         (pc[p] \notin Awaiting /\ reply' = reply) \/ TakeReply(p)
  PROVE  reply'[p] = "none"
BY DEF JobInv, TakeReply, TypeInv, TypeOK

LEMMA BeginCallStep ==
  ASSUME Orderly, TypeInv, TypeInv', JobInv, TurnInv, CallInv, NEW p \in Procs, Begin(p)
  PROVE  CallInv'
<1>1. Others(p) /\ UNCHANGED <<rec, cont>>
  BY ProcFrame
<1>2. pc[p] = "idle" /\ reply' = reply
  BY DEF Begin, CreateGateway, UpdateGateway, DeleteGateway, StartOrStop, BeginApply
<1>3. reply'[p] = "none" /\ \A j \in jobs : j.by \in Procs \ {p}
  BY <1>2, ReplyTaken, FreeJobs DEF Awaiting
<1>4. CASE BeginApply(p)
  BY <1>1, <1>3, <1>4, BeginApplyFrame, CallRest DEF Awaiting
<1>5. CASE ~BeginApply(p)
  <2>1. \A q \in Procs \ {p} : ~Busy(q)
    BY <1>5, OnlyOne
  <2>2. ASSUME jobs' = jobs, pc'[p] \in {"work", "delete"} PROVE CallInv'
    BY <1>1, <1>3, <2>1, <2>2, CallRest DEF Awaiting
  <2>3. ASSUME NEW g \in GatewayIds, NEW s \in Settings, CreateGateway(p, g, s) \/ UpdateGateway(p, g, s)
        PROVE  CallInv'
    <3>1. jobs' = jobs /\ pc'[p] = "work"
      BY <2>3, PlanEffect DEF CreateGateway, UpdateGateway
    <3> QED BY <2>2, <3>1
  <2>4. ASSUME NEW g \in GatewayIds, NEW o \in {"start", "stop"}, StartOrStop(p, o, g)
        PROVE  CallInv'
    <3>1. jobs' = jobs /\ pc'[p] = "work"
      BY <2>4, PlanEffect DEF StartOrStop
    <3> QED BY <2>2, <3>1
  <2>5. ASSUME NEW g \in GatewayIds, DeleteGateway(p, g)
        PROVE  CallInv'
    <3>1. CASE status[g] \in {"stopped", "error"}
      <4>1. jobs' = jobs /\ pc'[p] = "delete"
        BY <2>5, <3>1 DEF DeleteGateway, TypeInv, TypeOK
      <4> QED BY <2>2, <4>1
    <3>2. CASE status[g] \notin {"stopped", "error"}
      <4>1. Call(p, "take", cur'[p], "await_delete") /\ doc' = doc
        BY <2>5, <3>2 DEF DeleteGateway
      <4>2. pc'[p] = "await_delete"
        BY <4>1 DEF Call, TypeInv, TypeOK
      <4>3. StartOK(p)'
        BY <4>2 DEF StartOK, Starting, Creating
      <4> QED BY <1>1, <1>3, <4>1, <4>2, <4>3, CallMade DEF Awaiting, Creating
    <3> QED BY <3>1, <3>2
  <2> QED BY <1>5, <2>3, <2>4, <2>5 DEF Begin
<1> QED BY <1>4, <1>5

LEMMA LockCallStep ==
  ASSUME Orderly, TypeInv, TypeInv', JobInv, TurnInv, CallInv, NEW p \in Procs, Lock(p)
  PROVE  CallInv'
<1>1. Others(p) /\ UNCHANGED <<rec, cont>>
  BY ProcFrame
<1>2. pc[p] = "lock" /\ reply' = reply /\ jobs' = jobs
  BY DEF Lock, Commit, StartupDesired
<1>3. reply'[p] = "none" /\ \A j \in jobs : j.by \in Procs \ {p}
  BY <1>2, ReplyTaken, FreeJobs DEF Awaiting
<1>4. \A q \in Procs \ {p} : ~Busy(q)
  BY <1>2, OnlyOne DEF BeginApply
<1>5. pc'[p] = "list"
  <2>1. ASSUME NEW new \in [GatewayIds -> Settings \cup {Absent}], Commit(p, new) PROVE pc'[p] = "list"
    BY <2>1, PlanEffect DEF Commit
  <2>2. ASSUME p = Startup, StartupDesired PROVE pc'[p] = "list"
    BY <2>2, PlanEffect DEF StartupDesired
  <2> QED BY <2>1, <2>2 DEF Lock
<1> QED BY <1>1, <1>2, <1>3, <1>4, <1>5, CallRest DEF Awaiting

LEMMA HandleCallStep ==
  ASSUME Orderly, TypeInv, TypeInv', JobInv, TurnInv, CallInv, NEW p \in Procs, Handle(p)
  PROVE  CallInv'
<1> USE GatewayAssumption
<1>1. Others(p) /\ UNCHANGED <<rec, cont>>
  BY ProcFrame
<1>2. Busy(p) /\ \A q \in Procs \ {p} : ~Busy(q)
  BY HandleMoves, OneBusy
<1>r. ASSUME (pc[p] \notin Awaiting /\ reply' = reply) \/ (reply[p] # "none" /\ TakeReply(p))
      PROVE  reply'[p] = "none" /\ \A j \in jobs : j.by \in Procs \ {p}
  BY <1>r, ReplyTaken, FreeJobs
\* no call is made
<1>3. ASSUME (pc[p] \notin Awaiting /\ reply' = reply) \/ (reply[p] # "none" /\ TakeReply(p)),
             jobs' = jobs, pc'[p] \notin Awaiting
      PROVE  CallInv'
  BY <1>1, <1>2, <1>3, <1>r, CallRest
<1>4. CASE ListUpstream(p) \/ DeleteReply(p) \/ DeleteDone(p) \/ Return(p)
  BY <1>3, <1>4 DEF ListUpstream, DeleteReply, DeleteDone, Return, TypeInv, TypeOK, Awaiting
<1>5. CASE Started(p) \/ NotStarted(p) \/ Stopped(p) \/ Destroyed(p)
  <2>1. pc'[p] = "work" /\ jobs' = jobs /\ reply[p] # "none" /\ TakeReply(p)
    BY <1>5, NextTaskEffect, GiveUpEffect DEF Reports, Started, NotStarted, StartFailed, Stopped, Destroyed
  <2> QED BY <1>3, <2>1 DEF Awaiting
<1>6. ASSUME NEW t \in Task, CannotStart(p, t) \/ CannotStop(p, t)
      PROVE  CallInv'
  <2>1. pc'[p] = "work" /\ jobs' = jobs /\ pc[p] = "work" /\ reply' = reply
    BY <1>6, GiveUpEffect DEF CannotStart, CannotStop
  <2> QED BY <1>3, <2>1 DEF Awaiting
\* a call is made
<1>7. ASSUME NEW t \in Task, StartCall(p, t)
      PROVE  CallInv'
  <2>1. pc[p] = "work" /\ reply' = reply /\ doc' = doc /\ todo' = todo /\ t \in todo[p] /\ Declared(t.g)
    BY <1>7 DEF StartCall, IsNext
  <2>2. Call(p, "create", cur'[p], "await_create") /\ pc'[p] = "await_create"
    BY <1>7 DEF StartCall, Call, TypeInv, TypeOK
  <2>3. cur'[p] = [g |-> t.g, conf |-> doc[t.g].conf]
    BY <1>7 DEF StartCall, TypeInv, TypeOK
  <2>4. t = StartOf(t.g)
    BY <1>7 DEF StartCall, Task, StartOf
  <2>5. cur'[p].g = t.g /\ cur'[p].conf = doc[t.g].conf
    BY <2>3
  <2>6. StartOf(cur'[p].g) \in todo'[p]
    BY <2>1, <2>4, <2>5
  <2>7. StartOK(p)'
    BY <2>1, <2>5, <2>6 DEF StartOK, Declared
  <2> QED BY <1>1, <1>r, <2>1, <2>2, <2>7, CallMade DEF Awaiting, Creating
<1>8. ASSUME NEW t \in Task, StopCall(p, t)
      PROVE  CallInv'
  <2>1. pc[p] = "work" /\ reply' = reply /\ doc' = doc
    BY <1>8 DEF StopCall
  <2>2. Call(p, "take", cur'[p], "await_stop") /\ pc'[p] = "await_stop"
    BY <1>8 DEF StopCall, Call, TypeInv, TypeOK
  <2>3. StartOK(p)'
    BY <2>2 DEF StartOK, Starting, Creating
  <2> QED BY <1>1, <1>r, <2>1, <2>2, <2>3, CallMade DEF Awaiting, Creating
<1>9. ASSUME NEW t \in Task, DestroyCall(p, t)
      PROVE  CallInv'
  <2>1. pc[p] = "work" /\ reply' = reply /\ doc' = doc
    BY <1>9 DEF DestroyCall
  <2>2. Call(p, "take", cur'[p], "await_destroy") /\ pc'[p] = "await_destroy"
    BY <1>9 DEF DestroyCall, Call, TypeInv, TypeOK
  <2>3. StartOK(p)'
    BY <2>2 DEF StartOK, Starting, Creating
  <2> QED BY <1>1, <1>r, <2>1, <2>2, <2>3, CallMade DEF Awaiting, Creating
<1>10. CASE Replace(p)
  <2>1. pc[p] = "await_create" /\ reply[p] # "none" /\ TakeReply(p) /\ UNCHANGED <<doc, cur, todo>>
    BY <1>10 DEF Replace
  <2>2. Call(p, "take", cur'[p], "await_replace") /\ pc'[p] = "await_replace"
    BY <1>10 DEF Replace, Call, TypeInv, TypeOK
  <2>3. StartOK(p)
    BY DEF CallInv
  <2>4. StartOK(p)'
    BY <2>1, <2>3 DEF StartOK, Starting, Creating, Declared
  <2> QED BY <1>1, <1>r, <2>1, <2>2, <2>4, CallMade DEF Awaiting, Creating
<1>11. CASE Recreate(p)
  <2>1. /\ pc[p] = "await_replace" /\ reply[p] = "ok" /\ TakeReply(p) /\ UNCHANGED <<doc, cur, todo>>
        /\ Call(p, "create", cur'[p], "await_recreate")
    BY <1>11 DEF Recreate
  <2>2. pc'[p] = "await_recreate"
    BY <2>1 DEF Call, TypeInv, TypeOK
  <2>3. StartOK(p) /\ ReplyOK(p)
    BY DEF CallInv
  <2>4. StartOK(p)'
    BY <2>1, <2>3 DEF StartOK, Starting, Creating, Declared
  <2>5. rec[cur'[p].g] = NoConf
    BY <2>1, <2>3 DEF ReplyOK
  <2> QED BY <1>1, <1>r, <2>1, <2>2, <2>4, <2>5, CallMade DEF Awaiting, Creating
<1> QED BY <1>4, <1>5, <1>6, <1>7, <1>8, <1>9, <1>10, <1>11 DEF Handle

LEMMA CallStep ==
  ASSUME Orderly, TypeInv, TypeInv', JobInv, TurnInv, CallInv, [Next]_vars
  PROVE  CallInv'
<1>1. CASE UNCHANGED vars
  BY <1>1 DEF vars, procVars, CallInv, JobOK, ReplyOK, StartOK, Declared
<1>2. CASE Next
  BY <1>2, OrderlySteps, BeginCallStep, LockCallStep, HandleCallStep, ServedStep
<1> QED BY <1>1, <1>2

\* what the theorems below share
Shared == TypeInv /\ JobInv /\ TurnInv /\ CallInv

LEMMA SharedHolds ==
  ASSUME Orderly
  PROVE  /\ Init => Shared
         /\ Shared /\ [Next]_vars => Shared'
<1>1. ASSUME Init PROVE Shared
  <2>1. TypeInv
    BY <1>1, TypeInit
  <2>2. JobInv
    BY <1>1 DEF Init, JobInv
  <2>3. TurnInv
    BY <1>1, GatewayAssumption DEF Init, TurnInv, Busy, Reconciles, Awaiting, Procs
  <2>4. CallInv
    BY <1>1 DEF Reports, Init, CallInv, ReplyOK, StartOK, Starting, Creating, Awaiting
  <2> QED BY <2>1, <2>2, <2>3, <2>4 DEF Shared
<1>2. ASSUME Shared, [Next]_vars PROVE Shared'
  BY <1>2, TypeStep, JobStep, TurnStep, CallStep DEF Shared
<1> QED BY <1>1, <1>2

----------------------------------------------------------------------------
(* What a process has to do fits the document                              *)

PlanOK(p) ==
  /\ \A t \in todo[p] : t.do = "destroy" <=> ~Declared(t.g)
  /\ op[p] \in Reconciling =>
       \A t \in todo[p] : t.do # "destroy" => (t.do = "start" <=> doc[t.g].enabled)
  /\ pc[p] = "list" => /\ op[p] \in Reconciling
                       /\ want[p] = {g \in GatewayIds : Declared(g)}
                       /\ \A t \in todo[p] : t.do # "destroy"
  /\ pc[p] = "await_stop" => StopOf(cur[p].g) \in todo[p]
  /\ pc[p] = "await_destroy" => DestroyOf(cur[p].g) \in todo[p]
  /\ ~Busy(p) \/ pc[p] \in {"delete", "await_delete"} => todo[p] = {}

PlanInv == \A p \in Procs : PlanOK(p)

LEMMA PlanMove ==
  ASSUME PlanInv, NEW p \in Procs, Others(p), doc' = doc \/ (\A q \in Procs \ {p} : ~Busy(q)), PlanOK(p)'
  PROVE  PlanInv'
<1> SUFFICES ASSUME NEW q \in Procs \ {p} PROVE PlanOK(q)'
  BY DEF PlanInv
<1>1. /\ pc'[q] = pc[q] /\ op'[q] = op[q] /\ todo'[q] = todo[q] /\ want'[q] = want[q]
      /\ cur'[q] = cur[q] /\ PlanOK(q)
  BY DEF Others, PlanInv
<1>2. CASE doc' = doc
  BY <1>1, <1>2 DEF PlanOK, Declared, Busy
<1>3. CASE ~Busy(q)
  BY <1>1, <1>3 DEF PlanOK, Busy
<1> QED BY <1>2, <1>3

LEMMA SettingsDeclared ==
  ASSUME NEW s \in Settings
  PROVE  s # Absent
BY GatewayAssumption DEF Settings, Absent

\* tasks are over, none is new
LEMMA PlanShrinks ==
  ASSUME NEW p \in Procs, PlanOK(p), doc' = doc, op'[p] = op[p], pc'[p] = "work", todo'[p] \subseteq todo[p]
  PROVE  PlanOK(p)'
BY DEF PlanOK, Declared, Busy

LEMMA BeginPlanStep ==
  ASSUME Orderly, Shared, PlanInv, NEW p \in Procs, Begin(p)
  PROVE  PlanInv'
<1> USE DEF Shared
<1>1. Others(p)
  BY ProcFrame
<1>2. pc[p] = "idle" /\ todo[p] = {}
  BY DEF Begin, CreateGateway, UpdateGateway, DeleteGateway, StartOrStop, BeginApply, PlanInv, PlanOK, Busy
<1>3. CASE BeginApply(p)
  <2>1. doc' = doc /\ todo'[p] = {} /\ pc'[p] = "lock"
    BY <1>2, <1>3, BeginApplyFrame
  <2>2. PlanOK(p)'
    BY <2>1 DEF PlanOK
  <2> QED BY <1>1, <2>1, <2>2, PlanMove
<1>4. CASE ~BeginApply(p)
  <2>1. \A q \in Procs \ {p} : ~Busy(q)
    BY <1>4, OnlyOne
  \* tasks about the gateway of the request
  <2>2. ASSUME NEW o \in InteractiveOps, NEW g, NEW dos \in SUBSET {"start", "stop"}, doc'[g] # Absent,
               op'[p] = o, pc'[p] = "work", todo'[p] = {[do |-> d, g |-> g] : d \in dos}
        PROVE  PlanInv'
    <3>1. \A t \in todo'[p] : t.do \in {"start", "stop"} /\ t.g = g
      BY <2>2
    <3>2. PlanOK(p)'
      BY <2>2, <3>1 DEF PlanOK, Declared, Reconciling, InteractiveOps, Busy
    <3> QED BY <1>1, <2>1, <3>2, PlanMove
  <2>3. ASSUME NEW g \in GatewayIds, NEW s \in Settings, CreateGateway(p, g, s)
        PROVE  PlanInv'
    <3> DEFINE dos == IF s.enabled THEN {"start"} ELSE {}
    <3>1. Plan(p, "create", "work", IF s.enabled THEN {[do |-> "start", g |-> g]} ELSE {}, {}) /\ reply' = reply
      BY <2>3 DEF CreateGateway
    <3>2. (IF s.enabled THEN {[do |-> "start", g |-> g]} ELSE {}) = {[do |-> d, g |-> g] : d \in dos}
      OBVIOUS
    <3>3. Plan(p, "create", "work", {[do |-> d, g |-> g] : d \in dos}, {})
      BY <3>1, <3>2
    <3>4. op'[p] = "create" /\ pc'[p] = "work" /\ todo'[p] = {[do |-> d, g |-> g] : d \in dos}
      BY <3>1, <3>3, PlanEffect
    <3>5. doc'[g] # Absent
      BY <2>3, SettingsDeclared DEF CreateGateway, TypeInv, TypeOK
    <3>6. dos \in SUBSET {"start", "stop"}
      OBVIOUS
    <3> HIDE DEF dos
    <3> QED BY <2>2, <3>4, <3>5, <3>6 DEF InteractiveOps
  <2>4. ASSUME NEW g \in GatewayIds, NEW s \in Settings, UpdateGateway(p, g, s)
        PROVE  PlanInv'
    <3> DEFINE dos == CASE s.enabled /\ ~doc[g].enabled -> {"start"}
                        [] ~s.enabled /\ doc[g].enabled -> {"stop"}
                        [] OTHER -> IF s.conf # doc[g].conf /\ status[g] = "running"
                                      THEN {"stop", "start"} ELSE {}
    <3>1. Plan(p, "update", "work", {[do |-> d, g |-> g] : d \in dos}, {}) /\ reply' = reply
      BY <2>4 DEF UpdateGateway
    <3>2. dos \in SUBSET {"start", "stop"}
      OBVIOUS
    <3>3. doc'[g] # Absent
      BY <2>4, SettingsDeclared DEF UpdateGateway, TypeInv, TypeOK
    <3> HIDE DEF dos
    <3>4. op'[p] = "update" /\ pc'[p] = "work" /\ todo'[p] = {[do |-> d, g |-> g] : d \in dos}
      BY <3>1, PlanEffect
    <3> QED BY <2>2, <3>2, <3>3, <3>4 DEF InteractiveOps
  <2>5. ASSUME NEW g \in GatewayIds, NEW o \in {"start", "stop"}, StartOrStop(p, o, g)
        PROVE  PlanInv'
    <3>1. Plan(p, o, "work", {[do |-> o, g |-> g]}, {}) /\ reply' = reply /\ doc'[g] # Absent
      BY <2>5 DEF StartOrStop, Declared
    <3>2. {[do |-> o, g |-> g]} = {[do |-> d, g |-> g] : d \in {o}}
      OBVIOUS
    <3>3. op'[p] = o /\ pc'[p] = "work" /\ todo'[p] = {[do |-> d, g |-> g] : d \in {o}}
      BY <3>1, <3>2, PlanEffect
    <3> QED BY <2>2, <3>1, <3>3 DEF InteractiveOps
  <2>6. ASSUME NEW g \in GatewayIds, DeleteGateway(p, g)
        PROVE  PlanInv'
    <3>1. todo'[p] = {} /\ pc'[p] \in {"delete", "await_delete"}
      BY <1>2, <2>6 DEF DeleteGateway, Call, TypeInv, TypeOK
    <3>2. PlanOK(p)'
      BY <3>1 DEF PlanOK
    <3> QED BY <1>1, <2>1, <3>2, PlanMove
  <2> QED BY <1>4, <2>3, <2>4, <2>5, <2>6 DEF Begin
<1> QED BY <1>3, <1>4

\* the document and a plan made from it
LEMMA PlanMade ==
  ASSUME Orderly, TypeInv, PlanInv, NEW p \in Procs, NEW o \in Reconciling, NEW tasks, NEW ids,
         Plan(p, o, "list", tasks, ids), reply' = reply, \A q \in Procs \ {p} : ~Busy(q),
         ids = {g \in GatewayIds : doc'[g] # Absent},
         \A t \in tasks : t.g \in ids /\ t = StartOrStopTask(doc', t.g)
  PROVE  PlanInv'
<1>1. /\ Others(p) /\ op'[p] = o /\ pc'[p] = "list" /\ todo'[p] = tasks /\ want'[p] = ids
  BY PlanEffect
<1>2. \A t \in tasks : /\ t.do = IF doc'[t.g].enabled THEN "start" ELSE "stop"
                       /\ doc'[t.g] # Absent
  BY DEF StartOrStopTask
<1>3. PlanOK(p)'
  BY <1>1, <1>2 DEF PlanOK, Declared, Busy
<1> QED BY <1>1, <1>3, PlanMove

LEMMA LockPlanStep ==
  ASSUME Orderly, Shared, PlanInv, NEW p \in Procs, Lock(p)
  PROVE  PlanInv'
<1> USE DEF Shared
<1>1. ~BeginApply(p)
  BY DEF Lock, Commit, StartupDesired, BeginApply
<1>2. \A q \in Procs \ {p} : ~Busy(q)
  BY <1>1, OnlyOne
<1>3. ASSUME NEW new \in [GatewayIds -> Settings \cup {Absent}], Commit(p, new) PROVE PlanInv'
  <2> DEFINE ids == {g \in GatewayIds : new[g] # Absent}
             tasks == {StartOrStopTask(new, g) : g \in {i \in ids : new[i] # doc[i]}}
  <2>1. Plan(p, "apply", "list", tasks, ids) /\ reply' = reply /\ doc' = new
    BY <1>3 DEF Commit
  <2>2. \A t \in tasks : t.g \in ids /\ t = StartOrStopTask(new, t.g)
    BY DEF StartOrStopTask
  <2>3. ids = {g \in GatewayIds : doc'[g] # Absent}
    BY <2>1
  <2>4. \A t \in tasks : t.g \in ids /\ t = StartOrStopTask(doc', t.g)
    BY <2>1, <2>2
  <2> HIDE DEF tasks, ids
  <2> QED BY <1>2, <2>1, <2>3, <2>4, PlanMade DEF Reconciling
<1>4. ASSUME p = Startup, StartupDesired PROVE PlanInv'
  <2> DEFINE ids == {g \in GatewayIds : Declared(g)}
             tasks == {StartOrStopTask(doc, g) : g \in ids}
  <2>1. Plan(p, "startup", "list", tasks, ids) /\ reply' = reply /\ doc' = doc
    BY <1>4 DEF StartupDesired
  <2>2. \A t \in tasks : t.g \in ids /\ t = StartOrStopTask(doc, t.g)
    BY DEF StartOrStopTask
  <2>3. ids = {g \in GatewayIds : doc'[g] # Absent}
    BY <2>1 DEF Declared
  <2>4. \A t \in tasks : t.g \in ids /\ t = StartOrStopTask(doc', t.g)
    BY <2>1, <2>2
  <2> HIDE DEF tasks, ids
  <2> QED BY <1>2, <2>1, <2>3, <2>4, PlanMade DEF Reconciling
<1> QED BY <1>3, <1>4 DEF Lock

LEMMA HandlePlanStep ==
  ASSUME Orderly, Shared, PlanInv, NEW p \in Procs, Handle(p)
  PROVE  PlanInv'
<1> USE DEF Shared
<1>1. Others(p) /\ PlanOK(p)
  BY ProcFrame DEF PlanInv
<1>2. \A q \in Procs \ {p} : ~Busy(q)
  BY HandleMoves, OneBusy
<1>3. ASSUME PlanOK(p)' PROVE PlanInv'
  BY <1>1, <1>2, <1>3, PlanMove
<1>4. CASE ListUpstream(p)
  <2> DEFINE seen == {g \in GatewayIds : rec[g] # NoConf}
  <2>1. /\ todo'[p] = {t \in todo[p] : t.do = "start" \/ t.g \in seen}
                        \cup {[do |-> "destroy", g |-> g] : g \in seen \ want[p]}
        /\ pc[p] = "list" /\ pc'[p] = "work" /\ op'[p] = op[p] /\ doc' = doc
    BY <1>4 DEF ListUpstream, TypeInv, TypeOK
  <2>2. \A t \in todo'[p] : t \in todo[p] \/ (t.do = "destroy" /\ t.g \in GatewayIds \ want[p])
    BY <2>1
  <2>3. PlanOK(p)'
    BY <1>1, <2>1, <2>2 DEF PlanOK, Declared, Busy
  <2> QED BY <1>3, <2>3
<1>5. CASE DeleteReply(p) \/ DeleteDone(p) \/ Return(p)
  <2>1. todo'[p] = {} /\ pc'[p] \in {"delete", "idle"}
    BY <1>1, <1>5 DEF DeleteReply, DeleteDone, Return, TypeInv, TypeOK, PlanOK
  <2>2. PlanOK(p)'
    BY <2>1 DEF PlanOK
  <2> QED BY <1>3, <2>2
<1>6. CASE Replace(p) \/ Recreate(p)
  <2>1. /\ todo'[p] = todo[p] /\ op'[p] = op[p] /\ doc' = doc /\ pc'[p] \in Starting
    BY <1>6 DEF Replace, Recreate, Call, TypeInv, TypeOK, Starting, Creating
  <2>2. pc[p] \in Starting
    BY <1>6 DEF Replace, Recreate, Starting, Creating
  <2>3. PlanOK(p)'
    BY <1>1, <2>1, <2>2 DEF PlanOK, Declared, Busy, Starting, Creating
  <2> QED BY <1>3, <2>3
<1>7. CASE Started(p) \/ NotStarted(p) \/ Stopped(p) \/ Destroyed(p)
  <2>1. doc' = doc /\ op'[p] = op[p] /\ pc'[p] = "work" /\ todo'[p] \subseteq todo[p]
    BY <1>7, NextTaskEffect, GiveUpEffect DEF Started, NotStarted, Stopped, Destroyed
  <2> QED BY <1>1, <1>3, <2>1, PlanShrinks
<1>8. ASSUME NEW t \in Task, CannotStart(p, t) PROVE PlanInv'
  <2>1. doc' = doc /\ op'[p] = op[p] /\ pc'[p] = "work" /\ todo'[p] \subseteq todo[p]
    BY <1>8, GiveUpEffect DEF CannotStart
  <2> QED BY <1>1, <1>3, <2>1, PlanShrinks
<1>9. ASSUME NEW t \in Task, CannotStop(p, t) PROVE PlanInv'
  <2>1. doc' = doc /\ op'[p] = op[p] /\ pc'[p] = "work" /\ todo'[p] \subseteq todo[p]
    BY <1>9 DEF CannotStop, TypeInv, TypeOK
  <2> QED BY <1>1, <1>3, <2>1, PlanShrinks
<1>10. ASSUME NEW t \in Task, StartCall(p, t) \/ StopCall(p, t) \/ DestroyCall(p, t) PROVE PlanInv'
  <2>1. /\ todo'[p] = todo[p] /\ op'[p] = op[p] /\ doc' = doc /\ cur'[p].g = t.g /\ t \in todo[p]
        /\ pc[p] = "work"
        /\ \/ pc'[p] = "await_create"
           \/ pc'[p] = "await_stop" /\ t.do = "stop"
           \/ pc'[p] = "await_destroy" /\ t.do = "destroy"
    BY <1>10 DEF StartCall, StopCall, DestroyCall, IsNext, Call, TypeInv, TypeOK
  <2>2. t = [do |-> t.do, g |-> t.g]
    BY DEF Task
  <2>3. PlanOK(p)'
    BY <1>1, <2>1, <2>2 DEF PlanOK, Declared, Busy, StopOf, DestroyOf
  <2> QED BY <1>3, <2>3
<1> QED BY <1>4, <1>5, <1>6, <1>7, <1>8, <1>9, <1>10 DEF Handle

LEMMA PlanStep ==
  ASSUME Orderly, Shared, PlanInv, [Next]_vars
  PROVE  PlanInv'
<1>1. CASE UNCHANGED vars
  BY <1>1 DEF vars, procVars, PlanInv, PlanOK, Declared, Busy
<1>2. ASSUME NEW j \in jobs, Serve(j) \/ JobFails(j) PROVE PlanInv'
  BY <1>2, ServeFrame DEF procVars, PlanInv, PlanOK, Declared, Busy
<1> QED BY <1>1, <1>2, OrderlySteps, BeginPlanStep, LockPlanStep, HandlePlanStep DEF Shared

----------------------------------------------------------------------------
(* What operators are told                                                 *)

\* operators who wait for each answer; starts and stops may fail
Attended ==
  /\ FaultKinds \subseteq {"call"}
  /\ ~Concurrent
  /\ Ops \subseteq InteractiveOps

AsDocumented(g) == rec[g] = doc[g].conf /\ cont[g] = doc[g].conf

\* process p is at work on gateway g, or will be
Touches(p, g) ==
  \/ pc[p] \in Awaiting \cup {"delete"} /\ cur[p].g = g
  \/ \E t \in todo[p] : t.g = g

TruthOf(g) ==
  Declared(g) /\ status[g] = "running" => AsDocumented(g) \/ \E p \in Procs : Touches(p, g)

TruthInv ==
  /\ \A p \in Procs : op[p] # "apply"
  /\ \A p \in Procs : pc[p] \in {"lock", "list"} => \A g \in GatewayIds : status[g] # "running"
  /\ \A g \in GatewayIds : TruthOf(g)

\* a step of p that says something new at most about gateway h
LEMMA TruthMove ==
  ASSUME TypeInv, TruthInv, NEW p \in Procs, NEW h, Others(p), UNCHANGED <<rec, cont>>,
         \A q \in Procs \ {p} : pc[q] = "idle",
         op'[p] # "apply",
         pc'[p] \in {"lock", "list"} => pc[p] \in {"lock", "list"} /\ status' = status,
         \A g \in GatewayIds \ {h} : /\ doc'[g] = doc[g] /\ status'[g] = status[g]
                                     /\ Touches(p, g) => Touches(p, g)',
         h \in GatewayIds => TruthOf(h)' \/ Touches(p, h)'
  PROVE  TruthInv'
<1>1. \A q \in Procs : op'[q] # "apply"
  BY DEF Others, TruthInv
<1>2. ASSUME NEW q \in Procs, pc'[q] \in {"lock", "list"} PROVE \A g \in GatewayIds : status'[g] # "running"
  BY <1>2 DEF Others, TruthInv
<1>3. ASSUME NEW g \in GatewayIds PROVE TruthOf(g)'
  <2>1. CASE g = h
    BY <2>1 DEF TruthOf
  <2>2. CASE g # h
    <3> SUFFICES ASSUME Declared(g)', status'[g] = "running", ~AsDocumented(g)'
                 PROVE  \E q \in Procs : Touches(q, g)'
      BY DEF TruthOf
    <3>1. doc'[g] = doc[g] /\ status'[g] = status[g]
      BY <2>2
    <3>2. Declared(g) /\ status[g] = "running" /\ ~AsDocumented(g)
      BY <3>1 DEF Declared, AsDocumented
    <3>3. PICK q \in Procs : Touches(q, g)
      BY <3>2 DEF TruthInv, TruthOf
    <3>4. CASE q = p
      BY <2>2, <3>3, <3>4
    <3>5. CASE q # p
      <4>1. pc'[q] = pc[q] /\ cur'[q] = cur[q] /\ todo'[q] = todo[q]
        BY <3>5 DEF Others
      <4> QED BY <3>3, <4>1 DEF Touches
    <3> QED BY <3>4, <3>5
  <2> QED BY <2>1, <2>2
<1> QED BY <1>1, <1>2, <1>3 DEF TruthInv

LEMMA BeginTruthStep ==
  ASSUME Attended, Orderly, Shared, PlanInv, TruthInv, NEW p \in Procs, Begin(p)
  PROVE  TruthInv'
<1> USE DEF Shared
<1>1. Others(p) /\ UNCHANGED <<rec, cont>>
  BY ProcFrame
<1>2. \A q \in Procs : pc[q] = "idle"
  BY DEF Begin, Attended, Quiet
<1>3. \A q \in Procs : todo[q] = {}
  BY <1>2 DEF PlanInv, PlanOK, Busy
<1>4. \A q \in Procs, g \in GatewayIds : ~Touches(q, g)
  BY <1>2, <1>3 DEF Touches, Awaiting
<1>5. \A q \in Procs \ {p} : pc[q] = "idle"
  BY <1>2
<1>6. ASSUME NEW g \in GatewayIds, NEW s \in Settings, CreateGateway(p, g, s) PROVE TruthInv'
  <2>1. /\ \A h \in GatewayIds \ {g} : doc'[h] = doc[h] /\ status'[h] = status[h]
        /\ status'[g] = "stopped"
    BY <1>6 DEF CreateGateway, TypeInv, TypeOK
  <2>2. op'[p] = "create" /\ pc'[p] = "work"
    BY <1>6, PlanEffect DEF CreateGateway
  <2>3. TruthOf(g)'
    BY <2>1 DEF TruthOf
  <2> QED BY <1>1, <1>4, <1>5, <2>1, <2>2, <2>3, TruthMove
<1>7. ASSUME NEW g \in GatewayIds, NEW s \in Settings, UpdateGateway(p, g, s) PROVE TruthInv'
  <2> DEFINE dos == CASE s.enabled /\ ~doc[g].enabled -> {"start"}
                      [] ~s.enabled /\ doc[g].enabled -> {"stop"}
                      [] OTHER -> IF s.conf # doc[g].conf /\ status[g] = "running"
                                    THEN {"stop", "start"} ELSE {}
  <2>1. Plan(p, "update", "work", {[do |-> d, g |-> g] : d \in dos}, {}) /\ reply' = reply
    BY <1>7 DEF UpdateGateway
  <2>2. dos # {} \/ s.conf = doc[g].conf \/ status[g] # "running"
    OBVIOUS
  <2> HIDE DEF dos
  <2>3. op'[p] = "update" /\ pc'[p] = "work" /\ todo'[p] = {[do |-> d, g |-> g] : d \in dos}
    BY <2>1, PlanEffect
  <2>4. /\ \A h \in GatewayIds \ {g} : doc'[h] = doc[h]
        /\ status' = status /\ doc'[g] = s /\ Declared(g)
    BY <1>7 DEF UpdateGateway, TypeInv, TypeOK
  <2>5. CASE dos # {}
    <3>1. PICK d \in dos : TRUE
      BY <2>5
    <3>2. [do |-> d, g |-> g] \in todo'[p] /\ [do |-> d, g |-> g].g = g
      BY <2>3
    <3>3. Touches(p, g)'
      BY <3>2 DEF Touches
    <3> QED BY <1>1, <1>4, <1>5, <2>3, <2>4, <3>3, TruthMove
  <2>6. CASE s.conf = doc[g].conf \/ status[g] # "running"
    <3>1. status[g] = "running" => AsDocumented(g)
      BY <1>4, <2>4 DEF TruthInv, TruthOf
    <3>2. TruthOf(g)'
      BY <1>1, <2>4, <2>6, <3>1 DEF TruthOf, AsDocumented
    <3> QED BY <1>1, <1>4, <1>5, <2>3, <2>4, <3>2, TruthMove
  <2> QED BY <2>2, <2>5, <2>6
<1>8. ASSUME NEW g \in GatewayIds, DeleteGateway(p, g) PROVE TruthInv'
  <2>1. UNCHANGED <<doc, status>> /\ op'[p] = "delete" /\ pc'[p] \in {"delete", "await_delete"}
    BY <1>8 DEF DeleteGateway, Call, TypeInv, TypeOK
  <2> QED BY <1>1, <1>4, <1>5, <2>1, TruthMove, GatewayAssumption
<1>9. ASSUME NEW g \in GatewayIds, NEW o \in {"start", "stop"}, StartOrStop(p, o, g) PROVE TruthInv'
  <2>1. UNCHANGED <<doc, status>> /\ op'[p] = o /\ pc'[p] = "work"
    BY <1>9, PlanEffect DEF StartOrStop
  <2> QED BY <1>1, <1>4, <1>5, <2>1, TruthMove, GatewayAssumption
<1>10. ~BeginApply(p)
  BY DEF BeginApply, Attended, InteractiveOps
<1> QED BY <1>6, <1>7, <1>8, <1>9, <1>10 DEF Begin

LEMMA LockTruthStep ==
  ASSUME Attended, Orderly, Shared, PlanInv, TruthInv, NEW p \in Procs, Lock(p)
  PROVE  TruthInv'
<1> USE DEF Shared
<1>1. Others(p) /\ UNCHANGED <<rec, cont>>
  BY ProcFrame
<1>2. p = Startup /\ StartupDesired
  BY DEF Lock, Commit, TruthInv
<1>3. pc[p] = "lock" /\ UNCHANGED <<doc, status>>
  BY <1>2 DEF StartupDesired
<1>4. op'[p] = "startup" /\ pc'[p] = "list"
  BY <1>2, PlanEffect DEF StartupDesired
<1>5. \A q \in Procs \ {p} : pc[q] = "idle"
  BY <1>3 DEF Attended, TurnInv
<1>6. todo[p] = {}
  BY <1>3 DEF PlanInv, PlanOK, Busy
<1>7. \A g \in GatewayIds : ~Touches(p, g)
  BY <1>3, <1>6 DEF Touches, Awaiting
<1> QED BY <1>1, <1>3, <1>4, <1>5, <1>7, TruthMove, GatewayAssumption

LEMMA HandleTruthStep ==
  ASSUME Attended, Orderly, Shared, PlanInv, TruthInv, NEW p \in Procs, Handle(p)
  PROVE  TruthInv'
<1> USE DEF Shared
<1>1. Others(p) /\ UNCHANGED <<rec, cont>>
  BY ProcFrame
<1>2. pc[p] # "idle" /\ op'[p] \in {op[p], "none"} /\ pc'[p] \notin {"lock", "list"}
  <2>1. Busy(p) /\ op'[p] \in {op[p], "none"} /\ pc'[p] # "lock"
    BY HandleMoves DEF Busy
  <2>2. pc'[p] # "list"
    <3>1. CASE ListUpstream(p) \/ DeleteReply(p) \/ DeleteDone(p) \/ Return(p) \/ Replace(p) \/ Recreate(p)
      BY <3>1 DEF ListUpstream, DeleteReply, DeleteDone, Return, Replace, Recreate, Call, TypeInv, TypeOK
    <3>2. CASE Started(p) \/ NotStarted(p) \/ Stopped(p) \/ Destroyed(p)
      BY <3>2, NextTaskEffect, GiveUpEffect DEF Started, NotStarted, Stopped, Destroyed
    <3>3. ASSUME NEW t \in Task, StartCall(p, t) \/ StopCall(p, t) \/ DestroyCall(p, t) \/ CannotStop(p, t)
          PROVE  pc'[p] # "list"
      BY <3>3 DEF StartCall, StopCall, DestroyCall, CannotStop, Call, TypeInv, TypeOK
    <3>4. ASSUME NEW t \in Task, CannotStart(p, t) PROVE pc'[p] # "list"
      BY <3>4, GiveUpEffect DEF CannotStart
    <3> QED BY <3>1, <3>2, <3>3, <3>4 DEF Handle
  <2> QED BY <2>1, <2>2 DEF Busy
<1>3. op'[p] # "apply" /\ PlanOK(p) /\ ReplyOK(p) /\ StartOK(p)
  BY <1>2 DEF TruthInv, PlanInv, CallInv
<1>4. \A q \in Procs \ {p} : pc[q] = "idle"
  BY <1>2 DEF Attended, TurnInv
<1>5. ASSUME NEW h,
             \A g \in GatewayIds \ {h} : /\ doc'[g] = doc[g] /\ status'[g] = status[g]
                                         /\ Touches(p, g) => Touches(p, g)',
             h \in GatewayIds => TruthOf(h)' \/ Touches(p, h)'
      PROVE  TruthInv'
  BY <1>1, <1>2, <1>3, <1>4, <1>5, TruthMove
<1>6. ASSUME UNCHANGED <<doc, status>>, \A g \in GatewayIds : Touches(p, g) => Touches(p, g)'
      PROVE  TruthInv'
  BY <1>5, <1>6, GatewayAssumption
\* the task on h is over
<1>7. ASSUME NEW h \in GatewayIds, NEW t, t.g = h, pc[p] \in Awaiting => cur[p].g = h,
             pc[p] # "delete", doc' = doc, \A g \in GatewayIds \ {h} : status'[g] = status[g],
             todo[p] \ {t} \subseteq todo'[p], TruthOf(h)'
      PROVE  TruthInv'
  <2>1. ASSUME NEW g \in GatewayIds \ {h}, Touches(p, g) PROVE Touches(p, g)'
    <3>1. PICK u \in todo[p] : u.g = g
      BY <1>7, <2>1 DEF Touches
    <3>2. u \in todo'[p]
      BY <1>7, <2>1, <3>1
    <3> QED BY <3>1, <3>2 DEF Touches
  <2> QED BY <1>5, <1>7, <2>1
<1>8. CASE ListUpstream(p)
  <2>1. pc[p] = "list" /\ UNCHANGED <<doc, status>>
    BY <1>8 DEF ListUpstream
  <2>2. \A g \in GatewayIds : status'[g] # "running"
    BY <2>1 DEF TruthInv
  <2>3. \A g \in GatewayIds : TruthOf(g)'
    BY <2>2 DEF TruthOf
  <2>4. \A q \in Procs : op'[q] # "apply"
    BY <1>1, <1>3 DEF Others, TruthInv
  <2> QED BY <2>2, <2>3, <2>4 DEF TruthInv
<1>9. CASE DeleteReply(p)
  <2>1. /\ UNCHANGED <<doc, status, cur, todo>> /\ pc[p] = "await_delete" /\ pc'[p] = "delete"
    BY <1>9 DEF DeleteReply, TypeInv, TypeOK
  <2> QED BY <1>6, <2>1 DEF Touches
<1>10. CASE DeleteDone(p)
  <2>1. pc[p] = "delete" /\ todo[p] = {}
    BY <1>3, <1>10 DEF DeleteDone, PlanOK
  <2>2. \A g \in GatewayIds \ {cur[p].g} : doc'[g] = doc[g] /\ status'[g] = status[g]
    BY <1>10 DEF DeleteDone, TypeInv, TypeOK
  <2>3. cur[p].g \in GatewayIds => doc'[cur[p].g] = Absent
    BY <1>10 DEF DeleteDone, TypeInv, TypeOK
  <2>4. PICK h : h = cur[p].g
    OBVIOUS
  <2>5. \A g \in GatewayIds \ {h} : ~Touches(p, g)
    BY <2>1, <2>4 DEF Touches
  <2>6. h \in GatewayIds => TruthOf(h)'
    BY <2>3, <2>4 DEF TruthOf, Declared
  <2> QED BY <1>5, <2>2, <2>4, <2>5, <2>6
<1>11. CASE Return(p)
  <2>1. UNCHANGED <<doc, status>> /\ pc[p] = "work" /\ todo[p] = {}
    BY <1>11 DEF Return
  <2> QED BY <1>6, <2>1 DEF Touches, Awaiting
<1>12. CASE Replace(p) \/ Recreate(p)
  <2>1. UNCHANGED <<doc, status, cur, todo>> /\ pc'[p] \in Awaiting
    BY <1>12 DEF Replace, Recreate, Call, TypeInv, TypeOK, Awaiting
  <2> QED BY <1>6, <2>1 DEF Touches
<1>13. ASSUME NEW t \in Task, StartCall(p, t) PROVE TruthInv'
  <2>1. /\ doc' = doc /\ todo' = todo /\ pc[p] = "work" /\ status'[t.g] = "starting" /\ t.g \in GatewayIds
        /\ \A g \in GatewayIds \ {t.g} : status'[g] = status[g]
    BY <1>13 DEF StartCall, TypeInv, TypeOK, Task
  <2>2. TruthOf(t.g)'
    BY <2>1 DEF TruthOf
  <2>3. PICK h \in GatewayIds : h = t.g
    BY <2>1
  <2> QED BY <1>7, <2>1, <2>2, <2>3 DEF Awaiting
<1>14. ASSUME NEW t \in Task, StopCall(p, t) \/ DestroyCall(p, t) PROVE TruthInv'
  <2>1. UNCHANGED <<doc, status, todo>> /\ pc[p] = "work"
    BY <1>14 DEF StopCall, DestroyCall
  <2> QED BY <1>6, <2>1 DEF Touches, Awaiting
<1>15. ASSUME NEW t \in Task, CannotStart(p, t) \/ CannotStop(p, t) PROVE FALSE
  <2>1. t \in todo[p] /\ t.do \in {"start", "stop"} /\ ~Declared(t.g)
    BY <1>15 DEF CannotStart, CannotStop, IsNext, Fault, Attended
  <2> QED BY <1>3, <2>1 DEF PlanOK
<1>16. CASE Started(p) \/ NotStarted(p) \/ Stopped(p)
  <2>1. pc[p] \in Awaiting /\ doc' = doc /\ UNCHANGED <<rec, cont>>
    BY <1>16 DEF Started, NotStarted, StartFailed, Stopped, Awaiting
  <2>2. PICK h \in GatewayIds : h = cur[p].g
    BY <2>1 DEF TypeInv, CurInv
  <2>3. /\ \A g \in GatewayIds \ {h} : status'[g] = status[g]
        /\ status'[h] \in {"error", "stopped", "starting"} \/ (Started(p) /\ reply[p] = "running")
    BY <1>16, <2>2 DEF Started, NotStarted, Stopped, Reports, TypeInv, TypeOK
  <2>4. \E d : todo[p] \ {Current(p, d)} \subseteq todo'[p]
    BY <1>16, NextTaskEffect, GiveUpEffect DEF Started, NotStarted, Stopped
  <2>5. PICK d : todo[p] \ {Current(p, d)} \subseteq todo'[p]
    BY <2>4
  <2>6. PICK t : t = Current(p, d)
    OBVIOUS
  <2>8. t.g = h
    BY <2>2, <2>6 DEF Current
  <2>7. TruthOf(h)'
    <3>1. CASE status'[h] \in {"error", "stopped", "starting"}
      BY <3>1 DEF TruthOf
    <3>2. CASE Started(p) /\ reply[p] = "running"
      <4>1. pc[p] \in Starting
        BY <3>2 DEF Started, Starting, Creating
      <4>2. AsDocumented(h)
        BY <1>3, <2>2, <3>2, <4>1 DEF Reports, ReplyOK, StartOK, AsDocumented
      <4> QED BY <2>1, <4>2 DEF TruthOf, AsDocumented
    <3> QED BY <2>3, <3>1, <3>2
  <2> QED BY <1>7, <2>1, <2>2, <2>3, <2>5, <2>6, <2>7, <2>8 DEF Awaiting
<1>17. CASE Destroyed(p)
  <2>1. pc[p] = "await_destroy" /\ UNCHANGED <<doc, status>>
    BY <1>17 DEF Destroyed
  <2>2. PICK h \in GatewayIds : h = cur[p].g
    BY <2>1 DEF TypeInv, CurInv, Awaiting
  <2>3. PICK t : t = Current(p, "destroy")
    OBVIOUS
  <2>7. t.g = h
    BY <2>2, <2>3 DEF Current
  <2>4. todo[p] \ {t} \subseteq todo'[p]
    BY <1>17, <2>3, NextTaskEffect, GiveUpEffect DEF Destroyed
  <2>5. ~Declared(h)
    BY <1>3, <2>1, <2>2 DEF PlanOK, DestroyOf
  <2>6. TruthOf(h)'
    BY <2>1, <2>5 DEF TruthOf, Declared
  <2> QED BY <1>7, <2>1, <2>2, <2>3, <2>4, <2>6, <2>7 DEF Awaiting
<1> QED BY <1>8, <1>9, <1>10, <1>11, <1>12, <1>13, <1>14, <1>15, <1>16, <1>17 DEF Handle

\* records and containers change only where a process is at work
LEMMA ServeTouches ==
  ASSUME Orderly, Shared, NEW j \in jobs, Serve(j) \/ JobFails(j)
  PROVE  /\ j.by \in Procs /\ pc[j.by] \in Awaiting /\ j.g = cur[j.by].g /\ j.g \in GatewayIds
         /\ \A g \in GatewayIds \ {j.g} : rec'[g] = rec[g] /\ cont'[g] = cont[g]
<1> USE DEF Shared
<1>1. j.by \in Procs /\ pc[j.by] \in Awaiting /\ j.g = cur[j.by].g /\ j.g \in GatewayIds
  BY DEF TypeInv, TypeOK, Job, TurnInv, JobInv
<1>2. \A g \in GatewayIds \ {j.g} : rec'[g] = rec[g] /\ cont'[g] = cont[g]
  BY DEF Serve, LockRecords, RemoveStale, RunContainer, InsertRecord, AskStatus, TakeRecord,
         DropContainer, JobFails, TypeInv, TypeOK
<1> QED BY <1>1, <1>2

LEMMA TruthStep ==
  ASSUME Attended, Orderly, Shared, PlanInv, TruthInv, [Next]_vars
  PROVE  TruthInv'
<1>1. CASE UNCHANGED vars
  BY <1>1 DEF vars, procVars, TruthInv, TruthOf, Declared, AsDocumented, Touches
<1>2. ASSUME NEW j \in jobs, Serve(j) \/ JobFails(j) PROVE TruthInv'
  <2>1. UNCHANGED <<doc, status, procVars>>
    BY <1>2, ServeFrame
  <2>2. ASSUME NEW g \in GatewayIds PROVE TruthOf(g)'
    <3>1. \A p \in Procs : Touches(p, g)' <=> Touches(p, g)
      BY <2>1 DEF procVars, Touches
    <3>2. CASE g = j.g
      BY <1>2, <3>1, <3>2, ServeTouches DEF TruthOf, Touches
    <3>3. CASE g # j.g
      <4>1. rec'[g] = rec[g] /\ cont'[g] = cont[g] /\ TruthOf(g)
        BY <1>2, <3>3, ServeTouches DEF TruthInv
      <4> QED BY <2>1, <3>1, <4>1 DEF TruthOf, Declared, AsDocumented
    <3> QED BY <3>2, <3>3
  <2> QED BY <2>1, <2>2 DEF TruthInv, procVars
<1> QED BY <1>1, <1>2, OrderlySteps, BeginTruthStep, LockTruthStep, HandleTruthStep DEF Shared

\* To operators who wait for each answer, whatever starts and stops fail, a
\* gateway that client_service reports running has a record and a container with
\* the settings of the document: update_gateway restarts whatever it must, and
\* start_gateway_by_id and stop_gateway_by_id set the status on every outcome.
\* (Scene "operated" of MCGateways is this specification with such constants.)
THEOREM OperatorsToldTruthAlways ==
  ASSUME Attended
  PROVE  Spec => [](StatusTruthful /\ OperatorsToldTruth)
<1> DEFINE Inv == Shared /\ PlanInv /\ TruthInv
<1>1. Orderly
  BY DEF Attended, Orderly
<1>2. Init => Inv
  <2>1. Init => PlanInv
    BY DEF Init, PlanInv, PlanOK, Busy
  <2>2. Init => TruthInv
    BY DEF Init, TruthInv, TruthOf
  <2> QED BY <1>1, <2>1, <2>2, SharedHolds
<1>3. Inv /\ [Next]_vars => Inv'
  BY <1>1, SharedHolds, PlanStep, TruthStep
<1>4. Inv => StatusTruthful /\ OperatorsToldTruth
  <2> SUFFICES ASSUME Inv, Quiet, NEW g \in GatewayIds, Declared(g), status[g] = "running"
               PROVE  AsDocumented(g)
    BY DEF OperatorsToldTruth, StatusTruthful, AsDocumented
  <2>1. \A p \in Procs : ~Touches(p, g)
    BY DEF Quiet, Touches, PlanInv, PlanOK, Busy, Awaiting
  <2> QED BY <2>1 DEF TruthInv, TruthOf
<1> HIDE DEF Inv
<1> QED BY <1>2, <1>3, <1>4, PTL DEF Spec

----------------------------------------------------------------------------
(* What the reconciliation at start-up leaves                              *)

\* an enabled gateway is still to be started, or runs as documented
Covered(g) ==
  doc[g].enabled => StartOf(g) \in todo[Startup] \/ AsDocumented(g)

StartupInv ==
  /\ op[Startup] = IF pc[Startup] = "idle" THEN "none" ELSE "startup"
  /\ Reconciles(Startup) => /\ tries[Startup] <= faults
                            /\ reply[Startup] = "err" => tries[Startup] < faults
                            /\ \A g \in GatewayIds : Covered(g)

\* Startup is at work on gateway h
LEMMA StartupMove ==
  ASSUME TypeInv, StartupInv, UNCHANGED <<rec, cont>>, op'[Startup] = "startup",
         pc'[Startup] # "idle",
         NEW h, doc' = doc,
         \A g \in GatewayIds \ {h} : StartOf(g) \in todo[Startup] => StartOf(g) \in todo'[Startup],
         h \in GatewayIds => Covered(h)',
         tries'[Startup] <= faults', reply'[Startup] # "err",
         Reconciles(Startup)
  PROVE  StartupInv'
<1>1. ASSUME NEW g \in GatewayIds PROVE Covered(g)'
  <2>1. CASE g = h
    BY <2>1
  <2>2. CASE g # h
    <3>1. Covered(g) /\ (StartOf(g) \in todo[Startup] => StartOf(g) \in todo'[Startup])
      BY <2>2 DEF StartupInv
    <3> QED BY <3>1 DEF Covered, AsDocumented
  <2> QED BY <2>1, <2>2
<1> QED BY <1>1 DEF StartupInv

LEMMA NotEnabled ==
  ASSUME NEW g, ~Declared(g)
  PROVE  ~doc[g].enabled
BY DEF Declared, Absent

\* what the start-up task is waiting for
LEMMA StartupCalls ==
  ASSUME Shared, PlanInv, StartupInv, pc[Startup] \in Awaiting
  PROVE  /\ cur[Startup].g \in GatewayIds
         /\ doc[cur[Startup].g].enabled => StartOf(cur[Startup].g) \in todo[Startup] /\ pc[Startup] \in Starting
<1> USE DEF Shared
<1>0. Startup \in Procs
  BY DEF Procs
<1>1. PICK h \in GatewayIds : h = cur[Startup].g
  BY <1>0 DEF TypeInv, CurInv
<1>2. op[Startup] = "startup" /\ PlanOK(Startup) /\ StartOK(Startup)
  BY <1>0 DEF StartupInv, PlanInv, CallInv, Awaiting
<1>3. CASE pc[Startup] \in Starting
  BY <1>1, <1>2, <1>3 DEF StartOK
<1>4. CASE pc[Startup] = "await_stop"
  <2>1. PICK t : t = StopOf(h)
    OBVIOUS
  <2>2. t \in todo[Startup] /\ t.do = "stop" /\ t.g = h
    BY <1>1, <1>2, <1>4, <2>1 DEF PlanOK, StopOf
  <2>3. ~doc[h].enabled
    BY <1>2, <2>2 DEF PlanOK, Reconciling
  <2> QED BY <1>1, <2>3
<1>5. CASE pc[Startup] = "await_destroy"
  <2>1. PICK t : t = DestroyOf(h)
    OBVIOUS
  <2>2. t \in todo[Startup] /\ t.do = "destroy" /\ t.g = h
    BY <1>1, <1>2, <1>5, <2>1 DEF PlanOK, DestroyOf
  <2>3. ~doc[h].enabled
    BY <1>2, <2>2, NotEnabled DEF PlanOK
  <2> QED BY <1>1, <2>3
<1>6. pc[Startup] # "await_delete"
  BY <1>0, <1>2 DEF TurnInv
<1> QED BY <1>3, <1>4, <1>5, <1>6 DEF Awaiting, Starting, Creating

\* a failed attempt is not the last one
LEMMA TriedAgain ==
  ASSUME TypeInv, MaxFaults < Attempts, faults' \in 0..MaxFaults, op[Startup] = "startup",
         tries[Startup] < faults', NEW t, GiveUp(Startup, t, tries[Startup] + 1),
         reply' = reply \/ TakeReply(Startup)
  PROVE  todo'[Startup] = todo[Startup] /\ tries'[Startup] <= faults' /\ pc'[Startup] = "work"
<1>0. Startup \in Procs
  BY DEF Procs
<1>1. tries[Startup] + 1 < Attempts
  BY <1>0, GatewayAssumption DEF TypeInv, TypeOK
<1>2. PICK n : n = tries[Startup] + 1
  OBVIOUS
<1>3. todo'[Startup] = todo[Startup] /\ tries'[Startup] = n /\ pc'[Startup] = "work"
  BY <1>0, <1>1, <1>2, GiveUpEffect
<1> QED BY <1>0, <1>2, <1>3 DEF TypeInv, TypeOK

LEMMA StartupHandleStep ==
  ASSUME Orderly, MaxFaults < Attempts, Shared, TypeInv', PlanInv, StartupInv, Handle(Startup)
  PROVE  StartupInv'
<1> USE DEF Shared
<1> DEFINE p == Startup
<1>0. p \in Procs
  BY DEF Procs
<1>1. Others(p) /\ UNCHANGED <<rec, cont>>
  BY <1>0, ProcFrame
<1>2. Busy(p)
  BY <1>0, HandleMoves
<1>3. op[p] = "startup" /\ PlanOK(p) /\ ReplyOK(p) /\ StartOK(p)
  BY <1>0, <1>2 DEF StartupInv, PlanInv, CallInv, Busy
<1>4. pc[p] \notin {"delete", "await_delete"}
  BY <1>0, <1>3 DEF TurnInv
<1>5. Reconciles(p)
  BY <1>0, <1>2, <1>4 DEF Reconciles, TypeInv, TypeOK, PcStates, Busy, Awaiting
<1>6. /\ tries[p] <= faults /\ (reply[p] = "err" => tries[p] < faults)
      /\ \A g \in GatewayIds : Covered(g)
  BY <1>5 DEF StartupInv
<1>7. /\ tries[p] \in Nat /\ tries'[p] \in Nat /\ faults \in 0..MaxFaults /\ faults' \in 0..MaxFaults
  BY <1>0 DEF TypeInv, TypeOK
<1>8. ASSUME NEW h \in GatewayIds, doc' = doc,
             \A g \in GatewayIds \ {h} : StartOf(g) \in todo[p] => StartOf(g) \in todo'[p],
             Covered(h)', tries'[p] <= faults', reply'[p] # "err", op'[p] = op[p], pc'[p] # "idle"
      PROVE  StartupInv'
  BY <1>1, <1>3, <1>5, <1>8, StartupMove
<1>9. ASSUME doc' = doc,
             \A g \in GatewayIds : StartOf(g) \in todo[p] => StartOf(g) \in todo'[p],
             tries'[p] <= faults', reply'[p] # "err", op'[p] = op[p], pc'[p] # "idle"
      PROVE  StartupInv'
  BY <1>1, <1>3, <1>5, <1>9, StartupMove, GatewayAssumption
<1>r. ASSUME (pc[p] \notin Awaiting /\ reply' = reply) \/ TakeReply(p)
      PROVE  reply'[p] # "err"
  BY <1>0, <1>r, ReplyTaken
<1>10. CASE ListUpstream(p)
  <2>1. /\ todo'[p] = {t \in todo[p] : t.do = "start" \/ t.g \in {g \in GatewayIds : rec[g] # NoConf}}
                        \cup {[do |-> "destroy", g |-> g] : g \in {g \in GatewayIds : rec[g] # NoConf} \ want[p]}
    BY <1>0, <1>10 DEF ListUpstream, TypeInv, TypeOK
  <2>2. /\ UNCHANGED <<doc, op, tries, faults, reply>> /\ pc'[p] = "work" /\ pc[p] = "list"
    BY <1>0, <1>10 DEF ListUpstream, TypeInv, TypeOK
  <2>3. ASSUME NEW g, StartOf(g) \in todo[p] PROVE StartOf(g) \in todo'[p]
    <3>1. PICK t : t = StartOf(g)
      OBVIOUS
    <3>2. t.do = "start"
      BY <3>1 DEF StartOf
    <3> QED BY <2>1, <2>3, <3>1, <3>2
  <2> QED BY <1>6, <1>9, <1>r, <2>2, <2>3 DEF Awaiting
<1>11. CASE Return(p)
  <2>1. pc'[p] = "idle" /\ op'[p] = "none"
    BY <1>0, <1>11 DEF Return, TypeInv, TypeOK
  <2> QED BY <2>1 DEF StartupInv, Reconciles, Awaiting
<1>12. CASE Replace(p) \/ Recreate(p)
  <2>1. UNCHANGED <<doc, todo, op, tries, faults>> /\ pc'[p] # "idle" /\ TakeReply(p)
    BY <1>0, <1>12 DEF Replace, Recreate, Call, TypeInv, TypeOK
  <2> QED BY <1>6, <1>9, <1>r, <2>1
<1>13. ASSUME NEW t \in Task, StartCall(p, t) PROVE StartupInv'
  <2>1. /\ UNCHANGED <<doc, todo, op, tries, faults, reply>> /\ t.g \in GatewayIds /\ pc[p] = "work"
        /\ t \in todo[p] /\ t.do = "start" /\ pc'[p] # "idle"
    BY <1>0, <1>13 DEF StartCall, IsNext, Call, TypeInv, TypeOK, Task
  <2>2. PICK h \in GatewayIds : h = t.g
    BY <2>1
  <2>3. StartOf(h) \in todo'[p]
    BY <2>1, <2>2 DEF StartOf, Task
  <2>4. Covered(h)'
    BY <2>3 DEF Covered
  <2> QED BY <1>6, <1>8, <1>r, <2>1, <2>2, <2>4 DEF Awaiting
<1>14. ASSUME NEW t \in Task, StopCall(p, t) \/ DestroyCall(p, t) PROVE StartupInv'
  <2>1. UNCHANGED <<doc, todo, op, tries, faults, reply>> /\ pc[p] = "work" /\ pc'[p] # "idle"
    BY <1>0, <1>14 DEF StopCall, DestroyCall, Call, TypeInv, TypeOK
  <2> QED BY <1>6, <1>9, <1>r, <2>1 DEF Awaiting
<1>15. ASSUME NEW t \in Task, CannotStop(p, t) PROVE FALSE
  <2>1. t \in todo[p] /\ t.do = "stop" /\ ~Declared(t.g)
    BY <1>15 DEF CannotStop, IsNext
  <2> QED BY <1>3, <2>1 DEF PlanOK
<1>16. ASSUME NEW t \in Task, CannotStart(p, t) PROVE StartupInv'
  <2>1. t \in todo[p] /\ t.do = "start" /\ pc[p] = "work"
    BY <1>16 DEF CannotStart, IsNext
  <2>2. Declared(t.g)
    BY <1>3, <2>1 DEF PlanOK
  <2>3. faults' = faults + 1 /\ GiveUp(p, t, tries[p] + 1) /\ UNCHANGED <<doc, reply>>
    BY <1>16, <2>2 DEF CannotStart, Fault
  <2>4. tries[p] < faults'
    BY <1>6, <1>7, <2>3
  <2>5. todo'[p] = todo[p] /\ tries'[p] <= faults' /\ pc'[p] = "work"
    BY <1>3, <1>7, <2>3, <2>4, TriedAgain
  <2>6. op'[p] = op[p]
    BY <1>0, <2>3, GiveUpEffect
  <2> QED BY <1>9, <1>r, <2>1, <2>3, <2>5, <2>6 DEF Awaiting
<1>17. CASE Started(p)
  <2>1. pc[p] \in Creating /\ reply[p] \in Reports /\ TakeReply(p) /\ UNCHANGED <<doc, faults>>
    BY <1>17 DEF Started, Creating
  <2>2. PICK h \in GatewayIds : h = cur[p].g
    BY <1>0, <2>1, CurTypes DEF Creating, Awaiting
  <2>3. AsDocumented(h)
    BY <1>3, <2>1, <2>2 DEF ReplyOK, StartOK, Starting, AsDocumented
  <2>4. Covered(h)'
    BY <1>1, <2>1, <2>3 DEF Covered, AsDocumented
  <2>5. PICK t : t = Current(p, "start")
    OBVIOUS
  <2>6. /\ op'[p] = op[p] /\ pc'[p] = "work" /\ todo'[p] = todo[p] \ {t} /\ tries'[p] = 0
    BY <1>0, <1>17, <2>5, NextTaskEffect DEF Started
  <2>7. \A g \in GatewayIds \ {h} : StartOf(g) # t
    BY <2>2, <2>5 DEF StartOf, Current
  <2> QED BY <1>7, <1>8, <1>r, <2>1, <2>4, <2>6, <2>7
<1>18. CASE NotStarted(p)
  <2>1. pc[p] \in Starting /\ reply[p] \in {"err", "conflict"} /\ TakeReply(p) /\ UNCHANGED <<doc, faults>>
    BY <1>18 DEF NotStarted, StartFailed, Starting, Creating
  <2>2. reply[p] = "err"
    BY <1>3, <1>18 DEF NotStarted, StartFailed, ReplyOK
  <2>3. PICK h \in GatewayIds : h = cur[p].g
    BY <1>0, <2>1, CurTypes DEF Starting, Creating, Awaiting
  <2>4. PICK t : t = Current(p, "start")
    OBVIOUS
  <2>5. GiveUp(p, t, tries[p] + 1)
    BY <1>18, <2>4 DEF NotStarted
  <2>6. tries[p] < faults'
    BY <1>6, <2>1, <2>2
  <2>7. todo'[p] = todo[p] /\ tries'[p] <= faults' /\ pc'[p] = "work"
    BY <1>3, <1>7, <2>1, <2>5, <2>6, TriedAgain
  <2>8. op'[p] = op[p]
    BY <1>0, <2>1, <2>5, GiveUpEffect
  <2>9. StartOf(h) \in todo'[p]
    BY <1>3, <2>1, <2>3, <2>7 DEF StartOK
  <2>10. Covered(h)'
    BY <2>9 DEF Covered
  <2> QED BY <1>8, <1>r, <2>1, <2>7, <2>8, <2>10
<1>19. CASE Stopped(p)
  <2>1. pc[p] = "await_stop" /\ TakeReply(p) /\ UNCHANGED <<doc, faults>>
    BY <1>19 DEF Stopped
  <2>2. PICK h \in GatewayIds : h = cur[p].g
    BY <1>0, <2>1, CurTypes DEF Awaiting
  <2>3. ~doc[h].enabled
    BY <2>1, <2>2, StartupCalls DEF Awaiting, Starting, Creating
  <2>4. PICK t : t = Current(p, "stop")
    OBVIOUS
  <2>5. /\ op'[p] = op[p] /\ pc'[p] = "work" /\ todo'[p] = todo[p] \ {t} /\ tries'[p] = 0
    BY <1>0, <1>19, <2>4, NextTaskEffect DEF Stopped
  <2>6. \A g \in GatewayIds \ {h} : StartOf(g) # t
    BY <2>2, <2>4 DEF StartOf, Current
  <2>7. Covered(h)'
    BY <2>1, <2>3 DEF Covered
  <2> QED BY <1>7, <1>8, <1>r, <2>1, <2>5, <2>6, <2>7
<1>20. CASE Destroyed(p)
  <2>1. pc[p] = "await_destroy" /\ TakeReply(p) /\ UNCHANGED <<doc, faults>>
    BY <1>20 DEF Destroyed
  <2>2. PICK h \in GatewayIds : h = cur[p].g
    BY <1>0, <2>1, CurTypes DEF Awaiting
  <2>3. PICK t : t = Current(p, "destroy")
    OBVIOUS
  <2>4. \A g \in GatewayIds : StartOf(g) # t
    BY <2>2, <2>3 DEF StartOf, Current
  <2>5. CASE reply[p] = "ok"
    <3>1. /\ op'[p] = op[p] /\ pc'[p] = "work" /\ todo'[p] = todo[p] \ {t} /\ tries'[p] = 0
      BY <1>0, <1>20, <2>3, <2>5, NextTaskEffect DEF Destroyed
    <3> QED BY <1>7, <1>9, <1>r, <2>1, <2>4, <3>1
  <2>6. CASE reply[p] # "ok"
    <3>1. reply[p] = "err" /\ GiveUp(p, t, tries[p] + 1)
      BY <1>3, <1>20, <2>1, <2>3, <2>6 DEF Destroyed, ReplyOK, Awaiting, Creating
    <3>2. tries[p] < faults'
      BY <1>6, <2>1, <3>1
    <3>3. todo'[p] = todo[p] /\ tries'[p] <= faults' /\ pc'[p] = "work"
      BY <1>3, <1>7, <2>1, <3>1, <3>2, TriedAgain
    <3>4. op'[p] = op[p]
      BY <1>0, <2>1, <3>1, GiveUpEffect
    <3> QED BY <1>9, <1>r, <2>1, <3>3, <3>4
  <2> QED BY <2>5, <2>6
<1>21. ~DeleteReply(p) /\ ~DeleteDone(p)
  BY <1>4 DEF DeleteReply, DeleteDone
<1> QED BY <1>10, <1>11, <1>12, <1>13, <1>14, <1>15, <1>16, <1>17, <1>18, <1>19, <1>20, <1>21 DEF Handle

LEMMA StartupServeStep ==
  ASSUME Orderly, Shared, PlanInv, StartupInv, NEW j \in jobs, Serve(j) \/ JobFails(j)
  PROVE  StartupInv'
<1> USE DEF Shared
<1>0. Startup \in Procs
  BY DEF Procs
<1>1. UNCHANGED <<doc, status, procVars>>
  BY ServeFrame
<1>2. ASSUME Reconciles(Startup)
      PROVE  /\ tries[Startup] <= faults'
             /\ reply'[Startup] = "err" => tries[Startup] < faults'
             /\ \A g \in GatewayIds : Covered(g)'
  <2>1. Busy(Startup)
    BY <1>2 DEF Reconciles, Busy, Awaiting
  <2>2. j.by = Startup /\ pc[Startup] \in Awaiting /\ j.g = cur[Startup].g /\ j.g \in GatewayIds
    BY <1>0, <2>1, ServeTouches, NoOther
  <2>3. \A g \in GatewayIds \ {j.g} : rec'[g] = rec[g] /\ cont'[g] = cont[g]
    BY ServeTouches
  <2>4. ASSUME NEW g \in GatewayIds PROVE Covered(g)'
    <3>1. Covered(g)
      BY <1>2 DEF StartupInv
    <3>2. CASE g = j.g
      BY <1>1, <2>2, <3>2, StartupCalls DEF Covered, procVars
    <3>3. CASE g # j.g
      BY <1>1, <2>3, <3>1, <3>3 DEF Covered, AsDocumented, procVars
    <3> QED BY <3>2, <3>3
  <2>5. tries[Startup] \in Nat /\ faults \in Nat /\ tries[Startup] <= faults
    BY <1>0, <1>2 DEF StartupInv, TypeInv, TypeOK
  <2>6. CASE JobFails(j)
    BY <2>4, <2>5, <2>6 DEF JobFails, Fault
  <2>7. CASE Serve(j)
    <3>1. faults' = faults
      BY <2>7 DEF Serve, LockRecords, RemoveStale, RunContainer, InsertRecord, AskStatus, TakeRecord,
                  DropContainer
    <3>2. JobOK(j) /\ cur[Startup].conf = j.conf
      BY <2>2 DEF CallInv, JobOK
    <3>3. ~(j.step = "ready" /\ cont[j.g] = NoConf)
      <4> SUFFICES ASSUME j.step = "ready" PROVE cont[j.g] # NoConf
        OBVIOUS
      <4>1. pc[Startup] \in Creating /\ cont[j.g] = j.conf
        BY <2>2, <3>2 DEF JobOK
      <4> QED BY <1>0, <2>2, <3>2, <4>1, CurTypes DEF Starting
    <3>4. reply'[Startup] = reply[Startup] \/ reply'[Startup] # "err"
      BY <1>0, <2>2, <2>7, <3>3 DEF Serve, LockRecords, RemoveStale, RunContainer, InsertRecord, AskStatus,
                  TakeRecord, DropContainer, End, Goto, Reports, TypeInv, TypeOK
    <3> QED BY <1>2, <2>5, <3>1, <3>4, <2>4 DEF StartupInv
  <2> QED BY <2>4, <2>6, <2>7
<1> QED BY <1>1, <1>2 DEF StartupInv, procVars, Reconciles

LEMMA StartupStep ==
  ASSUME Orderly, MaxFaults < Attempts, Shared, Shared', PlanInv, StartupInv, [Next]_vars
  PROVE  StartupInv'
<1> USE DEF Shared
<1>0. Startup \in Procs
  BY DEF Procs
<1>1. CASE UNCHANGED vars
  BY <1>1 DEF vars, procVars, StartupInv, Covered, AsDocumented, Reconciles
<1>2. ASSUME NEW j \in jobs, Serve(j) \/ JobFails(j) PROVE StartupInv'
  BY <1>2, StartupServeStep
\* another process is at work, or asks for apply_lock
<1>3. ASSUME NEW q \in Procs \ {Startup}, Begin(q) \/ Lock(q) \/ Handle(q) PROVE StartupInv'
  <2>1. Others(q)
    BY <1>3, ProcFrame
  <2>2. /\ pc'[Startup] = pc[Startup] /\ op'[Startup] = op[Startup] /\ tries'[Startup] = tries[Startup]
        /\ todo'[Startup] = todo[Startup] /\ reply'[Startup] = reply[Startup]
    BY <1>0, <1>3, <2>1 DEF Others
  <2>3. CASE BeginApply(q)
    <3>1. UNCHANGED <<doc, status, rec, cont, faults>>
      BY <2>3, BeginApplyFrame
    <3> QED BY <2>2, <3>1 DEF StartupInv, Covered, AsDocumented, Reconciles
  <2>4. CASE ~BeginApply(q)
    <3>1. ~Busy(Startup)
      BY <1>0, <1>3, <2>4, OnlyOne
    <3>2. ~Reconciles(Startup)'
      BY <2>2, <3>1 DEF Reconciles, Busy, Awaiting
    <3> QED BY <2>2, <3>2 DEF StartupInv
  <2> QED BY <2>3, <2>4
<1>4. ~Begin(Startup)
  BY GatewayAssumption DEF Begin, CreateGateway, UpdateGateway, DeleteGateway, StartOrStop, BeginApply
<1>5. ASSUME Lock(Startup) PROVE StartupInv'
  <2>1. StartupDesired
    BY <1>5 DEF Lock, Commit, StartupInv
  <2> DEFINE ids == {g \in GatewayIds : Declared(g)}
             tasks == {StartOrStopTask(doc, g) : g \in ids}
  <2>2. Plan(Startup, "startup", "list", tasks, ids) /\ UNCHANGED <<doc, reply, faults>> /\ pc[Startup] = "lock"
    BY <2>1 DEF StartupDesired
  <2>3. ASSUME NEW g \in GatewayIds, doc[g].enabled PROVE StartOf(g) \in tasks
    <3>1. g \in ids
      BY <2>3, NotEnabled
    <3>2. StartOf(g) = StartOrStopTask(doc, g)
      BY <2>3 DEF StartOf, StartOrStopTask
    <3> QED BY <3>1, <3>2
  <2> HIDE DEF tasks, ids
  <2>4. /\ op'[Startup] = "startup" /\ pc'[Startup] = "list" /\ todo'[Startup] = tasks /\ tries'[Startup] = 0
    BY <1>0, <2>2, PlanEffect
  <2>5. reply'[Startup] = "none"
    BY <1>0, <2>2 DEF JobInv, Awaiting
  <2>7. faults' \in Nat
    BY <2>2 DEF TypeInv, TypeOK
  <2>6. \A g \in GatewayIds : Covered(g)'
    BY <2>2, <2>3, <2>4 DEF Covered
  <2> QED BY <2>4, <2>5, <2>6, <2>7 DEF StartupInv
<1>6. ASSUME Handle(Startup) PROVE StartupInv'
  BY <1>6, StartupHandleStep
<1> QED BY <1>1, <1>2, <1>3, <1>4, <1>5, <1>6, OrderlySteps

\* When reconcile_on_startup ends, every enabled gateway has a record and a
\* container with the settings of the document, whatever ran before: fewer than
\* GATEWAY_AUTOSTART_ATTEMPTS attempts fail, and no call is given up meanwhile.
\* What the gateways say of themselves does not matter: a gateway that reports an
\* error, or cannot be asked, runs, and is not started again.
THEOREM StartupStartsEnabled ==
  ASSUME Orderly, MaxFaults < Attempts
  PROVE  Spec => EnabledRun
<1> DEFINE Inv == Shared /\ PlanInv /\ StartupInv
<1>1. Init => Inv
  <2>1. Init => PlanInv
    BY DEF Init, PlanInv, PlanOK, Busy
  <2>2. Init => StartupInv
    BY DEF Init, StartupInv, Reconciles, Awaiting, Procs
  <2> QED BY <2>1, <2>2, SharedHolds
<1>2. Inv /\ [Next]_vars => Inv'
  BY SharedHolds, PlanStep, StartupStep
<1>3. Inv /\ [Next]_vars
        => [Return(Startup) => \A g \in GatewayIds :
                 doc[g].enabled => rec[g] = doc[g].conf /\ cont[g] = doc[g].conf]_vars
  <2> SUFFICES ASSUME Inv, Return(Startup), NEW g \in GatewayIds, doc[g].enabled
               PROVE  rec[g] = doc[g].conf /\ cont[g] = doc[g].conf
    OBVIOUS
  <2>1. todo[Startup] = {} /\ Reconciles(Startup)
    BY DEF Return, Reconciles
  <2> QED BY <2>1 DEF StartupInv, Covered, AsDocumented
<1> HIDE DEF Inv
<1> QED BY <1>1, <1>2, <1>3, PTL DEF Spec, EnabledRun

----------------------------------------------------------------------------
(* What applies leave                                                      *)

\* applies and the start-up task, where nothing fails
Applied == Ops \subseteq {"apply"} /\ FaultKinds = {}

RecordInv ==
  /\ \A g \in GatewayIds : rec[g] = cont[g] \/ \E j \in jobs : j.g = g /\ j.step \in {"ready", "drop"}
  /\ \A p \in Procs : reply[p] # "err"
  /\ \A p \in Procs : reply[p] = "ok" => rec[cur[p].g] = NoConf

Settled(g) == rec[g] = IF doc[g].enabled THEN doc[g].conf ELSE NoConf

\* process p has something to do about gateway g
Attends(p, g) == (\E t \in todo[p] : t.g = g) \/ (pc[p] = "list" /\ ~Declared(g))

SettledInv ==
  /\ op[Startup] # "apply"
  /\ pc[Startup] # "lock" => \A g \in GatewayIds : Settled(g) \/ \E p \in Procs : Attends(p, g)

LEMMA AppliedOrderly ==
  ASSUME Applied
  PROVE  /\ Orderly
         /\ \A f : ~Fault(f)
BY DEF Applied, Orderly, Fault

\* a call being served
LEMMA RecordServeStep ==
  ASSUME Applied, Shared, RecordInv, NEW j \in jobs, Serve(j)
  PROVE  RecordInv'
<1> USE DEF Shared
<1>1. PICK p \in Procs : /\ p = j.by /\ pc[p] \in Awaiting /\ j.g = cur[p].g /\ j.g \in GatewayIds
                         /\ reply[p] = "none" /\ Busy(p)
  <2>1. j.by \in Procs /\ pc[j.by] \in Awaiting /\ j.g = cur[j.by].g /\ j.g \in GatewayIds
    BY AppliedOrderly, ServeTouches
  <2>2. reply[j.by] = "none"
    BY <2>1, GatewayAssumption DEF JobInv
  <2> QED BY <2>1, <2>2 DEF Busy, Awaiting
<1>2. jobs = {j} /\ \A q \in Procs \ {p} : reply[q] = "none"
  BY <1>1, AppliedOrderly, NoOther
<1>3. /\ UNCHANGED cur
      /\ \A g \in GatewayIds \ {j.g} : rec'[g] = rec[g] /\ cont'[g] = cont[g] /\ rec[g] = cont[g]
  <2>1. UNCHANGED cur /\ \A g \in GatewayIds \ {j.g} : rec'[g] = rec[g] /\ cont'[g] = cont[g]
    BY AppliedOrderly, ServeTouches, ServeFrame DEF procVars
  <2> QED BY <1>2, <2>1 DEF RecordInv
<1>4. JobOK(j) /\ (j.step \notin {"ready", "drop"} => rec[j.g] = cont[j.g]) /\ p # Nobody
  BY <1>1, <1>2, GatewayAssumption DEF CallInv, RecordInv
<1>5. rec \in [GatewayIds -> Confs \cup {NoConf}] /\ cont \in [GatewayIds -> Confs \cup {NoConf}]
      /\ reply \in [Procs -> {"none", "ok", "conflict", "err"} \cup Reports]
  BY DEF TypeInv, TypeOK
\* the call goes on
<1>6. ASSUME NEW st, Goto(j, st),
             rec'[j.g] = cont'[j.g] \/ st \in {"ready", "drop"}
      PROVE  RecordInv'
  <2>1. PICK k : k = [j EXCEPT !.step = st]
    OBVIOUS
  <2>2. k.step = st /\ k.g = j.g
    BY <2>1 DEF TypeInv, TypeOK, Job
  <2>3. jobs' = {k} /\ reply' = reply
    BY <1>2, <1>6, <2>1 DEF Goto
  <2>4. \A q \in Procs : reply'[q] = "none"
    BY <1>1, <1>2, <2>3
  <2> QED BY <1>3, <1>6, <2>2, <2>3, <2>4 DEF RecordInv
\* ... or ends
<1>7. ASSUME NEW r, End(j, r), r # "err", r = "ok" => rec'[j.g] = NoConf, rec'[j.g] = cont'[j.g]
      PROVE  RecordInv'
  <2>1. reply'[p] = r /\ \A q \in Procs \ {p} : reply'[q] = "none"
    BY <1>1, <1>2, <1>4, <1>5, <1>7 DEF End
  <2> QED BY <1>1, <1>3, <1>7, <2>1 DEF RecordInv
<1>8. CASE LockRecords(j)
  <2>1. rec' = rec /\ cont' = cont /\ rec[j.g] = cont[j.g]
    BY <1>4, <1>8 DEF LockRecords
  <2> QED BY <1>6, <1>7, <1>8, <2>1 DEF LockRecords
<1>9. CASE RemoveStale(j)
  <2>1. rec'[j.g] = NoConf /\ cont'[j.g] = NoConf /\ Goto(j, "run")
    BY <1>1, <1>4, <1>5, <1>9 DEF RemoveStale, JobOK, CreateSteps
  <2> QED BY <1>6, <2>1
<1>10. CASE RunContainer(j)
  BY <1>6, <1>10 DEF RunContainer
<1>11. CASE InsertRecord(j)
  <2>1. j.step = "ready" /\ cont[j.g] = j.conf /\ j.conf = cur[p].conf /\ pc[p] \in Creating
    BY <1>1, <1>4, <1>11 DEF InsertRecord, JobOK
  <2>2. cont[j.g] # NoConf
    BY <1>1, <2>1, CurTypes DEF Starting
  <2>3. rec'[j.g] = cont'[j.g] /\ Goto(j, "status")
    BY <1>1, <1>5, <1>11, <2>1, <2>2 DEF InsertRecord
  <2> QED BY <1>6, <2>3
<1>12. CASE AskStatus(j)
  <2>1. PICK r \in Reports : End(j, r)
    BY <1>12 DEF AskStatus
  <2>2. r \notin {"ok", "err"} /\ rec' = rec /\ cont' = cont /\ rec[j.g] = cont[j.g]
    BY <1>4, <1>12, <2>1 DEF AskStatus, Reports
  <2> QED BY <1>7, <2>1, <2>2
<1>13. CASE TakeRecord(j)
  <2>1. rec'[j.g] = NoConf /\ cont' = cont /\ rec[j.g] = cont[j.g]
    BY <1>1, <1>4, <1>5, <1>13 DEF TakeRecord
  <2>2. CASE rec[j.g] = NoConf
    BY <1>7, <1>13, <2>1, <2>2 DEF TakeRecord
  <2>3. CASE rec[j.g] # NoConf
    BY <1>6, <1>13, <2>3 DEF TakeRecord
  <2> QED BY <2>2, <2>3
<1>14. CASE DropContainer(j)
  <2>1. rec'[j.g] = NoConf /\ cont'[j.g] = NoConf /\ End(j, "ok")
    BY <1>1, <1>4, <1>5, <1>14 DEF DropContainer, JobOK
  <2> QED BY <1>7, <2>1
<1> QED BY <1>8, <1>9, <1>10, <1>11, <1>12, <1>13, <1>14 DEF Serve

LEMMA RecordStep ==
  ASSUME Applied, Shared, RecordInv, [Next]_vars
  PROVE  RecordInv'
<1> USE DEF Shared
<1>1. CASE UNCHANGED vars
  BY <1>1 DEF vars, procVars, RecordInv
<1>2. ASSUME NEW j \in jobs, Serve(j) \/ JobFails(j) PROVE RecordInv'
  BY <1>2, AppliedOrderly, RecordServeStep DEF JobFails
<1>3. ASSUME NEW p \in Procs, Begin(p) \/ Lock(p) \/ Handle(p) PROVE RecordInv'
  <2>1. Others(p) /\ UNCHANGED <<rec, cont>>
    BY <1>3, ProcFrame
  <2>2. reply'[p] = "none" \/ (reply'[p] = reply[p] /\ reply[p] = "none")
    <3>1. CASE Begin(p) \/ Lock(p)
      BY <3>1 DEF Begin, Lock, CreateGateway, UpdateGateway, DeleteGateway, StartOrStop, BeginApply,
                  Commit, StartupDesired, JobInv, Awaiting
    <3>2. CASE Handle(p)
      <4>1. (pc[p] \notin Awaiting /\ reply' = reply) \/ TakeReply(p)
        BY <3>2 DEF Handle, ListUpstream, DeleteReply, DeleteDone, Replace, Recreate, Started, NotStarted,
                    Stopped, Destroyed, Return, StartCall, StopCall, DestroyCall, CannotStart, CannotStop,
                    Awaiting
      <4> QED BY <4>1, ReplyTaken
    <3> QED BY <1>3, <3>1, <3>2
  <2>3. \A j \in jobs : j \in jobs'
    <3>1. CASE Begin(p) \/ Lock(p)
      BY <3>1 DEF Begin, Lock, CreateGateway, UpdateGateway, DeleteGateway, StartOrStop, BeginApply,
                  Commit, StartupDesired, Call
    <3>2. CASE Handle(p)
      BY <3>2 DEF Handle, ListUpstream, DeleteReply, DeleteDone, Replace, Recreate, Started, NotStarted,
                  Stopped, Destroyed, Return, StartCall, StopCall, DestroyCall, CannotStart, CannotStop,
                  Call
    <3> QED BY <1>3, <3>1, <3>2
  <2>4. \A q \in Procs \ {p} : reply'[q] = reply[q] /\ cur'[q] = cur[q]
    BY <2>1 DEF Others
  <2> QED BY <2>1, <2>2, <2>3, <2>4 DEF RecordInv
<1> QED BY <1>1, <1>2, <1>3, AppliedOrderly, OrderlySteps

\* a step of p that decides at most about gateway h
LEMMA SettledMove ==
  ASSUME TypeInv, SettledInv, NEW p \in Procs, Others(p), UNCHANGED <<doc, rec>>,
         op'[p] \in {op[p], "none"} \/ p # Startup,
         pc[p] # "lock" \/ p # Startup,
         NEW h,
         \A g \in GatewayIds \ {h} : Attends(p, g) => Settled(g) \/ Attends(p, g)',
         h \in GatewayIds => Settled(h) \/ Attends(p, h)'
  PROVE  SettledInv'
<1>0. Startup \in Procs
  BY DEF Procs
<1>1. op'[Startup] # "apply"
  BY <1>0 DEF Others, SettledInv
<1>2. ASSUME pc'[Startup] # "lock", NEW g \in GatewayIds
      PROVE  Settled(g)' \/ \E q \in Procs : Attends(q, g)'
  <2>1. Settled(g)' <=> Settled(g)
    BY DEF Settled
  <2>2. pc[Startup] # "lock"
    BY <1>0, <1>2 DEF Others
  <2>3. Settled(g) \/ \E q \in Procs : Attends(q, g)
    BY <2>2 DEF SettledInv
  <2>4. CASE g = h
    BY <2>1, <2>4
  <2>5. ASSUME g # h, NEW q \in Procs, Attends(q, g) PROVE Settled(g) \/ \E r \in Procs : Attends(r, g)'
    <3>1. CASE q = p
      BY <2>5, <3>1
    <3>2. CASE q # p
      <4>1. pc'[q] = pc[q] /\ todo'[q] = todo[q]
        BY <3>2 DEF Others
      <4>2. Attends(q, g)'
        BY <2>5, <4>1 DEF Attends, Declared
      <4> QED BY <4>2
    <3> QED BY <3>1, <3>2
  <2> QED BY <2>1, <2>3, <2>4, <2>5
<1> QED BY <1>1, <1>2 DEF SettledInv

LEMMA SettledLockStep ==
  ASSUME Applied, Shared, PlanInv, SettledInv, NEW p \in Procs, Lock(p)
  PROVE  SettledInv'
<1> USE DEF Shared
<1>0. Startup \in Procs
  BY DEF Procs
<1>1. Others(p) /\ UNCHANGED <<rec, cont>>
  BY ProcFrame
<1>2. pc[p] = "lock" /\ \A q \in Procs : ~Busy(q)
  <2>1. pc[p] = "lock"
    BY DEF Lock, Commit, StartupDesired
  <2>2. \A q \in Procs \ {p} : ~Busy(q)
    BY <2>1, AppliedOrderly, OnlyOne DEF BeginApply
  <2> QED BY <2>1, <2>2 DEF Busy
<1>3. ASSUME pc[Startup] # "lock", NEW g \in GatewayIds PROVE Settled(g)
  <2>1. \A q \in Procs : ~Attends(q, g)
    BY <1>2 DEF Attends, PlanInv, PlanOK, Busy
  <2> QED BY <1>3, <2>1 DEF SettledInv
<1>4. ASSUME NEW new \in [GatewayIds -> Settings \cup {Absent}], Commit(p, new) PROVE SettledInv'
  <2> DEFINE ids == {g \in GatewayIds : new[g] # Absent}
             tasks == {StartOrStopTask(new, g) : g \in {i \in ids : new[i] # doc[i]}}
  <2>1. Plan(p, "apply", "list", tasks, ids) /\ reply' = reply /\ doc' = new /\ p # Startup
    BY <1>4 DEF Commit, SettledInv
  <2>2. ASSUME NEW g \in GatewayIds, new[g] # Absent, new[g] # doc[g] PROVE \E t \in tasks : t.g = g
    <3>1. StartOrStopTask(new, g) \in tasks /\ StartOrStopTask(new, g).g = g
      BY <2>2 DEF StartOrStopTask
    <3> QED BY <3>1
  <2> HIDE DEF tasks, ids
  <2>3. pc'[p] = "list" /\ todo'[p] = tasks
    BY <2>1, PlanEffect
  <2>4. ASSUME pc'[Startup] # "lock", NEW g \in GatewayIds PROVE Settled(g)' \/ Attends(p, g)'
    <3>1. pc[Startup] # "lock"
      BY <1>0, <1>1, <2>1, <2>4 DEF Others
    <3>2. CASE new[g] = Absent
      BY <2>1, <2>3, <3>2 DEF Attends, Declared
    <3>3. CASE new[g] = doc[g]
      BY <1>1, <1>3, <2>1, <3>1, <3>3 DEF Settled
    <3>4. CASE new[g] # Absent /\ new[g] # doc[g]
      BY <2>2, <2>3, <3>4 DEF Attends
    <3> QED BY <3>2, <3>3, <3>4
  <2> QED BY <1>0, <1>1, <2>1, <2>4 DEF SettledInv, Others
<1>5. ASSUME p = Startup, StartupDesired PROVE SettledInv'
  <2> DEFINE ids == {g \in GatewayIds : Declared(g)}
             tasks == {StartOrStopTask(doc, g) : g \in ids}
  <2>1. Plan(p, "startup", "list", tasks, ids) /\ reply' = reply /\ doc' = doc
    BY <1>5 DEF StartupDesired
  <2>2. ASSUME NEW g \in GatewayIds, Declared(g) PROVE \E t \in tasks : t.g = g
    <3>1. StartOrStopTask(doc, g) \in tasks /\ StartOrStopTask(doc, g).g = g
      BY <2>2 DEF StartOrStopTask
    <3> QED BY <3>1
  <2> HIDE DEF tasks, ids
  <2>3. pc'[p] = "list" /\ todo'[p] = tasks /\ op'[p] = "startup"
    BY <2>1, PlanEffect
  <2>4. ASSUME NEW g \in GatewayIds PROVE Attends(p, g)'
    BY <2>1, <2>2, <2>3 DEF Attends, Declared
  <2> QED BY <1>5, <2>3, <2>4 DEF SettledInv
<1> QED BY <1>4, <1>5 DEF Lock

LEMMA SettledHandleStep ==
  ASSUME Applied, Shared, PlanInv, RecordInv, SettledInv, NEW p \in Procs, Handle(p)
  PROVE  SettledInv'
<1> USE DEF Shared
<1>1. Others(p) /\ UNCHANGED <<rec, cont>>
  BY ProcFrame
<1>2. Busy(p) /\ op'[p] \in {op[p], "none"}
  BY HandleMoves
<1>3. op[p] \in Reconciling /\ PlanOK(p) /\ ReplyOK(p) /\ StartOK(p) /\ reply[p] # "err"
  BY <1>2 DEF Applied, TurnInv, PlanInv, CallInv, RecordInv
<1>4. ASSUME doc' = doc, NEW h, \A g \in GatewayIds \ {h} : Attends(p, g) => Settled(g) \/ Attends(p, g)',
             h \in GatewayIds => Settled(h) \/ Attends(p, h)'
      PROVE  SettledInv'
  BY <1>1, <1>2, <1>4, SettledMove DEF Busy
<1>5. ASSUME doc' = doc, \A g \in GatewayIds : Attends(p, g) => Settled(g) \/ Attends(p, g)'
      PROVE  SettledInv'
  BY <1>4, <1>5, GatewayAssumption
<1>6. CASE ListUpstream(p)
  <2> DEFINE seen == {g \in GatewayIds : rec[g] # NoConf}
  <2>1. /\ todo'[p] = {t \in todo[p] : t.do = "start" \/ t.g \in seen}
                        \cup {[do |-> "destroy", g |-> g] : g \in seen \ want[p]}
        /\ pc[p] = "list" /\ doc' = doc
    BY <1>6 DEF ListUpstream, TypeInv, TypeOK
  <2>2. ASSUME NEW g \in GatewayIds, Attends(p, g) PROVE Settled(g) \/ Attends(p, g)'
    <3>1. CASE Declared(g)
      <4>1. PICK t \in todo[p] : t.g = g
        BY <2>2, <3>1 DEF Attends
      <4>2. CASE t.do = "start" \/ g \in seen
        <5>1. t \in todo'[p]
          BY <2>1, <4>1, <4>2
        <5> QED BY <4>1, <5>1 DEF Attends
      <4>3. CASE t.do # "start" /\ g \notin seen
        <5>1. t.do # "destroy" /\ ~doc[g].enabled
          BY <1>3, <2>1, <4>1, <4>3 DEF PlanOK
        <5> QED BY <4>3, <5>1 DEF Settled
      <4> QED BY <4>2, <4>3
    <3>2. CASE ~Declared(g)
      <4>1. ~doc[g].enabled /\ g \notin want[p]
        BY <1>3, <2>1, <3>2, NotEnabled DEF PlanOK
      <4>2. CASE g \notin seen
        BY <4>1, <4>2 DEF Settled
      <4>3. CASE g \in seen
        <5>1. PICK t : t = [do |-> "destroy", g |-> g]
          OBVIOUS
        <5>2. t \in todo'[p] /\ t.g = g
          BY <2>1, <4>1, <4>3, <5>1
        <5> QED BY <5>2 DEF Attends
      <4> QED BY <4>2, <4>3
    <3> QED BY <3>1, <3>2
  <2> QED BY <1>5, <2>1, <2>2
<1>7. CASE Return(p)
  <2>1. doc' = doc /\ pc[p] = "work" /\ todo[p] = {}
    BY <1>7 DEF Return
  <2> QED BY <1>5, <2>1 DEF Attends
<1>8. ASSUME doc' = doc, todo'[p] = todo[p], pc[p] # "list" PROVE SettledInv'
  BY <1>5, <1>8 DEF Attends
<1>9. CASE Replace(p) \/ Recreate(p)
  BY <1>8, <1>9 DEF Replace, Recreate
<1>10. ASSUME NEW t \in Task, StartCall(p, t) \/ StopCall(p, t) \/ DestroyCall(p, t) PROVE SettledInv'
  BY <1>8, <1>10 DEF StartCall, StopCall, DestroyCall
<1>11. ASSUME NEW t \in Task PROVE ~CannotStart(p, t) /\ ~CannotStop(p, t)
  <2>1. ASSUME t \in todo[p], t.do \in {"start", "stop"} PROVE Declared(t.g)
    BY <1>3, <2>1 DEF PlanOK
  <2> QED BY <2>1, AppliedOrderly DEF CannotStart, CannotStop, IsNext
\* the task on h is over
<1>12. ASSUME NEW h \in GatewayIds, NEW t, t.g = h, doc' = doc, pc[p] # "list",
              todo'[p] = todo[p] \ {t}, Settled(h)
       PROVE  SettledInv'
  <2>1. ASSUME NEW g \in GatewayIds \ {h}, Attends(p, g) PROVE Attends(p, g)'
    <3>1. PICK u \in todo[p] : u.g = g
      BY <1>12, <2>1 DEF Attends
    <3>2. u \in todo'[p]
      BY <1>12, <2>1, <3>1
    <3> QED BY <3>1, <3>2 DEF Attends
  <2> QED BY <1>4, <1>12, <2>1
<1>13. CASE Started(p)
  <2>1. pc[p] \in Creating /\ reply[p] \in Reports /\ TakeReply(p) /\ doc' = doc
    BY <1>13 DEF Started, Creating
  <2>2. PICK h \in GatewayIds : h = cur[p].g
    BY <2>1, CurTypes DEF Creating, Awaiting
  <2>3. PICK t : t = Current(p, "start")
    OBVIOUS
  <2>4. t.g = h /\ t.do = "start" /\ t = StartOf(h)
    BY <2>2, <2>3 DEF Current, StartOf
  <2>5. t \in todo[p] /\ rec[h] = doc[h].conf
    BY <1>3, <2>1, <2>2, <2>4 DEF ReplyOK, StartOK, Starting
  <2>6. doc[h].enabled
    BY <1>3, <2>4, <2>5 DEF PlanOK
  <2>7. todo'[p] = todo[p] \ {t}
    BY <1>13, <2>3, NextTaskEffect DEF Started
  <2>8. Settled(h)
    BY <2>5, <2>6 DEF Settled
  <2> QED BY <1>12, <2>1, <2>4, <2>7, <2>8 DEF Creating
<1>14. ~NotStarted(p)
  BY <1>3 DEF NotStarted, StartFailed, ReplyOK
<1>15. CASE Stopped(p) \/ Destroyed(p)
  <2>1. pc[p] \in {"await_stop", "await_destroy"} /\ reply[p] # "none" /\ TakeReply(p) /\ doc' = doc
    BY <1>15 DEF Stopped, Destroyed
  <2>2. reply[p] = "ok"
    BY <1>3, <2>1 DEF ReplyOK, Awaiting, Creating
  <2>3. PICK h \in GatewayIds : h = cur[p].g
    BY <2>1, CurTypes DEF Awaiting
  <2>4. rec[h] = NoConf
    BY <2>2, <2>3 DEF RecordInv
  <2>5. PICK d \in {"stop", "destroy"} : pc[p] = IF d = "stop" THEN "await_stop" ELSE "await_destroy"
    BY <2>1
  <2>6. PICK t : t = Current(p, d)
    OBVIOUS
  <2>7. t.g = h /\ t.do = d /\ t = [do |-> d, g |-> h]
    BY <2>3, <2>6 DEF Current
  <2>8. t \in todo[p]
    BY <1>3, <2>3, <2>5, <2>7 DEF PlanOK, StopOf, DestroyOf
  <2>9. ~doc[h].enabled
    BY <1>3, <2>5, <2>7, <2>8, NotEnabled DEF PlanOK
  <2>10. todo'[p] = todo[p] \ {t}
    BY <1>15, <2>2, <2>5, <2>6, NextTaskEffect DEF Stopped, Destroyed
  <2>11. Settled(h)
    BY <2>4, <2>9 DEF Settled
  <2> QED BY <1>12, <2>1, <2>7, <2>10, <2>11
<1>16. ~DeleteReply(p) /\ ~DeleteDone(p)
  BY <1>3 DEF DeleteReply, DeleteDone, TurnInv, Reconciling
<1> QED BY <1>6, <1>7, <1>9, <1>10, <1>11, <1>13, <1>14, <1>15, <1>16 DEF Handle

LEMMA SettledStep ==
  ASSUME Applied, Shared, PlanInv, RecordInv, SettledInv, [Next]_vars
  PROVE  SettledInv'
<1> USE DEF Shared
<1>0. Startup \in Procs
  BY DEF Procs
<1>1. CASE UNCHANGED vars
  BY <1>1 DEF vars, procVars, SettledInv, Settled, Attends, Declared
<1>2. ASSUME NEW j \in jobs, Serve(j) \/ JobFails(j) PROVE SettledInv'
  <2>1. UNCHANGED <<doc, procVars>>
    BY <1>2, ServeFrame
  <2>2. PICK p \in Procs : p = j.by /\ pc[p] \in Awaiting /\ j.g = cur[p].g /\ j.g \in GatewayIds
    BY <1>2, AppliedOrderly, ServeTouches
  <2>3. \A g \in GatewayIds \ {j.g} : rec'[g] = rec[g]
    BY <1>2, AppliedOrderly, ServeTouches
  <2>4. PlanOK(p) /\ StartOK(p) /\ pc[p] # "await_delete"
    BY <2>2 DEF PlanInv, CallInv, TurnInv, Applied, Busy, Awaiting, Reconciling
  <2>5. PICK h : h = j.g
    OBVIOUS
  <2>6. PICK d : [do |-> d, g |-> h] \in todo[p]
    BY <2>2, <2>4, <2>5 DEF PlanOK, StartOK, StartOf, StopOf, DestroyOf, Awaiting, Starting, Creating
  <2>7. Attends(p, h)
    BY <2>6 DEF Attends
  <2>8. \A q \in Procs, g \in GatewayIds : Attends(q, g)' <=> Attends(q, g)
    BY <2>1 DEF Attends, Declared, procVars
  <2>9. \A g \in GatewayIds \ {h} : Settled(g)' <=> Settled(g)
    BY <2>1, <2>3, <2>5 DEF Settled
  <2> QED BY <2>1, <2>2, <2>5, <2>7, <2>8, <2>9 DEF SettledInv, procVars
<1>3. ASSUME NEW p \in Procs, Begin(p) PROVE SettledInv'
  <2>1. BeginApply(p)
    BY <1>3 DEF Begin, Applied, CreateGateway, UpdateGateway, DeleteGateway, StartOrStop
  <2>2. /\ UNCHANGED <<doc, todo, rec>> /\ p # Startup /\ pc[p] = "idle"
    BY <2>1, BeginApplyFrame, GatewayAssumption
  <2>3. Others(p)
    BY <1>3, ProcFrame
  <2>4. \A g \in GatewayIds : Attends(p, g) => Attends(p, g)'
    BY <2>2 DEF Attends
  <2> QED BY <2>2, <2>3, <2>4, SettledMove, GatewayAssumption
<1> QED BY <1>1, <1>2, <1>3, AppliedOrderly, OrderlySteps, SettledLockStep, SettledHandleStep

ConvergeInv == Shared /\ PlanInv /\ RecordInv /\ SettledInv

LEMMA ConvergeHolds ==
  ASSUME Applied
  PROVE  /\ Init => ConvergeInv
         /\ ConvergeInv /\ [Next]_vars => ConvergeInv'
         /\ ConvergeInv => Converges
<1>1. Init => ConvergeInv
  <2>1. Init => PlanInv
    BY DEF Init, PlanInv, PlanOK, Busy
  <2>2. Init => RecordInv
    BY DEF Init, RecordInv
  <2>3. Init => SettledInv
    BY DEF Init, SettledInv, Procs
  <2> QED BY <2>1, <2>2, <2>3, AppliedOrderly, SharedHolds DEF ConvergeInv
<1>2. ConvergeInv /\ [Next]_vars => ConvergeInv'
  BY AppliedOrderly, SharedHolds, PlanStep, RecordStep, SettledStep DEF ConvergeInv
<1>3. ASSUME ConvergeInv, Quiet, NEW g \in GatewayIds
      PROVE  cont[g] = IF doc[g].enabled THEN doc[g].conf ELSE NoConf
  <2>1. rec[g] = cont[g]
    BY <1>3 DEF Quiet, ConvergeInv, RecordInv
  <2>2. \A p \in Procs : ~Attends(p, g)
    BY <1>3 DEF Quiet, ConvergeInv, Attends, PlanInv, PlanOK, Busy
  <2>3. Settled(g)
    BY <1>3, <2>2 DEF Quiet, ConvergeInv, SettledInv, Procs
  <2> QED BY <2>1, <2>3 DEF Settled
<1> QED BY <1>1, <1>2, <1>3 DEF Converges

\* When all applies and the start-up reconciliation are over, however they were
\* interleaved and whatever ran before, an enabled gateway's container has the
\* settings of the document and nothing else runs: apply_config and
\* reconcile_gateways bring GatewayHost's records, and with them the containers,
\* in line with the last document.
THEOREM AppliesAlwaysConverge ==
  ASSUME Applied
  PROVE  GatewaysSpec => []AppliesConverge
<1> DEFINE Inv == scene = "applied" => ConvergeInv
<1>1. GatewaysInit => Inv
  BY ConvergeHolds DEF GatewaysInit
<1>2. Inv /\ [GatewaysNext]_<<scene, vars>> => Inv'
  <2> SUFFICES ASSUME Inv, [GatewaysNext]_<<scene, vars>>, scene' = "applied"
               PROVE  ConvergeInv'
    OBVIOUS
  <2>1. scene = "applied" /\ [Next]_vars
    BY DEF GatewaysNext
  <2> QED BY <2>1, ConvergeHolds
<1>3. Inv => AppliesConverge
  BY ConvergeHolds DEF AppliesConverge
<1> HIDE DEF Inv
<1> QED BY <1>1, <1>2, <1>3, PTL DEF GatewaysSpec

=============================================================================
