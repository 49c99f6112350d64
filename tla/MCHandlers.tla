----------------------------- MODULE MCHandlers -----------------------------
(***************************************************************************)
(* Whether everything that begins also ends: small instances of Gateways   *)
(* and of SessionLifecycle, whose handlers wait for locks and for calls,   *)
(* each in a scene of its own while the other stands still.                *)
(***************************************************************************)
EXTENDS Gateways, TLC

CONSTANTS h1, h2, s1, n1, NoSession, NoRequest, NoVolume

VARIABLES
  scene,
  s_row, s_op, s_target, s_pc, s_gateReaders, s_gateWriter, s_mutex, s_kind, s_subject, s_step,
  s_recovery, s_owned, s_plan, s_pick, s_reply, s_reg, s_createLock, s_cont, s_vol, s_report, s_faults

S == INSTANCE SessionLifecycle WITH
  Sessions <- {s1}, Requests <- {h1, h2}, Names <- {n1}, ShortName <- (s1 :> n1),
  Ops <- {"create", "ensure", "delete", "cleanup"},
  FaultKinds <- {"store", "restart", "exit", "call"}, MaxFaults <- 1,
  row <- s_row, op <- s_op, target <- s_target, pc <- s_pc, gateReaders <- s_gateReaders,
  gateWriter <- s_gateWriter, mutex <- s_mutex, kind <- s_kind, subject <- s_subject, step <- s_step,
  recovery <- s_recovery, owned <- s_owned, plan <- s_plan, pick <- s_pick, reply <- s_reply,
  reg <- s_reg, createLock <- s_createLock, cont <- s_cont, vol <- s_vol, report <- s_report,
  faults <- s_faults

sessionVars ==
  <<s_row, s_op, s_target, s_pc, s_gateReaders, s_gateWriter, s_mutex, s_kind, s_subject, s_step,
    s_recovery, s_owned, s_plan, s_pick, s_reply, s_reg, s_createLock, s_cont, s_vol, s_report, s_faults>>

handlerVars == <<scene, sessionVars, vars>>

\* no gateways, and a start-up task that has ended
GatewaysAtRest ==
  /\ doc = [g \in GatewayIds |-> Absent] /\ status = [g \in GatewayIds |-> "stopped"]
  /\ op = [p \in Procs |-> "none"] /\ pc = [p \in Procs |-> "idle"]
  /\ want = [p \in Procs |-> {}] /\ todo = [p \in Procs |-> {}]
  /\ cur = [p \in Procs |-> NoWork] /\ tries = [p \in Procs |-> 0]
  /\ failed = [p \in Procs |-> FALSE] /\ reply = [p \in Procs |-> "none"]
  /\ applyLock = Nobody /\ jobs = {} /\ faults = 0
  /\ rec = [g \in GatewayIds |-> NoConf] /\ cont = rec

HandlersInit ==
  /\ S!Init
  /\ \/ scene = "gateways" /\ Init
     \/ scene = "sessions" /\ GatewaysAtRest

HandlersNext ==
  \/ scene = "sessions" /\ S!Next /\ UNCHANGED <<scene, vars>>
  \/ scene = "gateways" /\ Next /\ UNCHANGED <<scene, sessionVars>>

HandlersSpec ==
  /\ HandlersInit /\ [][HandlersNext]_handlerVars
  /\ S!Fairness /\ Fairness

\* Every request for a session is answered: no handler waits for ever on the gate, the
\* session's mutex, the registry's create_lock or a call of an agent_host that restarts.
EveryRequestReturns == S!EveryRequestReturns
=============================================================================
