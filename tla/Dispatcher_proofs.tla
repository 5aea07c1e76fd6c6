-------------------------- MODULE Dispatcher_proofs --------------------------
(***************************************************************************)
(* Proofs about Dispatcher, for every set of executors, workers, sessions  *)
(* and requests: whatever the kernel, the workers and the bridge do, the   *)
(* store takes steps of A2AStore only, so the store's theorems hold here,  *)
(* and the dispatcher's own invariants hold.                               *)
(***************************************************************************)
EXTENDS Dispatcher, A2AStore_proofs

USE StoreConstants, DispatcherConstants

-----------------------------------------------------------------------------
(* Messages are told apart by their type.                                  *)

LEMMA MessageFacts ==
  ASSUME BusTypeOK, NEW m \in bus
  PROVE  /\ m \in Msgs("request") => m.req \in Requests
         /\ m \in Msgs("work") => m.task \in Task /\ m.to \in Workers
         /\ m \in Msgs("ack") => m.task \in Task /\ m.from \in Workers
         /\ m \in Msgs("stop") => m.task \in Task /\ m.session \in Session
         /\ m \in Msgs("done") => m \in Done
BY DEF BusTypeOK, Message, Msgs, Done

(* What a terminal message carries.                                        *)
LEMMA DoneFacts ==
  ASSUME NEW m \in Done
  PROVE  m.task \in Task /\ m.failed \in BOOLEAN /\ m.result \in BOOLEAN
BY DEF Done

(* An executor that is busy has a work order for some task.                *)
LEMMA BusyHasTask ==
  ASSUME ExecTypeOK, NEW e \in Executor, ~At(e, "idle")
  PROVE  exec[e].req \in Requests /\ TaskOf(e) \in Task
BY DEF ExecTypeOK, TaskOf, Request

-----------------------------------------------------------------------------
(* The operations of the store are steps of the store.                     *)

LEMMA StoreOps ==
  ASSUME NEW t \in Task
  PROVE  /\ \A s \in KernelStatus : SetStatus(t, s) => StoreNext
         /\ ReleaseKey(t) => StoreNext
         /\ \A hasResult, release \in BOOLEAN, s \in {"COMPLETED", "FAILED"} :
              CompleteWithResult(t, s, hasResult, release) => StoreNext
         /\ \A s \in Session, st \in {"COMPLETED", "FAILED"} : YieldResult(t, s, st) => StoreNext
         /\ \A s \in Session : CancelTask(t, s) => StoreNext
         /\ \A a \in Agent : MarkAcked(t, a) => StoreNext
         /\ TryMarkWaitTimeout(t) => StoreNext
         /\ TouchLastWait(t) => StoreNext
BY DEF StoreNext, TaskOp

(* What an executor does to the store.                                     *)
LEMMA ExecStepStore ==
  ASSUME DispTypeOK, NEW e \in Executor, ExecStep(e)
  PROVE  [StoreNext]_storeVars
<1> USE DEF DispTypeOK
<1>1. ASSUME NEW s \in KernelStatus, SetStatus(TaskOf(e), s), ~At(e, "idle")
      PROVE  StoreNext
  BY <1>1, BusyHasTask, StoreOps
<1>k. {"QUEUED", "PENDING_APPROVAL", "DISPATCHED", "EXECUTING", "FAILED"} = KernelStatus
  BY DEF KernelStatus
<1>2. CASE AdmitInbound(e)
  <2>1. exec[e].req \in Requests
    BY <1>2, BusyHasTask DEF AdmitInbound, At
  <2> QED BY <1>2, <2>1 DEF AdmitInbound, StoreNext
<1>3. ASSUME NEW gate \in {"source", "security", "quota", "switch"}, Hold(e, gate)
      PROVE  StoreNext
  BY <1>3, <1>1, <1>k DEF Hold, Gates, At
<1>4. CASE Approve(e) \/ ApproveLocal(e)
  BY <1>4, <1>1, <1>k DEF Approve, ApproveLocal, Approved, Voted, At
<1>5. CASE Fail(e) \/ Dispatch(e) \/ StartLocal(e)
  BY <1>5, <1>1, <1>k DEF Fail, Dispatch, StartLocal, At
<1>6. CASE Release(e)
  BY <1>6, BusyHasTask, StoreOps DEF Release, At
<1>7. CASE HandOff(e)
  <2>1. OrchestratedBy[exec[e].target] \in Session
    BY <1>7 DEF HandOff, ExecTypeOK
  <2> QED BY <1>7, <2>1 DEF HandOff, StoreNext, SessionOp
<1>8. CASE FinishLocal(e)
  BY <1>8, BusyHasTask, StoreOps DEF FinishLocal, At
<1>9. CASE Refuse(e) \/ Analyse(e) \/ Pass(e) \/ StopRoute(e) \/ Ask(e) \/ LocalDown(e)
           \/ Deny(e) \/ Unanswered(e) \/ Report(e) \/ NoRoute(e) \/ LocalFails(e) \/ Announce(e)
  BY <1>9 DEF Refuse, Analyse, Pass, StopRoute, Ask, LocalDown, Deny, Unanswered, Report,
              NoRoute, LocalFails, Announce
<1> QED BY <1>2, <1>3, <1>4, <1>5, <1>6, <1>7, <1>8, <1>9 DEF ExecStep

(* What the listeners of the bus do to the store.                          *)
LEMMA BusStepStore ==
  ASSUME DispTypeOK, NEW m \in bus, BusStep(m)
  PROVE  [StoreNext]_storeVars
<1> USE MessageFacts DEF DispTypeOK
<1>1. CASE \E e \in Executor : Receive(e, m)
  BY <1>1 DEF Receive
<1>2. CASE Acked(m)
  BY <1>2, StoreOps DEF Acked
<1>3. CASE Stopped(m)
  BY <1>3, StoreOps DEF Stopped
<1>4. CASE LifeRead(m) \/ TakeWork(m) \/ Lose(m)
  BY <1>4 DEF LifeRead, TakeWork, Lose
<1> QED BY <1>1, <1>2, <1>3, <1>4 DEF BusStep

(* The lifecycle listener writes a terminal status.                        *)
LEMMA LifeWriteStore == ASSUME DispTypeOK, LifeWrite PROVE StoreNext
<1>1. lifeAt.task \in Task /\ lifeAt.failed \in BOOLEAN /\ lifeAt.result \in BOOLEAN
  BY DoneFacts DEF LifeWrite, DispTypeOK, BusTypeOK
<1> QED BY <1>1, StoreOps DEF LifeWrite

(* What the MCP bridge does to the store.                                  *)
LEMMA McpStepStore == ASSUME DispTypeOK, McpStep PROVE [StoreNext]_storeVars
<1>1. ASSUME NEW t \in Task, Cancel(t) PROVE [StoreNext]_storeVars
  BY <1>1, StoreOps DEF Cancel
<1>2. ASSUME NEW t \in Task, Background(t) \/ Wait(t) PROVE StoreNext
  BY <1>2, StoreOps DEF Background, Wait
<1>3. ASSUME NEW t \in Task, NEW s \in McpSession, NEW st \in {"COMPLETED", "FAILED"},
             Yield(t, s, st)
      PROVE  StoreNext
  BY <1>3, StoreOps DEF Yield
<1>4. ASSUME NEW s \in McpSession, Connect(s) \/ Disconnect(s) PROVE StoreNext
  BY <1>4 DEF Connect, Disconnect, StoreNext, SessionOp
<1> QED BY <1>1, <1>2, <1>3, <1>4 DEF McpStep

(* The sweeps of the watchdog are those of the store.                      *)
LEMMA WatchdogStore == ASSUME Watchdog PROVE StoreNext
BY DEF Watchdog, Silence, Abandon, Expire, Gc, StoreNext, Sweep

(* Every step of the dispatcher's world is a step of the store.            *)
LEMMA DispStepStore ==
  ASSUME DispTypeOK, [DispNext]_vars
  PROVE  [StoreNext]_storeVars
<1>1. CASE UNCHANGED vars
  BY <1>1 DEF vars, storeVars
<1>2. ASSUME NEW t \in Task, NEW vote \in {"approve", "local", "deny"}, Vote(t, vote)
      PROVE  UNCHANGED storeVars
  BY <1>2 DEF Vote
<1>3. ASSUME NEW w \in working, WorkerStep(w) PROVE UNCHANGED storeVars
  BY <1>3 DEF WorkerStep, FinishWork, WorkerDies
<1>4. ASSUME NEW r \in Requests, Publish(r) \/ BridgeCall(r) PROVE [StoreNext]_storeVars
  BY <1>4 DEF Publish, BridgeCall, StoreNext
<1>5. CASE Restart
  BY <1>5 DEF Restart
<1> QED BY <1>1, <1>2, <1>3, <1>4, <1>5, ExecStepStore, BusStepStore, LifeWriteStore,
           McpStepStore, WatchdogStore DEF DispNext

-----------------------------------------------------------------------------
(* Type correctness.                                                       *)

(* An executor that takes a step gets a well-typed record.                 *)
LEMMA ExecUpdate ==
  ASSUME ExecTypeOK, NEW e \in Executor, NEW new \in Exec, exec' = [exec EXCEPT ![e] = new],
         new.pc # "idle" => new.req \in Requests,
         new.pc = "handoff" => new.target \in Workers
  PROVE  ExecTypeOK'
BY DEF ExecTypeOK, At

(* Closing the channel of whoever is stored for t.                         *)
LEMMA DroppedTyped ==
  ASSUME ExecTypeOK, NEW t \in Task
  PROVE  /\ Dropped(t) \in [Executor -> Exec]
         /\ \A e \in Executor : /\ Dropped(t)[e].pc = exec[e].pc
                               /\ Dropped(t)[e].req = exec[e].req
                               /\ Dropped(t)[e].target = exec[e].target
                               /\ Dropped(t)[e].gate = exec[e].gate
                               /\ Dropped(t)[e].chan =
                                    IF pending[t] = e THEN "closed" ELSE exec[e].chan
BY DEF Dropped, ExecTypeOK, Exec, Chan

(* An executor steps while the channel of another is closed.               *)
LEMMA DroppedUpdate ==
  ASSUME ExecTypeOK, NEW e \in Executor, NEW t \in Task, NEW new \in Exec,
         exec' = [Dropped(t) EXCEPT ![e] = new], new.req \in Requests, new.pc # "handoff"
  PROVE  ExecTypeOK'
<1>1. /\ Dropped(t) \in [Executor -> Exec]
      /\ \A x \in Executor : /\ Dropped(t)[x].pc = exec[x].pc
                            /\ Dropped(t)[x].req = exec[x].req
                            /\ Dropped(t)[x].target = exec[x].target
  BY DroppedTyped
<1>2. /\ exec' \in [Executor -> Exec] /\ exec'[e] = new
      /\ \A x \in Executor \ {e} : exec'[x] = Dropped(t)[x]
  BY <1>1
<1> QED BY <1>1, <1>2 DEF ExecTypeOK, At

(* An idle executor is well-typed.                                         *)
LEMMA IdleTyped == Idle \in Exec /\ Idle.pc = "idle"
BY DEF Idle, Exec, PC, Gate, Chan

(* Records that change in some fields.                                     *)
LEMMA ExecWith ==
  ASSUME NEW x \in Exec, NEW pc \in PC, NEW a \in Agent \cup {NoAgent}, NEW c \in Chan,
         NEW n \in 0..2
  PROVE  /\ [x EXCEPT !.pc = pc, !.chan = c] \in Exec
         /\ [x EXCEPT !.pc = pc, !.rounds = n, !.chan = c] \in Exec
         /\ [x EXCEPT !.pc = pc, !.target = a, !.chan = c] \in Exec
BY DEF Exec

(* Every step of an executor keeps executors well-typed.                   *)
LEMMA ExecStepTyped ==
  ASSUME DispTypeOK, NEW e \in Executor, ExecStep(e)
  PROVE  ExecTypeOK'
<1> USE DEF DispTypeOK
<1>1. exec[e] \in Exec /\ (~At(e, "idle") => exec[e].req \in Requests)
  BY DEF ExecTypeOK
<1>2. ASSUME NEW pc \in PC, Goto(e, pc), ~At(e, "idle"), pc # "handoff" PROVE ExecTypeOK'
  <2>1. [exec[e] EXCEPT !.pc = pc] \in Exec
    BY <1>1 DEF Exec
  <2>2. exec' = [exec EXCEPT ![e] = [exec[e] EXCEPT !.pc = pc]]
    BY <1>2 DEF Goto
  <2> QED BY <1>1, <1>2, <2>1, <2>2, ExecUpdate DEF Exec, At
<1>3. ASSUME NEW n \in 0..2, GiveUp(e, n), ~At(e, "idle") PROVE ExecTypeOK'
  <2>1. [exec[e] EXCEPT !.pc = "fail", !.rounds = n] \in Exec
    BY <1>1 DEF Exec, PC
  <2>2. exec' = [exec EXCEPT ![e] = [exec[e] EXCEPT !.pc = "fail", !.rounds = n]]
    BY <1>3 DEF GiveUp
  <2> QED BY <1>1, <1>3, <2>1, <2>2, ExecUpdate DEF Exec, At
<1>4. ASSUME exec' = [exec EXCEPT ![e] = Idle] PROVE ExecTypeOK'
  BY <1>4, IdleTyped, ExecUpdate DEF Idle
<1>5. CASE AdmitInbound(e)
  <2> DEFINE r == exec[e].req
             asked == IF IsConflict(r) THEN rows[r.id].target ELSE r.target
             target == IF asked = NoAgent THEN Kernel ELSE asked
             pc == AfterAdmission(r)
  <2>1. r \in Requests
    BY <1>1, <1>5 DEF AdmitInbound, At
  <2>2. target \in Agent \cup {NoAgent}
    BY <2>1 DEF Request, TypeOK, Row
  <2>3. pc \in {"analyse", "idle", "report"}
    BY DEF AfterAdmission
  <2> DEFINE new == [exec[e] EXCEPT !.pc = pc, !.target = target]
  <2>4. exec' = [exec EXCEPT ![e] = IF pc = "idle" THEN Idle ELSE new]
    BY <1>5 DEF AdmitInbound
  <2>5. CASE pc = "idle"
    BY <2>4, <2>5, <1>4
  <2>6. CASE pc # "idle"
    <3>1. new \in Exec /\ new.req \in Requests /\ new.pc # "handoff"
      BY <1>1, <2>1, <2>2, <2>3 DEF Exec, PC
    <3>2. exec' = [exec EXCEPT ![e] = new]
      BY <2>4, <2>6
    <3> HIDE DEF new
    <3> QED BY <3>1, <3>2, ExecUpdate
  <2> QED BY <2>5, <2>6
<1>6. CASE Analyse(e)
  <2>1. ASSUME NEW a \in Agent, exec' = [exec EXCEPT ![e].pc = "source", ![e].target = a]
        PROVE  ExecTypeOK'
    <3>1. [exec[e] EXCEPT !.pc = "source", !.target = a] \in Exec
      BY <1>1 DEF Exec, PC
    <3>2. exec' = [exec EXCEPT ![e] = [exec[e] EXCEPT !.pc = "source", !.target = a]]
      BY <2>1
    <3> QED BY <1>1, <1>6, <3>1, <3>2, ExecUpdate DEF Exec, Analyse, At
  <2> QED BY <1>6, <1>3, <2>1 DEF Analyse, At
<1>7. ASSUME NEW gate \in {"source", "security", "quota", "switch"}, Hold(e, gate)
      PROVE  ExecTypeOK'
  <2>1. [exec[e] EXCEPT !.pc = "ask", !.gate = gate] \in Exec
    BY <1>1 DEF Exec, PC, Gate
  <2>2. exec' = [exec EXCEPT ![e] = [exec[e] EXCEPT !.pc = "ask", !.gate = gate]]
    BY <1>7 DEF Hold
  <2> QED BY <1>1, <1>7, <2>1, <2>2, ExecUpdate DEF Exec, Hold, Gates, At
<1>8. CASE Ask(e) \/ Unanswered(e)
  <2> DEFINE old == Dropped(TaskOf(e))
             asked == [old[e] EXCEPT !.pc = "waiting", !.chan = "open"]
             failed == [old[e] EXCEPT !.pc = "fail", !.rounds = 2, !.chan = "closed"]
  <2>1. TaskOf(e) \in Task /\ exec[e].req \in Requests
    BY <1>8, BusyHasTask DEF Ask, Unanswered, At
  <2>2. old[e] \in Exec /\ old[e].req = exec[e].req
    BY <2>1, DroppedTyped
  <2>3. asked \in Exec /\ failed \in Exec
    <3>1. {"waiting", "fail"} \subseteq PC /\ {"open", "closed"} \subseteq Chan /\ 2 \in 0..2
      BY DEF PC, Chan
    <3> HIDE DEF old
    <3> QED BY <2>2, <3>1, ExecWith
  <2>4. /\ asked.pc = "waiting" /\ asked.req = exec[e].req
        /\ failed.pc = "fail" /\ failed.req = exec[e].req
    BY <2>2 DEF Exec
  <2>5. exec' = [old EXCEPT ![e] = asked] \/ exec' = [old EXCEPT ![e] = failed]
    BY <1>8 DEF Ask, Unanswered
  <2> HIDE DEF asked, failed
  <2> QED BY <2>1, <2>3, <2>4, <2>5, DroppedUpdate
<1>9. ASSUME NEW a \in Agent \cup {NoAgent}, Approved(e, a), ~At(e, "idle") PROVE ExecTypeOK'
  <2> DEFINE pc == IF exec[e].gate = "source" THEN "security" ELSE "go"
             new == [exec[e] EXCEPT !.pc = pc, !.target = a, !.chan = "none"]
  <2>1. new \in Exec
    <3>1. pc \in PC /\ "none" \in Chan /\ 0 \in 0..2
      BY DEF PC, Chan
    <3> HIDE DEF pc
    <3> QED BY <1>1, <3>1, ExecWith
  <2>2. exec' = [exec EXCEPT ![e] = new]
    BY <1>9 DEF Approved
  <2> QED BY <1>1, <1>9, <2>1, <2>2, ExecUpdate DEF Exec
<1>10. CASE Approve(e) \/ ApproveLocal(e)
  <2>1. ToAgent(e) \in Agent \cup {NoAgent}
    BY <1>1 DEF ToAgent, Exec
  <2> QED BY <1>10, <1>9, <2>1 DEF Approve, ApproveLocal, Voted, At
<1>11. CASE Release(e)
  BY <1>11, <1>2, <1>3, <1>4 DEF Release, Goto, PC, At
<1>12. CASE Dispatch(e)
  <2>1. [exec[e] EXCEPT !.pc = "handoff"] \in Exec
    BY <1>1 DEF Exec, PC
  <2>2. exec' = [exec EXCEPT ![e] = [exec[e] EXCEPT !.pc = "handoff"]]
    BY <1>12 DEF Dispatch, Goto
  <2> QED BY <1>1, <1>12, <2>1, <2>2, ExecUpdate DEF Exec, Dispatch, At
<1>13. CASE HandOff(e)
  BY <1>13, <1>3, <1>4 DEF HandOff, At
<1>14. CASE Refuse(e) \/ Pass(e) \/ Fail(e) \/ StartLocal(e) \/ FinishLocal(e)
  BY <1>14, <1>2 DEF Refuse, Pass, Fail, StartLocal, FinishLocal, PC, At
<1>15. CASE StopRoute(e) \/ LocalDown(e) \/ Deny(e) \/ NoRoute(e) \/ LocalFails(e)
  BY <1>15, <1>3 DEF StopRoute, LocalDown, Deny, NoRoute, LocalFails, Voted, At
<1>16. CASE Report(e) \/ Announce(e)
  BY <1>16, <1>4 DEF Report, Announce
<1> QED BY <1>5, <1>6, <1>7, <1>8, <1>10, <1>11, <1>12, <1>13, <1>14, <1>15, <1>16 DEF ExecStep

(* What happens besides the executors' own steps, deliveries of work        *)
(* orders, votes and restarts leaves the executors and their senders alone. *)
Outside ==
  \/ \E m \in bus : Acked(m) \/ Stopped(m) \/ LifeRead(m) \/ TakeWork(m) \/ Lose(m)
  \/ LifeWrite
  \/ \E w \in working : WorkerStep(w)
  \/ \E r \in Requests : Publish(r) \/ BridgeCall(r)
  \/ McpStep
  \/ Watchdog

(* The steps of the dispatcher, grouped by what they do to executors.      *)
LEMMA DispCases ==
  ASSUME DispNext
  PROVE  \/ \E e \in Executor : ExecStep(e)
         \/ \E t \in Task, vote \in {"approve", "local", "deny"} : Vote(t, vote)
         \/ \E m \in bus, e \in Executor : Receive(e, m)
         \/ Outside
         \/ Restart
BY DEF DispNext, BusStep, Outside

(* The other steps leave executors and the pending map alone.              *)
LEMMA OutsideKeeps == ASSUME Outside PROVE UNCHANGED <<exec, pending, restarts>>
<1>1. CASE \E m \in bus : Acked(m) \/ Stopped(m) \/ LifeRead(m) \/ TakeWork(m) \/ Lose(m)
  BY <1>1 DEF Acked, Stopped, LifeRead, TakeWork, Lose, kernelVars
<1>2. CASE LifeWrite \/ \E w \in working : WorkerStep(w)
  BY <1>2 DEF LifeWrite, WorkerStep, FinishWork, WorkerDies, kernelVars
<1>3. CASE \E r \in Requests : Publish(r) \/ BridgeCall(r)
  BY <1>3 DEF Publish, BridgeCall, kernelVars
<1>4. CASE McpStep
  BY <1>4 DEF McpStep, Cancel, Background, Wait, Yield, Connect, Disconnect, kernelVars
<1>5. CASE Watchdog
  BY <1>5 DEF Watchdog, Silence, Abandon, Expire, Gc, kernelVars
<1> QED BY <1>1, <1>2, <1>3, <1>4, <1>5 DEF Outside

(* What a vote does.                                                       *)
LEMMA VoteFacts ==
  ASSUME DispTypeOK, NEW t \in Task, NEW vote \in {"approve", "local", "deny"}, Vote(t, vote)
  PROVE  /\ pending[t] \in Executor
         /\ pending' = [pending EXCEPT ![t] = NoExecutor]
         /\ exec' = [exec EXCEPT ![pending[t]] = [exec[pending[t]] EXCEPT !.chan = vote]]
         /\ [exec[pending[t]] EXCEPT !.chan = vote] \in Exec
         /\ UNCHANGED <<storeVars, restarts>>
<1>1. pending[t] \in Executor
  BY DEF Vote, DispTypeOK
<1>2. exec[pending[t]] \in Exec
  BY <1>1 DEF DispTypeOK, ExecTypeOK
<1>3. [exec[pending[t]] EXCEPT !.chan = vote] \in Exec
  BY <1>2 DEF Exec, Chan
<1> QED BY <1>1, <1>3 DEF Vote

(* What the receipt of a work order does.                                  *)
LEMMA ReceiveFacts ==
  ASSUME DispTypeOK, NEW m \in bus, NEW e \in Executor, Receive(e, m)
  PROVE  /\ At(e, "idle") /\ m.req \in Requests
         /\ exec' = [exec EXCEPT ![e] = [Idle EXCEPT !.pc = "admit", !.req = m.req]]
         /\ [Idle EXCEPT !.pc = "admit", !.req = m.req] \in Exec
         /\ UNCHANGED <<storeVars, pending, restarts>>
<1>1. m.req \in Requests
  BY MessageFacts DEF Receive, DispTypeOK
<1>2. [Idle EXCEPT !.pc = "admit", !.req = m.req] \in Exec
  <2>1. "admit" \in PC
    BY DEF PC
  <2>2. ASSUME NEW x \in Exec, NEW pc \in PC, NEW r \in Requests
        PROVE  [x EXCEPT !.pc = pc, !.req = r] \in Exec
    BY DEF Exec
  <2> QED BY <1>1, <2>1, <2>2, IdleTyped
<1>3. exec' = [exec EXCEPT ![e] = [Idle EXCEPT !.pc = "admit", !.req = m.req]]
  BY DEF Receive
<1> QED BY <1>1, <1>2, <1>3 DEF Receive

(* Every step keeps executors well-typed.                                  *)
LEMMA ExecTyped ==
  ASSUME DispTypeOK, [DispNext]_vars
  PROVE  ExecTypeOK'
<1>1. CASE UNCHANGED vars
  BY <1>1 DEF vars, DispTypeOK, ExecTypeOK, At
<1>2. ASSUME NEW t \in Task, NEW vote \in {"approve", "local", "deny"}, Vote(t, vote)
      PROVE  ExecTypeOK'
  <2> DEFINE x == pending[t]
             new == [exec[x] EXCEPT !.chan = vote]
  <2>1. x \in Executor /\ new \in Exec /\ exec' = [exec EXCEPT ![x] = new]
    BY <1>2, VoteFacts
  <2>2. exec[x] \in Exec
    BY <2>1 DEF DispTypeOK, ExecTypeOK
  <2>3. new.pc = exec[x].pc /\ new.req = exec[x].req /\ new.target = exec[x].target
    BY <2>2 DEF Exec
  <2> HIDE DEF x, new
  <2> QED BY <2>1, <2>3, ExecUpdate DEF DispTypeOK, ExecTypeOK, At
<1>3. ASSUME NEW m \in bus, NEW e \in Executor, Receive(e, m) PROVE ExecTypeOK'
  <2> DEFINE new == [Idle EXCEPT !.pc = "admit", !.req = m.req]
  <2>1. new \in Exec /\ exec' = [exec EXCEPT ![e] = new] /\ m.req \in Requests
    BY <1>3, ReceiveFacts
  <2>2. new.pc = "admit" /\ new.req = m.req
    BY DEF Idle
  <2> HIDE DEF new
  <2> QED BY <2>1, <2>2, ExecUpdate DEF DispTypeOK
<1>4. CASE Outside
  BY <1>4, OutsideKeeps DEF DispTypeOK, ExecTypeOK, At
<1>5. CASE Restart
  BY <1>5, IdleTyped DEF Restart, ExecTypeOK, At
<1> QED BY <1>1, <1>2, <1>3, <1>4, <1>5, ExecStepTyped, DispCases

(* What is sent is well-typed.                                             *)
LEMMA SentTyped ==
  /\ \A t \in Task, failed, result \in BOOLEAN, a \in Agent \cup {NoAgent} :
       DoneMsg(t, failed, result, a) \in Message
  /\ \A t \in Task, a \in Workers : WorkMsg(t, a) \in Message /\ AckMsg(t, a) \in Message
  /\ \A t \in Task, s \in Session : StopMsg(t, s) \in Message
  /\ \A r \in Requests : RequestMsg(r) \in Message
BY DEF DoneMsg, WorkMsg, AckMsg, StopMsg, RequestMsg, Message, Done

(* An executor sends well-typed messages and takes none.                   *)
LEMMA ExecStepBus ==
  ASSUME DispTypeOK, NEW e \in Executor, ExecStep(e)
  PROVE  /\ bus' \subseteq Message
         /\ UNCHANGED <<lifeAt, working, sends, restarts>>
<1> USE DEF DispTypeOK, BusTypeOK
<1>1. CASE Release(e)
  <2>1. TaskOf(e) \in Task
    BY <1>1, BusyHasTask DEF Release, At
  <2>2. CancelMsgs(e) \subseteq Message
    <3>1. DoneMsg(TaskOf(e), TRUE, FALSE, NoAgent) \in Message
      BY <2>1, SentTyped
    <3> QED BY <3>1 DEF CancelMsgs
  <2> QED BY <1>1, <2>2 DEF Release, Send
<1>2. CASE Report(e) \/ Announce(e)
  <2>1. TaskOf(e) \in Task /\ exec[e].req.target \in Agent \cup {NoAgent}
    BY <1>2, BusyHasTask DEF Report, Announce, At, Request
  <2> QED BY <1>2, <2>1, SentTyped DEF Report, Announce, Send
<1>3. CASE HandOff(e)
  <2>1. TaskOf(e) \in Task /\ exec[e].target \in Workers
    BY <1>3, BusyHasTask DEF HandOff, At, ExecTypeOK
  <2> QED BY <1>3, <2>1, SentTyped DEF HandOff, Send
<1>4. CASE \/ Refuse(e) \/ AdmitInbound(e) \/ Analyse(e) \/ Pass(e) \/ StopRoute(e)
           \/ \E gate \in {"source", "security", "quota", "switch"} : Hold(e, gate)
           \/ Ask(e) \/ LocalDown(e) \/ Deny(e) \/ Unanswered(e) \/ Fail(e)
  BY <1>4 DEF Refuse, AdmitInbound, Analyse, Pass, StopRoute, Hold, Ask, LocalDown, Deny,
              Unanswered, Fail, busVars
<1>5. CASE \/ Approve(e) \/ ApproveLocal(e) \/ NoRoute(e) \/ Dispatch(e)
           \/ StartLocal(e) \/ LocalFails(e) \/ FinishLocal(e)
  BY <1>5 DEF Approve, ApproveLocal, Approved, NoRoute, Dispatch, StartLocal, LocalFails,
              FinishLocal, busVars
<1> QED BY <1>1, <1>2, <1>3, <1>4, <1>5 DEF ExecStep

(* The other steps keep messages and workers well-typed.                   *)
LEMMA OutsideBus ==
  ASSUME DispTypeOK, Outside
  PROVE  BusTypeOK' /\ sends' \in [Requests -> Nat]
<1> USE DEF DispTypeOK, BusTypeOK
<1>1. ASSUME NEW m \in bus, Acked(m) \/ Stopped(m) \/ LifeRead(m) \/ Lose(m)
      PROVE  BusTypeOK' /\ sends' \in [Requests -> Nat]
  BY <1>1, MessageFacts DEF Acked, Stopped, LifeRead, Lose, Consume, kernelVars
<1>2. ASSUME NEW m \in bus, TakeWork(m)
      PROVE  BusTypeOK' /\ sends' \in [Requests -> Nat]
  <2>1. m.task \in Task /\ m.to \in Workers
    BY <1>2, MessageFacts DEF TakeWork
  <2> QED BY <1>2, <2>1, SentTyped DEF TakeWork, kernelVars
<1>3. CASE LifeWrite
  BY <1>3 DEF LifeWrite, busVars
<1>4. ASSUME NEW w \in working, WorkerStep(w)
      PROVE  BusTypeOK' /\ sends' \in [Requests -> Nat]
  <2>1. w.task \in Task /\ w.agent \in Agent
    OBVIOUS
  <2> QED BY <1>4, <2>1, SentTyped DEF WorkerStep, FinishWork, WorkerDies, Send, kernelVars
<1>5. ASSUME NEW r \in Requests, Publish(r) \/ BridgeCall(r)
      PROVE  BusTypeOK' /\ sends' \in [Requests -> Nat]
  BY <1>5, SentTyped DEF Publish, BridgeCall, Send, kernelVars
<1>6. ASSUME NEW t \in Task, Cancel(t)
      PROVE  BusTypeOK' /\ sends' \in [Requests -> Nat]
  BY <1>6, SentTyped DEF Cancel, Send, kernelVars
<1>7. ASSUME NEW t \in Task, NEW s \in McpSession, NEW st \in {"COMPLETED", "FAILED"},
             Yield(t, s, st)
      PROVE  BusTypeOK' /\ sends' \in [Requests -> Nat]
  <2>1. DoneMsg(t, st = "FAILED", TRUE, NoAgent) \in Message
    BY SentTyped
  <2> QED BY <1>7, <2>1 DEF Yield, Send, kernelVars
<1>8. CASE \/ \E t \in Task : Background(t) \/ Wait(t)
           \/ \E s \in McpSession : Connect(s) \/ Disconnect(s)
  BY <1>8 DEF Background, Wait, Connect, Disconnect, kernelVars, busVars
<1>9. ASSUME NEW S \in SUBSET (ResultOrphans \cup IncompleteOrphans), Expire(S)
      PROVE  BusTypeOK' /\ sends' \in [Requests -> Nat]
  <2>1. \A t \in IncompleteOrphans :
          t \in Task /\ rows[t].session \in Session \cup {NoSession}
    BY DEF IncompleteOrphans, TypeOK, Row
  <2> QED BY <1>9, <2>1, SentTyped DEF Expire, Send, kernelVars
<1>10. CASE \/ \E S \in SUBSET Silent : Silence(S)
            \/ \E S \in SUBSET Undelivered : Abandon(S)
            \/ \E K \in SUBSET Key : Gc(K)
  BY <1>10 DEF Silence, Abandon, Gc, kernelVars, busVars
<1> QED BY <1>1, <1>2, <1>3, <1>4, <1>5, <1>6, <1>7, <1>8, <1>9, <1>10
        DEF Outside, McpStep, Watchdog

(* An executor stores well-typed senders.                                  *)
LEMMA ExecStepPending ==
  ASSUME DispTypeOK, NEW e \in Executor, ExecStep(e)
  PROVE  pending' \in [Task -> Executor \cup {NoExecutor}]
<1> USE DEF DispTypeOK
<1>1. CASE Ask(e) \/ Unanswered(e)
  BY <1>1 DEF Ask, Unanswered
<1>2. CASE \/ Refuse(e) \/ AdmitInbound(e) \/ Analyse(e) \/ Pass(e) \/ StopRoute(e)
           \/ \E gate \in {"source", "security", "quota", "switch"} : Hold(e, gate)
           \/ LocalDown(e) \/ Deny(e) \/ Fail(e) \/ Release(e) \/ Report(e)
  BY <1>2 DEF Refuse, AdmitInbound, Analyse, Pass, StopRoute, Hold, LocalDown, Deny,
              Fail, Release, Report
<1>3. CASE \/ Approve(e) \/ ApproveLocal(e) \/ NoRoute(e) \/ Dispatch(e) \/ HandOff(e)
           \/ StartLocal(e) \/ LocalFails(e) \/ FinishLocal(e) \/ Announce(e)
  BY <1>3 DEF Approve, ApproveLocal, Approved, NoRoute, Dispatch, HandOff, StartLocal,
              LocalFails, FinishLocal, Announce
<1> QED BY <1>1, <1>2, <1>3 DEF ExecStep

(* The types of the dispatcher together with the invariant of the store.    *)
TypedStore == DispTypeOK /\ IInv

(* Everything is well-typed at the start.                                  *)
LEMMA InitTyped == DispInit => TypedStore
<1> SUFFICES ASSUME DispInit PROVE TypedStore
  OBVIOUS
<1>1. IInv
  BY InitIInv DEF DispInit
<1>2. ExecTypeOK
  BY IdleTyped DEF DispInit, ExecTypeOK, At
<1>3. BusTypeOK
  BY DEF DispInit, BusTypeOK
<1> QED BY <1>1, <1>2, <1>3 DEF TypedStore, DispTypeOK, DispInit, IInv

(* Every step keeps everything well-typed.                                 *)
LEMMA StepTyped == TypedStore /\ [DispNext]_vars => TypedStore'
<1> SUFFICES ASSUME TypedStore, [DispNext]_vars PROVE TypedStore'
  OBVIOUS
<1> USE DEF TypedStore
<1>1. IInv'
  BY DispStepStore, IInvInductive
<1>2. ExecTypeOK'
  BY ExecTyped
<1> DEFINE RestTyped == /\ BusTypeOK' /\ pending' \in [Task -> Executor \cup {NoExecutor}]
                        /\ sends' \in [Requests -> Nat] /\ restarts' \in Nat
<1>3. RestTyped
  <2> USE DEF DispTypeOK
  <2>1. CASE UNCHANGED vars
    BY <2>1 DEF vars, BusTypeOK
  <2>2. ASSUME NEW e \in Executor, ExecStep(e) PROVE RestTyped
    BY <2>2, ExecStepBus, ExecStepPending DEF BusTypeOK
  <2>3. ASSUME NEW t \in Task, NEW vote \in {"approve", "local", "deny"}, Vote(t, vote)
        PROVE  RestTyped
    BY <2>3 DEF Vote, BusTypeOK, busVars
  <2>4. ASSUME NEW m \in bus, NEW e \in Executor, Receive(e, m) PROVE RestTyped
    BY <2>4 DEF Receive, Consume, BusTypeOK
  <2>5. CASE Outside
    BY <2>5, OutsideBus, OutsideKeeps
  <2>6. CASE Restart
    BY <2>6 DEF Restart, BusTypeOK, busVars
  <2> HIDE DEF RestTyped
  <2> QED BY <2>1, <2>2, <2>3, <2>4, <2>5, <2>6, DispCases
<1> QED BY <1>1, <1>2, <1>3 DEF DispTypeOK, IInv

(* Everything is well-typed for ever.                                      *)
LEMMA TypedStoreHolds == DispSpec => []TypedStore
BY InitTyped, StepTyped, PTL DEF DispSpec

(* The store, the executors, the messages and the maps stay well-typed.     *)
THEOREM DispatcherTypes == DispSpec => []DispTypeOK
<1>1. TypedStore => DispTypeOK
  BY DEF TypedStore
<1> QED BY TypedStoreHolds, <1>1, PTL

(* The dispatcher, the workers and the bridge implement the store's most    *)
(* general client: each of their steps is a store operation or none.        *)
THEOREM DispatcherUsesStore == DispSpec => StoreSpec
<1>1. DispInit => StoreInit
  BY DEF DispInit
<1>2. TypedStore /\ [DispNext]_vars => [StoreNext]_storeVars
  BY DispStepStore DEF TypedStore
<1> QED BY TypedStoreHolds, <1>1, <1>2, PTL DEF DispSpec, StoreSpec

(* So what holds of every client of the store holds of this one.            *)
COROLLARY DispatcherKeepsAdmission ==
  DispSpec => []LineageSound /\ []KeyHolder /\ []MustDeliverNeverExpired /\ Admission
<1>1. StoreSpec => [](TypeOK /\ KeyHolder /\ LineageSound)
  BY StoreInvariant
<1> QED BY <1>1, DispatcherUsesStore, MustDeliverKept, StoreImplementsContract, PTL

-----------------------------------------------------------------------------
(* Pending approvals.                                                      *)

(* An executor's step that is no question and no timeout leaves the pending *)
(* map alone, and starts and ends away from an open channel.                *)
LEMMA QuietStep ==
  ASSUME DispTypeOK, NEW e \in Executor, ExecStep(e), ~Ask(e), ~Unanswered(e)
  PROVE  /\ UNCHANGED pending
         /\ exec' = [exec EXCEPT ![e] = exec'[e]]
         /\ ~(At(e, "waiting") /\ exec[e].chan = "open")
         /\ exec'[e].pc # "waiting"
<1>1. exec \in [Executor -> Exec] /\ exec[e] \in Exec /\ exec' \in [Executor -> Exec]
  BY ExecStepTyped DEF DispTypeOK, ExecTypeOK
<1>2. CASE AdmitInbound(e)
  <2>1. AfterAdmission(exec[e].req) \in {"analyse", "idle", "report"}
    BY DEF AfterAdmission
  <2> QED BY <1>1, <1>2, <2>1 DEF AdmitInbound, At, Exec, Idle
<1>3. CASE \/ Refuse(e) \/ Pass(e) \/ Fail(e) \/ Dispatch(e) \/ StartLocal(e) \/ FinishLocal(e)
  <2>1. ASSUME NEW pc \in PC \ {"waiting"}, Goto(e, pc)
        PROVE  exec' = [exec EXCEPT ![e] = exec'[e]] /\ exec'[e].pc # "waiting"
    BY <1>1, <2>1 DEF Goto, Exec
  <2> QED BY <1>3, <2>1 DEF Refuse, Pass, Fail, Dispatch, StartLocal, FinishLocal, PC, At
<1>4. CASE Analyse(e) \/ StopRoute(e) \/ LocalDown(e) \/ Deny(e) \/ NoRoute(e) \/ LocalFails(e)
  BY <1>1, <1>4 DEF Analyse, StopRoute, LocalDown, Deny, NoRoute, LocalFails, Voted, GiveUp,
                    At, Exec
<1>5. CASE \/ \E gate \in {"source", "security", "quota", "switch"} : Hold(e, gate)
           \/ Approve(e) \/ ApproveLocal(e)
  BY <1>1, <1>5 DEF Hold, Gates, Approve, ApproveLocal, Approved, Voted, At, Exec
<1>6. CASE Release(e) \/ Report(e) \/ HandOff(e) \/ Announce(e)
  BY <1>1, <1>6 DEF Release, Report, HandOff, Announce, GiveUp, At, Exec, Idle
<1> QED BY <1>2, <1>3, <1>4, <1>5, <1>6 DEF ExecStep

(* What a question and a timeout do.                                       *)
LEMMA AskFacts ==
  ASSUME DispTypeOK, NEW e \in Executor, Ask(e) \/ Unanswered(e)
  PROVE  /\ TaskOf(e) \in Task
         /\ pending' = [pending EXCEPT ![TaskOf(e)] = IF Ask(e) THEN e ELSE NoExecutor]
         /\ exec'[e].pc = IF Ask(e) THEN "waiting" ELSE "fail"
         /\ exec'[e].req = exec[e].req /\ exec'[e].gate = exec[e].gate
         /\ exec'[e].chan = IF Ask(e) THEN "open" ELSE "closed"
         /\ exec[e].pc = IF Ask(e) THEN "ask" ELSE "waiting"
         /\ \A x \in Executor \ {e} : exec'[x] = Dropped(TaskOf(e))[x]
<1>1. TaskOf(e) \in Task
  BY BusyHasTask DEF Ask, Unanswered, At, DispTypeOK
<1>2. /\ Dropped(TaskOf(e)) \in [Executor -> Exec]
      /\ Dropped(TaskOf(e))[e].req = exec[e].req
      /\ Dropped(TaskOf(e))[e].gate = exec[e].gate
  BY <1>1, DroppedTyped DEF DispTypeOK
<1>3. Dropped(TaskOf(e))[e] \in Exec
  BY <1>2
<1>4. CASE Ask(e)
  <2>1. /\ exec'[e] = [Dropped(TaskOf(e))[e] EXCEPT !.pc = "waiting", !.chan = "open"]
        /\ \A x \in Executor \ {e} : exec'[x] = Dropped(TaskOf(e))[x]
    BY <1>2, <1>4 DEF Ask
  <2> QED BY <1>1, <1>2, <1>3, <1>4, <2>1 DEF Ask, At, Exec
<1>5. CASE ~Ask(e)
  <2>1. /\ exec'[e] = [Dropped(TaskOf(e))[e] EXCEPT !.pc = "fail", !.rounds = 2,
                                                    !.chan = "closed"]
        /\ \A x \in Executor \ {e} : exec'[x] = Dropped(TaskOf(e))[x]
    BY <1>2, <1>5 DEF Unanswered
  <2> QED BY <1>1, <1>2, <1>3, <1>5, <2>1 DEF Unanswered, At, Exec
<1> QED BY <1>4, <1>5

(* Every step keeps the pending map in line with who waits.                *)
LEMMA StepKeepsMatch ==
  TypedStore /\ PendingMatchesWaiter /\ [DispNext]_vars => PendingMatchesWaiter'
<1> SUFFICES ASSUME TypedStore, PendingMatchesWaiter, [DispNext]_vars,
                    NEW t \in Task, NEW x \in Executor
             PROVE  (pending[t] = x <=> Waits(x, t))'
  BY DEF PendingMatchesWaiter
<1> USE DEF TypedStore
<1>1. /\ exec \in [Executor -> Exec]
      /\ pending \in [Task -> Executor \cup {NoExecutor}]
      /\ \A u \in Task, y \in Executor :
           pending[u] = y <=> exec[y].pc = "waiting" /\ exec[y].req.id = u /\ exec[y].chan = "open"
  BY DEF DispTypeOK, ExecTypeOK, PendingMatchesWaiter, Waits, At, TaskOf
<1> SUFFICES pending'[t] = x <=>
               exec'[x].pc = "waiting" /\ exec'[x].req.id = t /\ exec'[x].chan = "open"
  BY DEF Waits, At, TaskOf
<1>2. CASE UNCHANGED <<exec, pending>>
  BY <1>1, <1>2
<1>3. ASSUME NEW e \in Executor, ExecStep(e), ~Ask(e), ~Unanswered(e)
      PROVE  pending'[t] = x <=>
               exec'[x].pc = "waiting" /\ exec'[x].req.id = t /\ exec'[x].chan = "open"
  BY <1>1, <1>3, QuietStep DEF At
<1>4. ASSUME NEW e \in Executor, Ask(e) \/ Unanswered(e)
      PROVE  pending'[t] = x <=>
               exec'[x].pc = "waiting" /\ exec'[x].req.id = t /\ exec'[x].chan = "open"
  <2> DEFINE u == TaskOf(e)
  <2>1. /\ u \in Task /\ u = exec[e].req.id
        /\ pending' = [pending EXCEPT ![u] = IF Ask(e) THEN e ELSE NoExecutor]
        /\ exec'[e].pc = IF Ask(e) THEN "waiting" ELSE "fail"
        /\ exec'[e].req = exec[e].req
        /\ exec'[e].chan = IF Ask(e) THEN "open" ELSE "closed"
        /\ exec[e].pc = IF Ask(e) THEN "ask" ELSE "waiting"
    BY <1>4, AskFacts DEF TaskOf
  <2>2. x # e => /\ exec'[x].pc = exec[x].pc /\ exec'[x].req = exec[x].req
                 /\ exec'[x].chan = IF pending[u] = x THEN "closed" ELSE exec[x].chan
    <3>1. x # e => exec'[x] = Dropped(u)[x]
      BY <1>4, AskFacts
    <3>2. /\ Dropped(u)[x].pc = exec[x].pc /\ Dropped(u)[x].req = exec[x].req
          /\ Dropped(u)[x].chan = IF pending[u] = x THEN "closed" ELSE exec[x].chan
      BY <2>1, DroppedTyped DEF DispTypeOK
    <3> QED BY <3>1, <3>2
  <2> HIDE DEF u
  <2> QED BY <1>1, <2>1, <2>2
<1>5. ASSUME NEW u \in Task, NEW vote \in {"approve", "local", "deny"}, Vote(u, vote)
      PROVE  pending'[t] = x <=>
               exec'[x].pc = "waiting" /\ exec'[x].req.id = t /\ exec'[x].chan = "open"
  <2>1. /\ pending[u] \in Executor
        /\ pending' = [pending EXCEPT ![u] = NoExecutor]
        /\ exec' = [exec EXCEPT ![pending[u]] = [exec[pending[u]] EXCEPT !.chan = vote]]
    BY <1>5, VoteFacts
  <2>2. x = pending[u] => exec'[x].chan = vote
    BY <1>1, <2>1 DEF Exec
  <2>3. x # pending[u] => exec'[x] = exec[x]
    BY <1>1, <2>1
  <2> QED BY <1>1, <2>1, <2>2, <2>3
<1>6. ASSUME NEW m \in bus, NEW e \in Executor, Receive(e, m)
      PROVE  pending'[t] = x <=>
               exec'[x].pc = "waiting" /\ exec'[x].req.id = t /\ exec'[x].chan = "open"
  <2>1. /\ exec' = [exec EXCEPT ![e] = [Idle EXCEPT !.pc = "admit", !.req = m.req]]
        /\ exec[e].pc = "idle" /\ UNCHANGED pending
    BY <1>6, ReceiveFacts DEF At
  <2>2. exec'[e].pc = "admit" /\ \A y \in Executor \ {e} : exec'[y] = exec[y]
    BY <1>1, <2>1 DEF Idle
  <2> QED BY <1>1, <2>1, <2>2
<1>7. CASE Restart
  BY <1>7 DEF Restart, Idle
<1> QED BY <1>2, <1>3, <1>4, <1>5, <1>6, <1>7, OutsideKeeps, DispCases DEF vars

(* A sender is stored for a task exactly while the executor that asked for  *)
(* its approval waits for the answer.                                      *)
THEOREM VotesReachTheirAsker == DispSpec => []PendingMatchesWaiter
<1>1. DispInit => PendingMatchesWaiter
  BY DEF DispInit, PendingMatchesWaiter, Waits, At, Idle
<1> QED BY <1>1, TypedStoreHolds, StepKeepsMatch, PTL DEF DispSpec

-----------------------------------------------------------------------------
(* Switching agents.                                                       *)

(* An executor that asked for an approval knows which one.                  *)
Gated == \A e \in Executor :
  exec[e].pc \in {"ask", "waiting"} => exec[e].gate \in {"source", "security", "quota", "switch"}

(* A step keeps both when only one executor changes.                       *)
LEMMA OneExecutor ==
  ASSUME Gated, SwitchApproved, NEW e \in Executor,
         \A x \in Executor \ {e} : /\ exec'[x].pc = exec[x].pc /\ exec'[x].req = exec[x].req
                                   /\ exec'[x].gate = exec[x].gate
                                   /\ exec'[x].target = exec[x].target,
         exec'[e].pc \in {"ask", "waiting"} =>
           exec'[e].gate \in {"source", "security", "quota", "switch"},
         exec'[e].pc \in {"go", "handoff"} /\ exec'[e].target \in Workers \ {Source[exec'[e].req]}
           => exec'[e].gate = "switch"
  PROVE  (Gated /\ SwitchApproved)'
BY DEF Gated, SwitchApproved

(* An executor goes to another worker only from the switch gate.           *)
LEMMA ExecStepGates ==
  ASSUME DispTypeOK, Gated, SwitchApproved, NEW e \in Executor, ExecStep(e)
  PROVE  (Gated /\ SwitchApproved)'
<1>1. exec \in [Executor -> Exec] /\ exec[e] \in Exec
  BY DEF DispTypeOK, ExecTypeOK
<1>2. CASE Ask(e) \/ Unanswered(e)
  <2>1. TaskOf(e) \in Task
    BY <1>2, AskFacts
  <2>2. \A x \in Executor : /\ Dropped(TaskOf(e))[x].pc = exec[x].pc
                            /\ Dropped(TaskOf(e))[x].req = exec[x].req
                            /\ Dropped(TaskOf(e))[x].gate = exec[x].gate
                            /\ Dropped(TaskOf(e))[x].target = exec[x].target
    BY <2>1, DroppedTyped DEF DispTypeOK
  <2>3. exec[e].gate \in {"source", "security", "quota", "switch"}
    BY <1>2, AskFacts DEF Gated
  <2> QED BY <1>2, <2>2, <2>3, AskFacts, OneExecutor
<1> SUFFICES ASSUME ~Ask(e), ~Unanswered(e) PROVE (Gated /\ SwitchApproved)'
  BY <1>2
<1>3. \A x \in Executor \ {e} : exec'[x] = exec[x]
  <2>1. exec' = [exec EXCEPT ![e] = exec'[e]]
    BY QuietStep
  <2> QED BY <1>1, <2>1
<1>4. ASSUME NEW pc \in PC, Goto(e, pc),
             pc \in {"go", "handoff"} => \/ exec[e].pc = "go"
                                       \/ exec[e].target \notin Workers \ {Source[exec[e].req]},
             pc \notin {"ask", "waiting"}
      PROVE  (Gated /\ SwitchApproved)'
  <2>1. /\ exec'[e].pc = pc /\ exec'[e].req = exec[e].req /\ exec'[e].gate = exec[e].gate
        /\ exec'[e].target = exec[e].target
    BY <1>1, <1>4 DEF Goto, Exec
  <2> QED BY <1>3, <1>4, <2>1, OneExecutor DEF SwitchApproved
<1>5. ASSUME exec'[e].pc \notin {"ask", "waiting", "go", "handoff"}
      PROVE  (Gated /\ SwitchApproved)'
  BY <1>3, <1>5, OneExecutor
<1>6. ASSUME NEW gate \in {"source", "security", "quota", "switch"}, Hold(e, gate)
      PROVE  (Gated /\ SwitchApproved)'
  <2>1. exec'[e].pc = "ask" /\ exec'[e].gate = gate
    BY <1>1, <1>6 DEF Hold, Exec
  <2> QED BY <1>3, <2>1, OneExecutor
<1>7. ASSUME NEW a, Approved(e, a), At(e, "waiting"), a \in Workers => exec[e].gate \in {"source", "switch"}
      PROVE  (Gated /\ SwitchApproved)'
  <2>1. /\ exec'[e].pc = IF exec[e].gate = "source" THEN "security" ELSE "go"
        /\ exec'[e].target = a /\ exec'[e].gate = exec[e].gate /\ exec'[e].req = exec[e].req
    BY <1>1, <1>7 DEF Approved, Exec
  <2> QED BY <1>3, <1>7, <2>1, OneExecutor
<1>8. CASE Approve(e) \/ ApproveLocal(e)
  <2>1. At(e, "waiting") /\ exec[e].gate \in {"source", "security", "quota", "switch"}
    BY <1>8 DEF Approve, ApproveLocal, Voted, At, Gated
  <2>2. ToAgent(e) \in Workers => exec[e].gate \in {"source", "switch"}
    BY <2>1 DEF ToAgent
  <2> QED BY <1>7, <1>8, <2>1, <2>2 DEF Approve, ApproveLocal
<1>9. CASE Pass(e)
  BY <1>4, <1>9 DEF Pass, At, NeedsSwitchApproval, PC
<1>10. CASE Dispatch(e)
  BY <1>4, <1>10 DEF Dispatch, At, PC
<1>11. CASE Refuse(e) \/ Fail(e) \/ StartLocal(e) \/ FinishLocal(e)
  BY <1>4, <1>11 DEF Refuse, Fail, StartLocal, FinishLocal, PC
<1>12. CASE Analyse(e) \/ StopRoute(e) \/ LocalDown(e) \/ Deny(e) \/ NoRoute(e) \/ LocalFails(e)
  BY <1>1, <1>5, <1>12
     DEF Analyse, StopRoute, LocalDown, Deny, NoRoute, LocalFails, GiveUp, Exec
<1>13. CASE Release(e) \/ Report(e) \/ HandOff(e) \/ Announce(e)
  BY <1>1, <1>5, <1>13 DEF Release, Report, HandOff, Announce, GiveUp, Exec, Idle
<1>14. CASE AdmitInbound(e)
  <2>1. AfterAdmission(exec[e].req) \in {"analyse", "idle", "report"}
    BY DEF AfterAdmission
  <2> QED BY <1>1, <1>5, <1>14, <2>1 DEF AdmitInbound, Exec, Idle
<1> QED BY <1>6, <1>8, <1>9, <1>10, <1>11, <1>12, <1>13, <1>14 DEF ExecStep

(* Every step keeps gates and switches.                                    *)
LEMMA StepGates ==
  TypedStore /\ Gated /\ SwitchApproved /\ [DispNext]_vars => (Gated /\ SwitchApproved)'
<1> SUFFICES ASSUME TypedStore, Gated, SwitchApproved, [DispNext]_vars
             PROVE  (Gated /\ SwitchApproved)'
  OBVIOUS
<1> USE DEF TypedStore
<1>1. exec \in [Executor -> Exec]
  BY DEF DispTypeOK, ExecTypeOK
<1>2. CASE UNCHANGED exec
  BY <1>2 DEF Gated, SwitchApproved
<1>3. ASSUME NEW u \in Task, NEW vote \in {"approve", "local", "deny"}, Vote(u, vote)
      PROVE  (Gated /\ SwitchApproved)'
  <2> DEFINE y == pending[u]
  <2>1. y \in Executor /\ exec' = [exec EXCEPT ![y] = [exec[y] EXCEPT !.chan = vote]]
    BY <1>3, VoteFacts
  <2> HIDE DEF y
  <2>2. /\ exec'[y].pc = exec[y].pc /\ exec'[y].req = exec[y].req
        /\ exec'[y].gate = exec[y].gate /\ exec'[y].target = exec[y].target
        /\ \A x \in Executor \ {y} : exec'[x] = exec[x]
    BY <1>1, <2>1 DEF Exec
  <2> QED BY <2>1, <2>2 DEF Gated, SwitchApproved
<1>4. ASSUME NEW m \in bus, NEW e \in Executor, Receive(e, m)
      PROVE  (Gated /\ SwitchApproved)'
  <2>1. exec' = [exec EXCEPT ![e] = [Idle EXCEPT !.pc = "admit", !.req = m.req]]
    BY <1>4, ReceiveFacts
  <2>2. exec'[e].pc = "admit" /\ \A x \in Executor \ {e} : exec'[x] = exec[x]
    BY <1>1, <2>1 DEF Idle
  <2> QED BY <2>2, OneExecutor
<1>5. CASE Restart
  BY <1>5 DEF Restart, Idle, Gated, SwitchApproved
<1> QED BY <1>2, <1>3, <1>4, <1>5, ExecStepGates, OutsideKeeps, DispCases DEF vars

(* Work goes to another worker only through an approved switch.            *)
THEOREM NoAutomaticSwitch == DispSpec => []SwitchApproved
<1>1. DispInit => Gated /\ SwitchApproved
  BY DEF DispInit, Gated, SwitchApproved, Idle
<1> QED BY <1>1, TypedStoreHolds, StepGates, PTL DEF DispSpec

-----------------------------------------------------------------------------
(* Approvals and failures that somebody is going to finish.                 *)

BurnsKey(t) == HasStatus(t, {"FAILED"}) /\ ~rows[t].must /\ HoldsKey(t)

(* No approval is asked for t and no failure of t keeps its key.            *)
NothingNew(t) ==
  /\ HasStatus(t, {"PENDING_APPROVAL"})' => HasStatus(t, {"PENDING_APPROVAL"})
  /\ BurnsKey(t)' => BurnsKey(t)

(* Freeing keys gives no key to anybody, and takes the keys of its task.    *)
LEMMA FreedKeys ==
  ASSUME TypeOK, NEW t \in Task, NEW u \in Task, keys' = keys \/ keys' = KeysWithout(t),
         rows'[u].key = rows[u].key, rows[u].key \in Key \cup {NoKey}
  PROVE  /\ HoldsKey(u)' => HoldsKey(u)
         /\ keys' = KeysWithout(t) => ~HoldsKey(t)' \/ u # t
BY DEF TypeOK, HoldsKey, KeysWithout

(* A write to one row that asks for no approval, and frees the key when it  *)
(* fails the task.                                                         *)
LEMMA RowWrite ==
  ASSUME TypeOK, NEW t \in Task, NEW row, InRow(t, row),
         row.key = rows[t].key, row.must = rows[t].must,
         keys' = keys \/ keys' = KeysWithout(t),
         row.status = "PENDING_APPROVAL" => rows[t].status = "PENDING_APPROVAL",
         row.status = "FAILED" => rows[t].status = "FAILED" \/ keys' = KeysWithout(t)
  PROVE  \A u \in Task : NothingNew(u)
<1> SUFFICES ASSUME NEW u \in Task PROVE NothingNew(u)
  OBVIOUS
<1>1. /\ rows'[t] = row /\ \A x \in Task \ {t} : rows'[x] = rows[x]
      /\ rows[u].key \in Key \cup {NoKey}
  BY DEF InRow, TypeOK, Row
<1>2. rows'[u].key = rows[u].key /\ rows'[u].must = rows[u].must
  BY <1>1
<1>3. /\ HoldsKey(u)' => HoldsKey(u)
      /\ keys' = KeysWithout(t) => ~HoldsKey(t)' \/ u # t
  BY <1>1, <1>2, FreedKeys
<1>4. CASE u = t
  BY <1>1, <1>2, <1>3, <1>4 DEF NothingNew, BurnsKey, HasStatus
<1>5. CASE u # t
  BY <1>1, <1>3, <1>5 DEF NothingNew, BurnsKey, HasStatus
<1> QED BY <1>4, <1>5

(* Rows that are kept, with keys that are kept or freed.                    *)
LEMMA NoRowWrite ==
  ASSUME TypeOK, UNCHANGED rows, NEW t \in Task, keys' = keys \/ keys' = KeysWithout(t)
  PROVE  \A u \in Task : NothingNew(u)
<1> SUFFICES ASSUME NEW u \in Task PROVE NothingNew(u)
  OBVIOUS
<1>1. rows'[u].key = rows[u].key /\ rows[u].key \in Key \cup {NoKey}
  BY DEF TypeOK, Row
<1>2. HoldsKey(u)' => HoldsKey(u)
  BY <1>1, FreedKeys
<1> QED BY <1>2 DEF NothingNew, BurnsKey, HasStatus

(* An admitted task is QUEUED, and takes a free key.                       *)
LEMMA AdmitNothingNew ==
  ASSUME IInv, NEW r \in Requests, Admit(r)
  PROVE  \A u \in Task : NothingNew(u)
<1> SUFFICES ASSUME NEW u \in Task PROVE NothingNew(u)
  OBVIOUS
<1>1. TypeOK
  BY DEF IInv
<1>2. CASE UNCHANGED storeVars
  BY <1>2 DEF NothingNew, BurnsKey, HoldsKey, HasStatus, storeVars
<1>3. CASE Accept(r)
  <2>1. /\ rows' = [rows EXCEPT ![r.id] = NewRow(r)] /\ r.id \in Task
        /\ r.key \in Key \cup {NoKey}
        /\ keys' = IF r.key = NoKey THEN keys ELSE [keys EXCEPT ![r.key] = r.id]
    BY <1>3 DEF Accept, Request
  <2>2. CASE u = r.id
    BY <1>1, <2>1, <2>2 DEF NothingNew, BurnsKey, HasStatus, NewRow, TypeOK
  <2>3. CASE u # r.id
    <3>1. rows'[u] = rows[u] /\ rows[u].key \in Key \cup {NoKey}
      BY <1>1, <2>1, <2>3 DEF TypeOK, Row
    <3>2. HoldsKey(u)' => HoldsKey(u)
      BY <1>1, <2>1, <2>3, <3>1 DEF HoldsKey, TypeOK
    <3> QED BY <3>1, <3>2 DEF NothingNew, BurnsKey, HasStatus
  <2> QED BY <2>2, <2>3
<1> QED BY <1>2, <1>3 DEF Admit

(* A status on the way to execution is neither.                            *)
LEMMA SetStatusNothingNew ==
  ASSUME TypeOK, NEW t \in Task, NEW s \in {"QUEUED", "DISPATCHED", "EXECUTING"}, SetStatus(t, s)
  PROVE  \A u \in Task : NothingNew(u)
<1>1. CASE Exists(t)
  <2> DEFINE row == [rows[t] EXCEPT !.status = s]
  <2>1. InRow(t, row) /\ UNCHANGED keys
    BY <1>1 DEF SetStatus
  <2>2. row.key = rows[t].key /\ row.must = rows[t].must /\ row.status = s
    BY DEF TypeOK, Row
  <2> HIDE DEF row
  <2> QED BY <2>1, <2>2, RowWrite
<1>2. CASE ~Exists(t)
  BY <1>2, NoRowWrite DEF SetStatus
<1> QED BY <1>1, <1>2

(* A failure that frees the key burns none.                                *)
LEMMA CompleteNothingNew ==
  ASSUME TypeOK, NEW t \in Task, NEW s \in {"COMPLETED", "FAILED"},
         NEW hasResult \in BOOLEAN, NEW release \in BOOLEAN, s = "FAILED" => release,
         CompleteWithResult(t, s, hasResult, release)
  PROVE  \A u \in Task : NothingNew(u)
<1>1. keys' = IF release THEN KeysWithout(t) ELSE keys
  BY DEF CompleteWithResult
<1>2. CASE Exists(t)
  <2> DEFINE row == [(IF hasResult THEN WithResult(rows[t]) ELSE rows[t]) EXCEPT !.status = s]
  <2>1. InRow(t, row)
    BY <1>2 DEF CompleteWithResult
  <2>2. row.key = rows[t].key /\ row.must = rows[t].must /\ row.status = s
    BY DEF TypeOK, Row, WithResult
  <2> HIDE DEF row
  <2> QED BY <1>1, <2>1, <2>2, RowWrite
<1>3. CASE ~Exists(t)
  BY <1>1, <1>3, NoRowWrite DEF CompleteWithResult
<1> QED BY <1>2, <1>3

(* The operations that callers and workers use.                            *)
LEMMA CallerNothingNew ==
  ASSUME TypeOK, NEW t \in Task,
         \/ \E s \in Session, st \in {"COMPLETED", "FAILED"} : YieldResult(t, s, st)
         \/ \E s \in Session : CancelTask(t, s)
         \/ \E a \in Agent : MarkAcked(t, a)
         \/ TryMarkWaitTimeout(t)
         \/ TouchLastWait(t)
  PROVE  \A u \in Task : NothingNew(u)
<1>1. rows[t] \in Row
  BY DEF TypeOK
<1>2. ASSUME NEW s \in Session, NEW st \in {"COMPLETED", "FAILED"}, YieldResult(t, s, st)
      PROVE  \A u \in Task : NothingNew(u)
  <2> DEFINE row == [WithResult(rows[t]) EXCEPT !.status = st, !.claimed = s]
  <2>1. row.key = rows[t].key /\ row.must = rows[t].must /\ row.status = st
    BY <1>1 DEF Row, WithResult
  <2>2. InRow(t, row) /\ keys' = IF st = "FAILED" THEN KeysWithout(t) ELSE keys
    BY <1>2 DEF YieldResult
  <2> HIDE DEF row
  <2> QED BY <2>1, <2>2, RowWrite
<1>3. ASSUME NEW row \in Row, row.key = rows[t].key, row.must = rows[t].must,
             row.status \in {"CANCELLED", "EXECUTING", "WAIT_TIMEOUT_REACHED", rows[t].status},
             InRow(t, row), keys' = keys \/ keys' = KeysWithout(t)
      PROVE  \A u \in Task : NothingNew(u)
  BY <1>3, RowWrite
<1>4. ASSUME NEW s \in Session, CancelTask(t, s) PROVE \A u \in Task : NothingNew(u)
  BY <1>1, <1>3, <1>4 DEF CancelTask, Row, Status, Terminal
<1>5. ASSUME NEW a \in Agent, MarkAcked(t, a) PROVE \A u \in Task : NothingNew(u)
  BY <1>1, <1>3, <1>5 DEF MarkAcked, Row, Status, Incomplete, Backgroundable, Silenceable
<1>6. CASE TryMarkWaitTimeout(t)
  <2> DEFINE row == [rows[t] EXCEPT !.status = "WAIT_TIMEOUT_REACHED", !.bg = TRUE]
  <2>1. /\ row.key = rows[t].key /\ row.must = rows[t].must
        /\ row.status = "WAIT_TIMEOUT_REACHED"
    BY <1>1 DEF Row
  <2>2. InRow(t, row) /\ UNCHANGED keys
    BY <1>6 DEF TryMarkWaitTimeout
  <2> HIDE DEF row
  <2> QED BY <2>1, <2>2, RowWrite
<1>7. CASE TouchLastWait(t)
  BY <1>1, <1>3, <1>7 DEF TouchLastWait, Row
<1> QED BY <1>2, <1>4, <1>5, <1>6, <1>7

(* The watchdog fails must_deliver tasks only.                             *)
LEMMA SweepNothingNew ==
  ASSUME TypeOK, Watchdog
  PROVE  \A u \in Task : NothingNew(u)
<1> SUFFICES ASSUME NEW u \in Task PROVE NothingNew(u)
  OBVIOUS
<1>1. rows[u] \in Row
  BY DEF TypeOK
<1>2. ASSUME NEW s \in {"NEEDS_HUMAN", "EXPIRED"}, NEW S, SetAll(S, s), UNCHANGED keys
      PROVE  NothingNew(u)
  <2>1. rows'[u] = IF u \in S THEN [rows[u] EXCEPT !.status = s] ELSE rows[u]
    BY <1>2 DEF SetAll
  <2> QED BY <1>1, <1>2, <2>1 DEF NothingNew, BurnsKey, HoldsKey, HasStatus, Row
<1>3. ASSUME NEW S \in SUBSET Undelivered, AbandonMustDeliver(S) PROVE NothingNew(u)
  <2>1. /\ rows'[u] = IF u \in S THEN [WithResult(rows[u]) EXCEPT !.status = "FAILED"] ELSE rows[u]
        /\ UNCHANGED keys /\ (u \in S => rows[u].must)
    BY <1>3 DEF AbandonMustDeliver, Undelivered
  <2>2. u \in S => rows'[u].must /\ rows'[u].status = "FAILED"
    BY <1>1, <2>1 DEF Row, WithResult
  <2> QED BY <2>1, <2>2 DEF NothingNew, BurnsKey, HoldsKey, HasStatus
<1>4. ASSUME NEW K \in SUBSET Key, GcKeys(K) PROVE NothingNew(u)
  BY <1>1, <1>4 DEF GcKeys, NothingNew, BurnsKey, HoldsKey, HasStatus, Row
<1>5. CASE \/ \E S \in SUBSET Silent : Silence(S)
           \/ \E S \in SUBSET (ResultOrphans \cup IncompleteOrphans) : Expire(S)
  BY <1>2, <1>5 DEF Silence, Expire, MarkSilentNeedsHuman, ExpireOrphans
<1> QED BY <1>3, <1>4, <1>5 DEF Watchdog, Abandon, Gc

(* Nobody but an executor asks for an approval or burns a key.             *)
LEMMA OutsideNothingNew ==
  ASSUME TypedStore, Outside
  PROVE  \A u \in Task : NothingNew(u)
<1> USE DEF TypedStore, DispTypeOK
<1>0. ASSUME UNCHANGED <<rows, keys>> PROVE \A u \in Task : NothingNew(u)
  BY <1>0 DEF NothingNew, BurnsKey, HoldsKey, HasStatus
<1>1. ASSUME UNCHANGED storeVars PROVE \A u \in Task : NothingNew(u)
  BY <1>0, <1>1 DEF storeVars
<1>2. ASSUME NEW m \in bus, Acked(m) \/ Stopped(m) \/ LifeRead(m) \/ TakeWork(m) \/ Lose(m)
      PROVE  \A u \in Task : NothingNew(u)
  <2>1. CASE Acked(m)
    BY <1>1, <2>1, MessageFacts, CallerNothingNew DEF Acked
  <2>2. CASE Stopped(m)
    BY <1>1, <2>2, MessageFacts, CallerNothingNew DEF Stopped
  <2> QED BY <1>1, <1>2, <2>1, <2>2 DEF LifeRead, TakeWork, Lose
<1>3. CASE LifeWrite
  <2>1. lifeAt.task \in Task /\ lifeAt.failed \in BOOLEAN /\ lifeAt.result \in BOOLEAN
    BY <1>3, DoneFacts DEF LifeWrite, BusTypeOK
  <2> DEFINE st == IF lifeAt.failed THEN "FAILED" ELSE "COMPLETED"
  <2>2. /\ CompleteWithResult(lifeAt.task, st, lifeAt.result, lifeAt.failed)
        /\ st \in {"COMPLETED", "FAILED"} /\ (st = "FAILED" => lifeAt.failed)
    BY <1>3 DEF LifeWrite
  <2> HIDE DEF st
  <2> QED BY <2>1, <2>2, CompleteNothingNew
<1>4. ASSUME NEW w \in working, WorkerStep(w) PROVE \A u \in Task : NothingNew(u)
  BY <1>1, <1>4 DEF WorkerStep, FinishWork, WorkerDies
<1>5. ASSUME NEW r \in Requests, Publish(r) \/ BridgeCall(r)
      PROVE  \A u \in Task : NothingNew(u)
  BY <1>1, <1>5, AdmitNothingNew DEF Publish, BridgeCall
<1>6. ASSUME NEW t \in Task, Cancel(t) PROVE \A u \in Task : NothingNew(u)
  BY <1>1, <1>6, CallerNothingNew DEF Cancel
<1>7. ASSUME NEW t \in Task, Background(t) \/ Wait(t) PROVE \A u \in Task : NothingNew(u)
  BY <1>7, CallerNothingNew DEF Background, Wait
<1>8. ASSUME NEW t \in Task, NEW s \in McpSession, NEW st \in {"COMPLETED", "FAILED"},
             Yield(t, s, st)
      PROVE  \A u \in Task : NothingNew(u)
  BY <1>8, CallerNothingNew DEF Yield
<1>9. ASSUME NEW s \in McpSession, Connect(s) \/ Disconnect(s)
      PROVE  \A u \in Task : NothingNew(u)
  BY <1>0, <1>9 DEF Connect, Disconnect, UpsertSession, MarkDisconnected
<1> QED BY <1>2, <1>3, <1>4, <1>5, <1>6, <1>7, <1>8, <1>9, SweepNothingNew DEF Outside, McpStep

(* Asking for an approval and failing are the two steps that need a        *)
(* follow-up, and the executor that takes them is about to do it.          *)
LEMMA ExecStepEffect ==
  ASSUME TypedStore, NEW e \in Executor, ExecStep(e), NEW u \in Task
  PROVE  \/ NothingNew(u)
         \/ /\ u = TaskOf(e) /\ exec'[e].req = exec[e].req
            /\ \/ exec'[e].pc = "ask" /\ ~HasStatus(u, {"FAILED"})'
               \/ exec'[e].pc = "release" /\ ~HasStatus(u, {"PENDING_APPROVAL"})'
<1> USE DEF TypedStore, DispTypeOK
<1>1. ASSUME UNCHANGED <<rows, keys>> PROVE NothingNew(u)
  BY <1>1 DEF NothingNew, BurnsKey, HoldsKey, HasStatus
<1>2. ASSUME NEW t \in Task, NEW s \in {"PENDING_APPROVAL", "FAILED"}, SetStatus(t, s)
      PROVE  /\ u # t => NothingNew(u)
             /\ u = t => rows'[u].status \in {s, "ABSENT"}
  BY <1>1, <1>2
     DEF SetStatus, InRow, Exists, TypeOK, Row, NothingNew, BurnsKey, HoldsKey, HasStatus
<1>3. exec[e] \in Exec /\ exec \in [Executor -> Exec]
  BY DEF ExecTypeOK
<1>4. CASE Fail(e)
  <2>1. TaskOf(e) \in Task /\ SetStatus(TaskOf(e), "FAILED")
    BY <1>4, BusyHasTask DEF Fail, At
  <2>2. exec'[e].pc = "release" /\ exec'[e].req = exec[e].req
    BY <1>3, <1>4 DEF Fail, Goto, Exec
  <2> QED BY <1>2, <2>1, <2>2 DEF HasStatus
<1>5. ASSUME NEW gate \in {"source", "security", "quota", "switch"}, Hold(e, gate)
      PROVE  \/ NothingNew(u)
             \/ /\ u = TaskOf(e) /\ exec'[e].req = exec[e].req
                /\ exec'[e].pc = "ask" /\ ~HasStatus(u, {"FAILED"})'
  <2>1. TaskOf(e) \in Task /\ SetStatus(TaskOf(e), "PENDING_APPROVAL")
    BY <1>5, BusyHasTask DEF Hold, Gates, At
  <2>2. exec'[e].pc = "ask" /\ exec'[e].req = exec[e].req
    BY <1>3, <1>5 DEF Hold, Exec
  <2> QED BY <1>2, <2>1, <2>2 DEF HasStatus
<1>6. CASE Approve(e) \/ ApproveLocal(e) \/ Dispatch(e) \/ StartLocal(e)
  <2>1. TaskOf(e) \in Task
    BY <1>6, BusyHasTask DEF Approve, ApproveLocal, Voted, Dispatch, StartLocal, At
  <2> QED BY <1>6, <2>1, SetStatusNothingNew
          DEF Approve, ApproveLocal, Approved, Dispatch, StartLocal
<1>7. CASE FinishLocal(e)
  BY <1>7, BusyHasTask, CompleteNothingNew DEF FinishLocal, At
<1>8. CASE AdmitInbound(e)
  BY <1>8, BusyHasTask, AdmitNothingNew DEF AdmitInbound, At
<1>9. CASE Release(e)
  BY <1>9, BusyHasTask, NoRowWrite DEF Release, ReleaseKey, At
<1>10. CASE HandOff(e)
  BY <1>1, <1>10 DEF HandOff, UpsertSession
<1>11. CASE Refuse(e) \/ Analyse(e) \/ Pass(e) \/ StopRoute(e) \/ Ask(e) \/ LocalDown(e)
            \/ Deny(e) \/ Unanswered(e) \/ Report(e) \/ NoRoute(e) \/ LocalFails(e) \/ Announce(e)
  BY <1>1, <1>11 DEF storeVars, Refuse, Analyse, Pass, StopRoute, Ask, LocalDown, Deny,
                     Unanswered, Report, NoRoute, LocalFails, Announce
<1> QED BY <1>4, <1>5, <1>6, <1>7, <1>8, <1>9, <1>10, <1>11 DEF ExecStep

(* An executor that holds an approval passes it on or ends it.              *)
LEMMA HoldsUntilSettled ==
  ASSUME TypedStore, NEW e \in Executor, ExecStep(e), exec[e].pc \in {"ask", "waiting", "fail"}
  PROVE  \/ exec'[e].pc \in {"ask", "waiting", "fail"} /\ exec'[e].req = exec[e].req
         \/ rows'[TaskOf(e)].status # "PENDING_APPROVAL"
<1> USE DEF TypedStore, DispTypeOK
<1>1. exec[e] \in Exec /\ exec \in [Executor -> Exec] /\ TaskOf(e) \in Task
  BY BusyHasTask DEF ExecTypeOK, At
<1>2. CASE Ask(e) \/ Unanswered(e)
  BY <1>2, AskFacts
<1>3. CASE LocalDown(e) \/ Deny(e)
  BY <1>1, <1>3 DEF LocalDown, Deny, GiveUp, Exec
<1>4. ASSUME NEW s \in {"QUEUED", "FAILED"}, SetStatus(TaskOf(e), s)
      PROVE  rows'[TaskOf(e)].status # "PENDING_APPROVAL"
  BY <1>1, <1>4 DEF SetStatus, InRow, Exists, TypeOK, Row
<1>5. CASE Approve(e) \/ ApproveLocal(e) \/ Fail(e)
  BY <1>4, <1>5 DEF Approve, ApproveLocal, Approved, Fail
<1>6. ASSUME NEW gate \in {"source", "security", "quota", "switch"}, Hold(e, gate) PROVE FALSE
  BY <1>6 DEF Hold, Gates, At
<1>7. CASE Refuse(e) \/ AdmitInbound(e) \/ Analyse(e) \/ Pass(e) \/ StopRoute(e)
  BY <1>7 DEF Refuse, AdmitInbound, Analyse, Pass, StopRoute, At
<1>8. CASE \/ Release(e) \/ Report(e) \/ NoRoute(e) \/ Dispatch(e) \/ HandOff(e)
           \/ StartLocal(e) \/ LocalFails(e) \/ FinishLocal(e) \/ Announce(e)
  BY <1>8 DEF Release, Report, NoRoute, Dispatch, HandOff, StartLocal, LocalFails, FinishLocal,
              Announce, At
<1> QED BY <1>2, <1>3, <1>5, <1>6, <1>7, <1>8 DEF ExecStep

(* The executors that do not step keep what they are doing.                 *)
LEMMA OthersKeep ==
  ASSUME DispTypeOK, NEW e \in Executor, ExecStep(e), NEW x \in Executor \ {e}
  PROVE  exec'[x].pc = exec[x].pc /\ exec'[x].req = exec[x].req
<1>1. CASE Ask(e) \/ Unanswered(e)
  <2>1. TaskOf(e) \in Task /\ exec'[x] = Dropped(TaskOf(e))[x]
    BY <1>1, AskFacts
  <2> QED BY <2>1, DroppedTyped DEF DispTypeOK
<1>2. CASE ~Ask(e) /\ ~Unanswered(e)
  <2>1. exec' = [exec EXCEPT ![e] = exec'[e]] /\ exec \in [Executor -> Exec]
    BY <1>2, QuietStep DEF DispTypeOK, ExecTypeOK
  <2> QED BY <2>1
<1> QED BY <1>1, <1>2

(* Every step but an executor's keeps what executors at these places do.   *)
LEMMA ElsewhereKeeps ==
  ASSUME TypedStore, [DispNext]_vars, ~\E e \in Executor : ExecStep(e), ~Restart
  PROVE  /\ UNCHANGED restarts
         /\ \A u \in Task : NothingNew(u)
         /\ \A x \in Executor : exec[x].pc # "idle" =>
              exec'[x].pc = exec[x].pc /\ exec'[x].req = exec[x].req
<1> USE DEF TypedStore
<1>1. exec \in [Executor -> Exec]
  BY DEF DispTypeOK, ExecTypeOK
<1>2. UNCHANGED storeVars => \A u \in Task : NothingNew(u)
  BY DEF NothingNew, BurnsKey, HoldsKey, HasStatus, storeVars
<1>3. CASE UNCHANGED vars
  BY <1>2, <1>3 DEF vars, storeVars
<1>4. CASE Outside
  BY <1>4, OutsideKeeps, OutsideNothingNew
<1>5. ASSUME NEW t \in Task, NEW vote \in {"approve", "local", "deny"}, Vote(t, vote)
      PROVE  /\ UNCHANGED <<storeVars, restarts>>
             /\ \A x \in Executor : exec'[x].pc = exec[x].pc /\ exec'[x].req = exec[x].req
  <2> DEFINE y == pending[t]
  <2>1. /\ exec' = [exec EXCEPT ![y] = [exec[y] EXCEPT !.chan = vote]]
        /\ y \in Executor /\ UNCHANGED <<storeVars, restarts>>
    BY <1>5, VoteFacts
  <2> HIDE DEF y
  <2>2. /\ exec'[y].pc = exec[y].pc /\ exec'[y].req = exec[y].req
        /\ \A x \in Executor \ {y} : exec'[x] = exec[x]
    BY <1>1, <2>1 DEF Exec
  <2> QED BY <2>1, <2>2
<1>6. ASSUME NEW m \in bus, NEW e \in Executor, Receive(e, m)
      PROVE  /\ UNCHANGED <<storeVars, restarts>> /\ exec[e].pc = "idle"
             /\ \A x \in Executor \ {e} : exec'[x] = exec[x]
  <2> DEFINE new == [Idle EXCEPT !.pc = "admit", !.req = m.req]
  <2>1. /\ exec' = [exec EXCEPT ![e] = new] /\ At(e, "idle")
        /\ UNCHANGED <<storeVars, restarts>>
    BY <1>6, ReceiveFacts
  <2> HIDE DEF new
  <2> QED BY <1>1, <2>1 DEF At
<1> QED BY <1>2, <1>3, <1>4, <1>5, <1>6, DispCases

(* A restart is counted.                                                   *)
LEMMA RestartsCount == ASSUME TypedStore, Restart PROVE restarts' # 0
BY DEF TypedStore, DispTypeOK, Restart

(* Every step keeps an owner for each pending approval.                    *)
LEMMA StepOwned == TypedStore /\ ApprovalOwned /\ [DispNext]_vars => ApprovalOwned'
<1> SUFFICES ASSUME TypedStore, ApprovalOwned, [DispNext]_vars, NEW t \in Task,
                    restarts' = 0, rows'[t].status = "PENDING_APPROVAL"
             PROVE  \E x \in Executor :
                      exec'[x].pc \in {"ask", "waiting", "fail"} /\ exec'[x].req.id = t
  BY DEF ApprovalOwned, HasStatus, TaskOf
<1> USE DEF TypedStore
<1>1. ASSUME NothingNew(t), UNCHANGED restarts
      PROVE  \E x \in Executor :
               exec[x].pc \in {"ask", "waiting", "fail"} /\ exec[x].req.id = t
  BY <1>1 DEF NothingNew, HasStatus, ApprovalOwned, TaskOf
<1>2. CASE ~\E e \in Executor : ExecStep(e)
  <2>1. ~Restart
    BY RestartsCount
  <2>2. PICK x \in Executor : exec[x].pc \in {"ask", "waiting", "fail"} /\ exec[x].req.id = t
    BY <1>1, <1>2, <2>1, ElsewhereKeeps
  <2>3. exec'[x].pc = exec[x].pc /\ exec'[x].req = exec[x].req
    BY <1>2, <2>1, <2>2, ElsewhereKeeps
  <2> QED BY <2>2, <2>3
<1>3. ASSUME NEW e \in Executor, ExecStep(e)
      PROVE  \E x \in Executor :
               exec'[x].pc \in {"ask", "waiting", "fail"} /\ exec'[x].req.id = t
  <2>1. CASE NothingNew(t)
    <3>1. PICK x \in Executor : exec[x].pc \in {"ask", "waiting", "fail"} /\ exec[x].req.id = t
      BY <1>1, <1>3, <2>1, ExecStepBus
    <3>2. CASE x = e
      BY <1>3, <3>1, <3>2, HoldsUntilSettled DEF TaskOf
    <3>3. CASE x # e
      BY <1>3, <3>1, <3>3, OthersKeep
    <3> QED BY <3>2, <3>3
  <2>2. CASE ~NothingNew(t)
    BY <1>3, <2>2, ExecStepEffect DEF HasStatus, TaskOf
  <2> QED BY <2>1, <2>2
<1> QED BY <1>2, <1>3

(* While the process lives, whatever waits for an approval has an executor  *)
(* that will move it on.                                                   *)
THEOREM ApprovalsHaveOwners == DispSpec => []ApprovalOwned
<1>1. DispInit => ApprovalOwned
  BY DEF DispInit, StoreInit, AbsentRow, ApprovalOwned, HasStatus
<1> QED BY <1>1, TypedStoreHolds, StepOwned, PTL DEF DispSpec

(* An executor between the failure and the release of the key does release. *)
LEMMA ReleasesWhatItFailed ==
  ASSUME TypedStore, NEW e \in Executor, ExecStep(e), exec[e].pc = "release",
         NEW t \in Task, t = TaskOf(e)
  PROVE  ~HoldsKey(t)'
<1>1. CASE Release(e)
  BY <1>1 DEF Release, ReleaseKey, KeysWithout, HoldsKey, TypedStore, DispTypeOK, TypeOK, Row
<1>2. ASSUME NEW gate \in {"source", "security", "quota", "switch"}, Hold(e, gate) PROVE FALSE
  BY <1>2 DEF Hold, Gates, At
<1>3. CASE Refuse(e) \/ AdmitInbound(e) \/ Analyse(e) \/ Pass(e) \/ StopRoute(e) \/ Fail(e)
  BY <1>3 DEF Refuse, AdmitInbound, Analyse, Pass, StopRoute, Fail, At
<1>4. CASE Ask(e) \/ Approve(e) \/ ApproveLocal(e) \/ LocalDown(e) \/ Deny(e) \/ Unanswered(e)
  BY <1>4 DEF Ask, Approve, ApproveLocal, LocalDown, Deny, Unanswered, Voted, At
<1>5. CASE \/ Report(e) \/ NoRoute(e) \/ Dispatch(e) \/ HandOff(e)
           \/ StartLocal(e) \/ LocalFails(e) \/ FinishLocal(e) \/ Announce(e)
  BY <1>5 DEF Report, NoRoute, Dispatch, HandOff, StartLocal, LocalFails, FinishLocal,
              Announce, At
<1> QED BY <1>1, <1>2, <1>3, <1>4, <1>5 DEF ExecStep

(* Every step keeps failed tasks from burning their keys.                  *)
LEMMA StepUnburned == TypedStore /\ KeyNotBurned /\ [DispNext]_vars => KeyNotBurned'
<1> SUFFICES ASSUME TypedStore, KeyNotBurned, [DispNext]_vars, NEW t \in Task,
                    restarts' = 0, BurnsKey(t)'
             PROVE  \E x \in Executor : exec'[x].pc = "release" /\ exec'[x].req.id = t
  BY DEF KeyNotBurned, BurnsKey, At, TaskOf
<1> USE DEF TypedStore
<1>1. ASSUME NothingNew(t), UNCHANGED restarts
      PROVE  \E x \in Executor : exec[x].pc = "release" /\ exec[x].req.id = t
  BY <1>1 DEF NothingNew, BurnsKey, KeyNotBurned, At, TaskOf
<1>2. CASE ~\E e \in Executor : ExecStep(e)
  <2>1. ~Restart
    BY RestartsCount
  <2>2. PICK x \in Executor : exec[x].pc = "release" /\ exec[x].req.id = t
    BY <1>1, <1>2, <2>1, ElsewhereKeeps
  <2>3. exec'[x].pc = exec[x].pc /\ exec'[x].req = exec[x].req
    BY <1>2, <2>1, <2>2, ElsewhereKeeps
  <2> QED BY <2>2, <2>3
<1>3. ASSUME NEW e \in Executor, ExecStep(e)
      PROVE  \E x \in Executor : exec'[x].pc = "release" /\ exec'[x].req.id = t
  <2>1. CASE NothingNew(t)
    <3>1. PICK x \in Executor : exec[x].pc = "release" /\ exec[x].req.id = t
      BY <1>1, <1>3, <2>1, ExecStepBus
    <3>2. x # e
      BY <1>3, <3>1, ReleasesWhatItFailed DEF TaskOf, BurnsKey
    <3> QED BY <1>3, <3>1, <3>2, OthersKeep
  <2>2. CASE ~NothingNew(t)
    BY <1>3, <2>2, ExecStepEffect DEF BurnsKey, TaskOf
  <2> QED BY <2>1, <2>2
<1> QED BY <1>2, <1>3

(* While the process lives, a failed task's key is free or about to be.     *)
THEOREM FailuresFreeTheirKey == DispSpec => []KeyNotBurned
<1>1. DispInit => KeyNotBurned
  BY DEF DispInit, StoreInit, AbsentRow, KeyNotBurned, HasStatus
<1> QED BY <1>1, TypedStoreHolds, StepUnburned, PTL DEF DispSpec

-----------------------------------------------------------------------------
(* What is over stays over.                                                *)

(* No operation that asks for the status, and no write to another row,      *)
(* reopens a row that is over.                                             *)
LEMMA OthersRows ==
  ASSUME TypeOK, NEW t \in Task, NEW u \in Task, u # t, NEW row, InRow(u, row) \/ UNCHANGED rows
  PROVE  rows'[t] = rows[t]
BY DEF InRow, TypeOK

LEMMA CallerLeavesOver ==
  ASSUME TypeOK, NEW t \in Task, HasStatus(t, Over), NEW u \in Task,
         \/ \E s \in Session, st \in {"COMPLETED", "FAILED"} : YieldResult(u, s, st)
         \/ \E s \in Session : CancelTask(u, s)
         \/ \E a \in Agent : MarkAcked(u, a)
         \/ TryMarkWaitTimeout(u)
         \/ TouchLastWait(u)
  PROVE  HasStatus(t, Over)'
<1>1. CASE u # t
  <2>1. ASSUME NEW row, InRow(u, row) PROVE HasStatus(t, Over)'
    BY <1>1, <2>1, OthersRows DEF HasStatus
  <2>2. ASSUME NEW s \in Session, \/ CancelTask(u, s)
                                  \/ \E st \in {"COMPLETED", "FAILED"} : YieldResult(u, s, st)
        PROVE HasStatus(t, Over)'
    <3>1. CASE CancelTask(u, s) BY <2>1, <3>1 DEF CancelTask
    <3>2. ASSUME NEW st \in {"COMPLETED", "FAILED"}, YieldResult(u, s, st)
          PROVE HasStatus(t, Over)'
      <4> DEFINE row == [WithResult(rows[u]) EXCEPT !.status = st, !.claimed = s]
      <4>1. InRow(u, row) BY <3>2, Zenon DEF YieldResult
      <4> HIDE DEF row
      <4> QED BY <2>1, <4>1
    <3> QED BY <2>2, <3>1, <3>2
  <2>3. ASSUME NEW a \in Agent, MarkAcked(u, a) PROVE HasStatus(t, Over)'
    BY <2>1, <2>3 DEF MarkAcked
  <2>4. TryMarkWaitTimeout(u) \/ TouchLastWait(u) => HasStatus(t, Over)'
    BY <2>1 DEF TryMarkWaitTimeout, TouchLastWait
  <2> QED BY <2>2, <2>3, <2>4
<1>2. CASE u = t
  <2>1. /\ ~HasStatus(t, Yieldable) /\ HasStatus(t, Closed) /\ ~HasStatus(t, {"DISPATCHED"})
        /\ ~HasStatus(t, Backgroundable)
    BY DEF HasStatus, Over, Closed, Terminal, Yieldable, Backgroundable, Silenceable
  <2>2. TouchLastWait(t)
    <3>1. ASSUME NEW s, NEW st, YieldResult(t, s, st) PROVE FALSE
      <4>1. MayYield(t, s) BY <3>1, Zenon DEF YieldResult
      <4> QED BY <2>1, <4>1 DEF MayYield
    <3>2. \A s : ~CancelTask(t, s) BY <2>1 DEF CancelTask, MayCancel
    <3>3. \A a : ~MarkAcked(t, a) BY <2>1 DEF MarkAcked, MayAck
    <3>4. ~TryMarkWaitTimeout(t) BY <2>1 DEF TryMarkWaitTimeout, CanBackground
    <3> QED BY <1>2, <3>1, <3>2, <3>3, <3>4
  <2> QED BY <2>2 DEF TouchLastWait, InRow, HasStatus, TypeOK, Row
<1> QED BY <1>1, <1>2

LEMMA AdmitLeavesOver ==
  ASSUME TypeOK, NEW t \in Task, HasStatus(t, Over), NEW r \in Requests, Admit(r)
  PROVE  HasStatus(t, Over)'
<1>1. CASE Accept(r)
  <2>1. r.id # t BY <1>1 DEF Accept, IsAccepted, Exists, HasStatus, Over
  <2> QED BY <1>1, <2>1 DEF Accept, HasStatus, TypeOK
<1> QED BY <1>1 DEF Admit, HasStatus, storeVars

LEMMA SweepLeavesOver ==
  ASSUME TypeOK, NEW t \in Task, HasStatus(t, Over), Watchdog
  PROVE  HasStatus(t, Over)'
<1>1. rows[t] \in Row BY DEF TypeOK
<1>2. ASSUME NEW S \in SUBSET Silent, Silence(S) PROVE HasStatus(t, Over)'
  <2>1. t \notin S BY DEF Silent, Silenceable, HasStatus, Over
  <2> QED BY <1>2, <2>1 DEF Silence, MarkSilentNeedsHuman, SetAll, HasStatus
<1>3. ASSUME NEW S, Expire(S) PROVE HasStatus(t, Over)'
  BY <1>1, <1>3 DEF Expire, ExpireOrphans, SetAll, HasStatus, Over, Row
<1>4. ASSUME NEW S, Abandon(S) PROVE HasStatus(t, Over)'
  <2>1. rows'[t] = IF t \in S THEN [WithResult(rows[t]) EXCEPT !.status = "FAILED"] ELSE rows[t]
    BY <1>4 DEF Abandon, AbandonMustDeliver
  <2>2. [WithResult(rows[t]) EXCEPT !.status = "FAILED"].status = "FAILED"
    BY <1>1 DEF WithResult, Row
  <2> QED BY <2>1, <2>2 DEF HasStatus, Over
<1>5. ASSUME NEW K, Gc(K) PROVE HasStatus(t, Over)'
  BY <1>5 DEF Gc, GcKeys, HasStatus
<1> QED BY <1>2, <1>3, <1>4, <1>5 DEF Watchdog

(* An executor that is not at work on a task that is over does not touch    *)
(* its row, and is not set to work on it by a second order.                *)
LEMMA ExecStepLeavesOver ==
  ASSUME TypedStore, NEW e \in Executor, ExecStep(e), NEW t \in Task, HasStatus(t, Over),
         ~AtWork(e, t)
  PROVE  HasStatus(t, Over)' /\ ~AtWork(e, t)' /\ UNCHANGED lifeAt
<1> USE DEF TypedStore, DispTypeOK
<1> DEFINE Resting == {"idle", "admit", "report", "announce"}
<1>1. exec[e] \in Exec /\ exec \in [Executor -> Exec] BY DEF ExecTypeOK
<1>2. CASE AdmitInbound(e)
  <2>1. exec[e].req \in Requests BY <1>2, BusyHasTask DEF AdmitInbound, At
  <2>2. HasStatus(t, Over)' BY <1>2, <2>1, AdmitLeavesOver DEF AdmitInbound
  <2>3. CASE exec[e].req.id = t
    <3>1. ~IsAccepted(exec[e].req) /\ ~Continues(exec[e].req)
      BY <2>3 DEF IsAccepted, Continues, Exists, HasStatus, Over
    <3>2. AfterAdmission(exec[e].req) \in Resting BY <3>1 DEF AfterAdmission
    <3>3. exec'[e].pc \in Resting BY <1>1, <1>2, <3>2 DEF AdmitInbound, Idle, Exec
    <3> QED BY <1>2, <2>2, <3>3 DEF AtWork, AdmitInbound
  <2>4. CASE exec[e].req.id # t
    <3>1. exec'[e].pc = "idle" \/ exec'[e].req = exec[e].req
      BY <1>1, <1>2 DEF AdmitInbound, Idle, Exec
    <3> QED BY <1>2, <2>2, <2>4, <3>1 DEF AtWork, AdmitInbound, TaskOf
  <2> QED BY <2>3, <2>4
<1>3. CASE Refuse(e) \/ Report(e) \/ Announce(e)
  <2>1. exec'[e].pc \in Resting
    BY <1>1, <1>3 DEF Refuse, Report, Announce, Goto, Idle, Exec
  <2>2. UNCHANGED <<storeVars, lifeAt>> BY <1>3 DEF Refuse, Report, Announce
  <2> QED BY <2>1, <2>2 DEF AtWork, HasStatus, storeVars
<1>4. CASE ~(AdmitInbound(e) \/ Refuse(e) \/ Report(e) \/ Announce(e))
  <2>1. exec[e].pc \notin Resting
    <3>1. ASSUME NEW gate \in {"source", "security", "quota", "switch"}, Hold(e, gate)
          PROVE exec[e].pc \notin Resting
      BY <3>1 DEF Hold, Gates, At
    <3> QED BY <1>4, <3>1
      DEF ExecStep, Analyse, Pass, StopRoute, Ask, Approve, ApproveLocal, LocalDown, Deny, Voted,
          Unanswered, Fail, Release, NoRoute, Dispatch, HandOff, StartLocal, LocalFails,
          FinishLocal, At
  <2>2. TaskOf(e) \in Task /\ TaskOf(e) # t
    BY <2>1, BusyHasTask DEF At, AtWork
  <2>3. exec'[e].pc = "idle" \/ exec'[e].req = exec[e].req
    <3>1. CASE Ask(e) \/ Unanswered(e)
      BY <3>1, AskFacts
    <3>2. CASE \/ Analyse(e) \/ Pass(e) \/ StopRoute(e) \/ LocalDown(e) \/ Deny(e) \/ Fail(e)
               \/ \E gate \in {"source", "security", "quota", "switch"} : Hold(e, gate)
      BY <1>1, <3>2 DEF Analyse, Pass, StopRoute, LocalDown, Deny, Fail, Hold, GiveUp, Goto, Exec
    <3>3. CASE Approve(e) \/ ApproveLocal(e) \/ Release(e) \/ NoRoute(e) \/ Dispatch(e)
      BY <1>1, <3>3 DEF Approve, ApproveLocal, Approved, Release, NoRoute, Dispatch, GiveUp, Goto,
                        Idle, Exec
    <3>4. CASE HandOff(e)
      <4>1. exec' = [exec EXCEPT ![e] = Idle] \/ GiveUp(e, 1) BY <3>4 DEF HandOff
      <4> QED BY <1>1, <4>1 DEF GiveUp, Idle, Exec
    <3>5. CASE StartLocal(e) \/ LocalFails(e)
      BY <1>1, <3>5 DEF StartLocal, LocalFails, GiveUp, Goto, Exec
    <3>6. CASE FinishLocal(e)
      <4>1. Goto(e, "announce") BY <3>6 DEF FinishLocal
      <4> QED BY <1>1, <4>1 DEF Goto, Exec
    <3> QED BY <1>4, <3>1, <3>2, <3>3, <3>4, <3>5, <3>6 DEF ExecStep
  <2>4. rows'[t] = rows[t] /\ UNCHANGED lifeAt
    <3>1. ASSUME NEW s, SetStatus(TaskOf(e), s) PROVE rows'[t] = rows[t]
      BY <2>2, <3>1, OthersRows DEF SetStatus
    <3>2. CASE \/ \E gate \in {"source", "security", "quota", "switch"} : Hold(e, gate)
               \/ Approve(e) \/ ApproveLocal(e) \/ Fail(e) \/ Dispatch(e) \/ StartLocal(e)
      BY <3>1, <3>2 DEF Hold, Approve, ApproveLocal, Approved, Fail, Dispatch, StartLocal
    <3>3. CASE FinishLocal(e)
      BY <2>2, <3>3, OthersRows DEF FinishLocal, CompleteWithResult
    <3>4. CASE Release(e) \/ HandOff(e)
      BY <3>4 DEF Release, ReleaseKey, HandOff, UpsertSession
    <3>5. CASE \/ Analyse(e) \/ Pass(e) \/ StopRoute(e) \/ Ask(e) \/ LocalDown(e) \/ Deny(e)
               \/ Unanswered(e) \/ NoRoute(e) \/ LocalFails(e)
      BY <3>5 DEF storeVars, Analyse, Pass, StopRoute, Ask, LocalDown, Deny, Unanswered, NoRoute,
                  LocalFails
    <3> QED BY <1>4, <3>2, <3>3, <3>4, <3>5 DEF ExecStep
  <2> QED BY <2>2, <2>3, <2>4 DEF AtWork, HasStatus, TaskOf
<1> QED BY <1>2, <1>3, <1>4

(* Nor does anybody else, nor the listener with a message it reads now.     *)
LEMMA OutsideLeavesOver ==
  ASSUME TypedStore, Outside, NEW t \in Task, HasStatus(t, Over),
         lifeAt = NoMsg \/ lifeAt.task # t
  PROVE  HasStatus(t, Over)' /\ (lifeAt' = NoMsg \/ lifeAt'.task # t)
<1> USE DEF TypedStore, DispTypeOK
<1>1. ASSUME NEW m \in bus, Acked(m) \/ Stopped(m) \/ LifeRead(m) \/ TakeWork(m) \/ Lose(m)
      PROVE  HasStatus(t, Over)' /\ (lifeAt' = NoMsg \/ lifeAt'.task # t)
  <2>1. CASE Acked(m)
    BY <2>1, MessageFacts, CallerLeavesOver DEF Acked, kernelVars, storeVars, HasStatus
  <2>2. CASE Stopped(m)
    BY <2>2, MessageFacts, CallerLeavesOver DEF Stopped, kernelVars, storeVars, HasStatus
  <2>3. CASE LifeRead(m)
    <3>1. Applies(m) => m.task # t BY DEF Applies, HasStatus, Finishable, Over
    <3> QED BY <2>3, <3>1 DEF LifeRead, storeVars, HasStatus
  <2> QED BY <1>1, <2>1, <2>2, <2>3 DEF TakeWork, Lose, kernelVars, storeVars, HasStatus
<1>2. CASE LifeWrite
  <2>1. lifeAt.task \in Task /\ lifeAt.task # t
    BY <1>2, DoneFacts DEF LifeWrite, BusTypeOK
  <2> QED BY <1>2, <2>1, OthersRows DEF LifeWrite, CompleteWithResult, HasStatus
<1>3. ASSUME NEW w \in working, WorkerStep(w)
      PROVE  HasStatus(t, Over)' /\ UNCHANGED lifeAt
  BY <1>3 DEF WorkerStep, FinishWork, WorkerDies, kernelVars, storeVars, HasStatus
<1>4. ASSUME NEW r \in Requests, Publish(r) \/ BridgeCall(r)
      PROVE  HasStatus(t, Over)' /\ UNCHANGED lifeAt
  BY <1>4, AdmitLeavesOver DEF Publish, BridgeCall, kernelVars, storeVars, HasStatus
<1>5. ASSUME NEW u \in Task, Cancel(u) \/ Background(u) \/ Wait(u)
      PROVE  HasStatus(t, Over)' /\ UNCHANGED lifeAt
  <2>1. CASE Cancel(u)
    BY <2>1, CallerLeavesOver DEF Cancel, kernelVars, storeVars, HasStatus
  <2> QED BY <1>5, <2>1, CallerLeavesOver DEF Background, Wait, kernelVars
<1>6. ASSUME NEW u \in Task, NEW s \in McpSession, NEW st \in {"COMPLETED", "FAILED"},
             Yield(u, s, st)
      PROVE  HasStatus(t, Over)' /\ UNCHANGED lifeAt
  BY <1>6, CallerLeavesOver DEF Yield, kernelVars
<1>7. ASSUME NEW s \in McpSession, Connect(s) \/ Disconnect(s)
      PROVE  HasStatus(t, Over)' /\ UNCHANGED lifeAt
  BY <1>7 DEF Connect, Disconnect, UpsertSession, MarkDisconnected, kernelVars, HasStatus
<1>8. CASE Watchdog
  <2>1. UNCHANGED lifeAt
    BY <1>8 DEF Watchdog, Silence, Abandon, Expire, Gc, kernelVars
  <2> QED BY <1>8, <2>1, SweepLeavesOver
<1> QED BY <1>1, <1>2, <1>3, <1>4, <1>5, <1>6, <1>7, <1>8 DEF Outside, McpStep

(* Every step leaves a task over that is over and left alone.              *)
LEMMA StepLeavesOver ==
  ASSUME TypedStore, [DispNext]_vars, NEW t \in Task, HasStatus(t, Over), LeftAlone(t)
  PROVE  (HasStatus(t, Over) /\ LeftAlone(t))'
<1> USE DEF TypedStore
<1> DEFINE Quiet == lifeAt' = NoMsg \/ lifeAt'.task # t
<1>1. CASE UNCHANGED vars
  BY <1>1 DEF vars, HasStatus, LeftAlone, AtWork, TaskOf
<1>2. ASSUME NEW e \in Executor, ExecStep(e) PROVE (HasStatus(t, Over) /\ LeftAlone(t))'
  <2>1. HasStatus(t, Over)' /\ ~AtWork(e, t)' /\ UNCHANGED lifeAt
    BY <1>2, ExecStepLeavesOver DEF LeftAlone
  <2>2. \A x \in Executor \ {e} : ~AtWork(x, t)'
    BY <1>2, OthersKeep DEF LeftAlone, AtWork, TaskOf
  <2> QED BY <2>1, <2>2 DEF LeftAlone
<1>3. CASE Outside
  BY <1>3, OutsideLeavesOver, OutsideKeeps DEF LeftAlone, AtWork, TaskOf
<1>4. ASSUME NEW u \in Task, NEW vote \in {"approve", "local", "deny"}, Vote(u, vote)
      PROVE (HasStatus(t, Over) /\ LeftAlone(t))'
  <2>2. UNCHANGED <<storeVars, lifeAt>> BY <1>4 DEF Vote
  <2>3. \A x \in Executor : exec'[x].pc = exec[x].pc /\ exec'[x].req = exec[x].req
    <3> DEFINE y == pending[u]
    <3>1. /\ exec' = [exec EXCEPT ![y] = [exec[y] EXCEPT !.chan = vote]] /\ y \in Executor
          /\ exec \in [Executor -> Exec]
      BY <1>4, VoteFacts DEF DispTypeOK, ExecTypeOK
    <3> HIDE DEF y
    <3>2. /\ exec'[y].pc = exec[y].pc /\ exec'[y].req = exec[y].req
          /\ \A x \in Executor \ {y} : exec'[x] = exec[x]
      BY <3>1 DEF Exec
    <3> QED BY <3>1, <3>2
  <2> QED BY <2>2, <2>3 DEF LeftAlone, AtWork, TaskOf, HasStatus, storeVars
<1>5. ASSUME NEW m \in bus, NEW e \in Executor, Receive(e, m)
      PROVE (HasStatus(t, Over) /\ LeftAlone(t))'
  <2> DEFINE new == [Idle EXCEPT !.pc = "admit", !.req = m.req]
  <2>1. exec' = [exec EXCEPT ![e] = new]
    BY <1>5, ReceiveFacts, Zenon
  <2>4. exec \in [Executor -> Exec]
    BY DEF DispTypeOK, ExecTypeOK
  <2>2. UNCHANGED <<storeVars, lifeAt>> BY <1>5 DEF Receive
  <2>3. new.pc = "admit" BY DEF Idle
  <2> HIDE DEF new
  <2> QED BY <2>1, <2>2, <2>3, <2>4 DEF LeftAlone, AtWork, TaskOf, HasStatus, storeVars
<1>6. CASE Restart
  BY <1>6, IdleTyped DEF Restart, LeftAlone, AtWork, HasStatus, storeVars, Idle
<1> QED BY <1>1, <1>2, <1>3, <1>4, <1>5, <1>6, DispCases

(* Once a task is over and nobody is at it, nothing that comes late reopens *)
(* its row or takes it up again.                                           *)
THEOREM OverStaysOver == DispSpec => OverForGood
<1>1. TypedStore /\ [DispNext]_vars =>
        [\A t \in Task : HasStatus(t, Over) /\ LeftAlone(t) => (HasStatus(t, Over) /\ LeftAlone(t))']_vars
  BY StepLeavesOver
<1> QED BY TypedStoreHolds, <1>1, PTL DEF DispSpec, OverForGood
=============================================================================
