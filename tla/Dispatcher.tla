------------------------------ MODULE Dispatcher ------------------------------
(***************************************************************************)
(* The kernel dispatcher (src-tauri/src/kernel/dispatcher.rs) around the   *)
(* task store: the tasks spawned for received work orders, the routing     *)
(* gates and their approvals, the listeners of the bus, the silence        *)
(* watchdog, and what workers and MCP calls do to the same rows meanwhile. *)
(*                                                                         *)
(* A step does at most one store operation (the store locks for each one), *)
(* so every await and every unlock between two of them is an interleaving  *)
(* point.  The bus is core NATS: messages may be lost and reordered; a     *)
(* client may publish its own work order again.                            *)
(***************************************************************************)
EXTENDS A2AStore

CONSTANTS
  Executor, NoExecutor,  \* tokio tasks running handle_nats_message
  NoRequest, NoMsg,
  BridgeRequests,        \* the requests admitted by lounge_call_agent
  Source,                \* source_agent of each request
  Kernel, Lmr,           \* the kernel itself and the local fallback agent
  Workers,               \* agents with an entry in the worker registry
  OrchestratedBy,        \* the session row orchestrated:<bot> of each worker
  McpSession,            \* the sessions of connected MCP clients
  WorkerResults,         \* whether worker messages carry a result: {FALSE} for
                         \* workers/bot_template.py
  Lossy,                 \* the bus loses messages
  MaxSends,              \* bound: how often a client publishes a request
  MaxRestarts            \* bound: how often the kernel process dies

ASSUME DispatcherConstants ==
  /\ NoExecutor \notin Executor /\ NoRequest \notin Requests
  /\ BridgeRequests \subseteq Requests
  /\ McpSession \subseteq Session
  /\ \A r \in BridgeRequests : r.session \in McpSession
  /\ {Kernel, Lmr} \subseteq Agent /\ Workers \subseteq Agent \ {Kernel, Lmr}
  /\ Source \in [Requests -> Agent]
  /\ OrchestratedBy \in [Workers -> Session]
  /\ WorkerResults \subseteq BOOLEAN /\ Lossy \in BOOLEAN
  /\ MaxSends \in Nat /\ MaxRestarts \in Nat

VARIABLES
  exec,     \* what each executor is doing
  pending,  \* Dispatcher.pending: the executor whose sender is stored per task
  lifeAt,   \* the message the lifecycle listener has checked and not yet applied
  bus,      \* published messages not yet delivered
  working,  \* tasks that workers are on, as [task, agent]
  sends,    \* how often each request was published
  restarts

kernelVars == <<exec, pending, lifeAt>>
busVars == <<bus, working>>
vars == <<rows, keys, sessions, exec, pending, lifeAt, bus, working, sends, restarts>>

-----------------------------------------------------------------------------
(* Messages and executors.                                                 *)

RequestMsg(r) == [type |-> "request", req |-> r]
WorkMsg(t, a) == [type |-> "work", task |-> t, to |-> a]
AckMsg(t, a) == [type |-> "ack", task |-> t, from |-> a]
StopMsg(t, s) == [type |-> "stop", task |-> t, session |-> s]
DoneMsg(t, failed, result, a) ==
  [type |-> "done", task |-> t, failed |-> failed, result |-> result, from |-> a]
Msgs(type) == {m \in bus : m.type = type}
Send(M) == bus' = bus \cup M
Consume(m) == bus' = bus \ {m}

Idle == [pc |-> "idle", req |-> NoRequest, target |-> NoAgent, gate |-> "none",
         chan |-> "none", rounds |-> 0]
TaskOf(e) == exec[e].req.id
At(e, pc) == exec[e].pc = pc
Goto(e, pc) == exec' = [exec EXCEPT ![e].pc = pc]

(* Err leads to fail_and_release_idempotency: once in execute_task, and once*)
(* before that in await_approval when no approval was given.               *)
GiveUp(e, rounds) == exec' = [exec EXCEPT ![e].pc = "fail", ![e].rounds = rounds]

-----------------------------------------------------------------------------
(* Receiving and admitting a work order.                                   *)

Receive(e, m) ==
  /\ At(e, "idle") /\ m \in Msgs("request")
  /\ Consume(m)
  /\ exec' = [exec EXCEPT ![e] = [Idle EXCEPT !.pc = "admit", !.req = m.req]]
  /\ UNCHANGED <<storeVars, pending, lifeAt, working, sends, restarts>>

(* Halted, or not a task: nothing is admitted, TASK_FAILED is published.    *)
Refuse(e) ==
  /\ At(e, "admit")
  /\ Goto(e, "report")
  /\ UNCHANGED <<storeVars, pending, lifeAt, busVars, sends, restarts>>

(* Mutant of Continues: a task that is over is taken up again.              *)
ContinuesAny(r) == rows[r.id].session # NoSession /\ rows[r.id].session = r.session

(* The row may have been admitted by the bridge: same id and same session.  *)
(* Execution then goes on with the row, not with the message.              *)
Continues(r) ==
  /\ rows[r.id].session # NoSession /\ rows[r.id].session = r.session
  /\ ~HasStatus(r.id, {"COMPLETED", "FAILED", "CANCELLED", "EXPIRED"})
AfterAdmission(r) ==
  IF IsAccepted(r) \/ (IsConflict(r) /\ Continues(r)) THEN "analyse"
  ELSE IF IsReplay(r) THEN "idle" ELSE "report"

AdmitInbound(e) ==
  LET r == exec[e].req
      pc == AfterAdmission(r)
      asked == IF IsConflict(r) THEN rows[r.id].target ELSE r.target
      target == IF asked = NoAgent THEN Kernel ELSE asked
  IN /\ At(e, "admit")
     /\ Admit(r)
     /\ exec' = [exec EXCEPT ![e] =
          IF pc = "idle" THEN Idle ELSE [@ EXCEPT !.pc = pc, !.target = target]]
     /\ UNCHANGED <<pending, lifeAt, busVars, sends, restarts>>

-----------------------------------------------------------------------------
(* Routing gates.  A gate lets the task pass, holds it for the user's vote, *)
(* or stops it.                                                            *)

(* The analysis may retarget the task, but not an explicit target to the    *)
(* kernel; or it fails.                                                    *)
Analyse(e) ==
  /\ At(e, "analyse")
  /\ \/ \E a \in Agent :
          /\ a = Kernel => exec[e].target = Kernel
          /\ exec' = [exec EXCEPT ![e].pc = "source", ![e].target = a]
     \/ GiveUp(e, 1)
  /\ UNCHANGED <<storeVars, pending, lifeAt, busVars, sends, restarts>>

NeedsSwitchApproval(e) == exec[e].target \notin {Kernel, Source[exec[e].req]}
Pass(e) ==
  /\ \/ At(e, "source") /\ Goto(e, "security")
     \/ At(e, "security") /\ Goto(e, "route")
     \/ At(e, "route") /\ ~NeedsSwitchApproval(e) /\ Goto(e, "go")
  /\ UNCHANGED <<storeVars, pending, lifeAt, busVars, sends, restarts>>

(* The quota policy may stop the task.                                     *)
StopRoute(e) ==
  /\ At(e, "route")
  /\ GiveUp(e, 1)
  /\ UNCHANGED <<storeVars, pending, lifeAt, busVars, sends, restarts>>

Gates(e) ==
  CASE At(e, "source") -> {"source"}
    [] At(e, "security") -> {"security"}
    [] At(e, "route") -> {"quota"} \cup (IF NeedsSwitchApproval(e) THEN {"switch"} ELSE {})
    [] OTHER -> {}

(* Dropping the sender stored for t closes the channel of whoever waits.   *)
Dropped(t) == [x \in Executor |->
  IF pending[t] = x THEN [exec[x] EXCEPT !.chan = "closed"] ELSE exec[x]]

(* await_approval: the status is written, then the sender is stored.       *)
Hold(e, gate) ==
  /\ gate \in Gates(e)
  /\ SetStatus(TaskOf(e), "PENDING_APPROVAL")
  /\ exec' = [exec EXCEPT ![e].pc = "ask", ![e].gate = gate]
  /\ UNCHANGED <<pending, lifeAt, busVars, sends, restarts>>

Ask(e) ==
  /\ At(e, "ask")
  /\ pending' = [pending EXCEPT ![TaskOf(e)] = e]
  /\ exec' = [Dropped(TaskOf(e)) EXCEPT ![e] = [@ EXCEPT !.pc = "waiting", !.chan = "open"]]
  /\ UNCHANGED <<storeVars, lifeAt, busVars, sends, restarts>>

(* resolve_vote, from the user interface.                                  *)
Vote(t, vote) ==
  /\ pending[t] # NoExecutor
  /\ pending' = [pending EXCEPT ![t] = NoExecutor]
  /\ exec' = [exec EXCEPT ![pending[t]].chan = vote]
  /\ UNCHANGED <<storeVars, lifeAt, busVars, sends, restarts>>

Voted(e, vote) == At(e, "waiting") /\ exec[e].chan = vote

(* The source gate is followed by the other gates, every other approval by  *)
(* the hand-over.                                                          *)
Approved(e, target) ==
  /\ SetStatus(TaskOf(e), "QUEUED")
  /\ exec' = [exec EXCEPT ![e].pc = IF exec[e].gate = "source" THEN "security" ELSE "go",
                          ![e].target = target, ![e].chan = "none"]
  /\ UNCHANGED <<pending, lifeAt, busVars, sends, restarts>>

(* Mutant of ToAgent: a security approval keeps the target.                 *)
ToAgentKept(e) == IF exec[e].gate = "quota" THEN Lmr ELSE exec[e].target

(* The to_agent of the approval request.                                   *)
ToAgent(e) == CASE exec[e].gate = "security" -> Kernel
                [] exec[e].gate = "quota" -> Lmr
                [] OTHER -> exec[e].target
Approve(e) == Voted(e, "approve") /\ Approved(e, ToAgent(e))
ApproveLocal(e) == Voted(e, "local") /\ Approved(e, Lmr)

(* The local endpoint is down.                                             *)
LocalDown(e) ==
  /\ Voted(e, "local")
  /\ GiveUp(e, 1)
  /\ UNCHANGED <<storeVars, pending, lifeAt, busVars, sends, restarts>>

Deny(e) ==
  /\ Voted(e, "deny")
  /\ GiveUp(e, 2)
  /\ UNCHANGED <<storeVars, pending, lifeAt, busVars, sends, restarts>>

(* Mutants of Unanswered: the entry stays in the pending map; the task is   *)
(* not failed; there is no timeout.                                        *)
UnansweredLeavesEntry(e) ==
  /\ At(e, "waiting") /\ exec[e].chan \in {"open", "closed"}
  /\ GiveUp(e, 2)
  /\ UNCHANGED <<storeVars, pending, lifeAt, busVars, sends, restarts>>
UnansweredNotFailed(e) ==
  /\ At(e, "waiting") /\ exec[e].chan \in {"open", "closed"}
  /\ pending' = [pending EXCEPT ![TaskOf(e)] = NoExecutor]
  /\ exec' = [Dropped(TaskOf(e)) EXCEPT ![e] = Idle]
  /\ UNCHANGED <<storeVars, lifeAt, busVars, sends, restarts>>
NoTimeout(e) ==
  /\ At(e, "waiting") /\ exec[e].chan = "closed"
  /\ GiveUp(e, 2)
  /\ UNCHANGED <<storeVars, pending, lifeAt, busVars, sends, restarts>>

(* Timeout or a closed channel: the entry of the task is removed from the   *)
(* pending map, whoever put it there.                                      *)
Unanswered(e) ==
  /\ At(e, "waiting") /\ exec[e].chan \in {"open", "closed"}
  /\ pending' = [pending EXCEPT ![TaskOf(e)] = NoExecutor]
  /\ exec' = [Dropped(TaskOf(e)) EXCEPT
       ![e] = [@ EXCEPT !.pc = "fail", !.rounds = 2, !.chan = "closed"]]
  /\ UNCHANGED <<storeVars, lifeAt, busVars, sends, restarts>>

-----------------------------------------------------------------------------
(* Failing: FAILED is written, then the key is released.                   *)

Fail(e) ==
  /\ At(e, "fail")
  /\ SetStatus(TaskOf(e), "FAILED")
  /\ Goto(e, "release")
  /\ UNCHANGED <<pending, lifeAt, busVars, sends, restarts>>

SecurityDenied(e) == exec[e].gate = "security" /\ exec[e].chan = "deny"
CancelMsgs(e) ==
  IF SecurityDenied(e) THEN {DoneMsg(TaskOf(e), TRUE, FALSE, NoAgent)} ELSE {}

Release(e) ==
  /\ At(e, "release")
  /\ ReleaseKey(TaskOf(e))
  /\ \/ /\ exec[e].rounds = 2
        /\ GiveUp(e, 1)
        /\ Send(CancelMsgs(e))
     \/ /\ exec[e].rounds = 1
        /\ exec' = [exec EXCEPT ![e] =
             IF SecurityDenied(e) THEN Idle ELSE [@ EXCEPT !.pc = "report"]]
        /\ UNCHANGED bus
  /\ UNCHANGED <<pending, lifeAt, working, sends, restarts>>

Report(e) ==
  /\ At(e, "report")
  /\ Send({DoneMsg(TaskOf(e), TRUE, FALSE, exec[e].req.target)})
  /\ exec' = [exec EXCEPT ![e] = Idle]
  /\ UNCHANGED <<storeVars, pending, lifeAt, working, sends, restarts>>

-----------------------------------------------------------------------------
(* Handing over to a worker, or executing locally.                         *)

(* The worker is offline, or TASK_ASSIGNED cannot be published.            *)
NoRoute(e) ==
  /\ At(e, "go")
  /\ GiveUp(e, 1)
  /\ UNCHANGED <<storeVars, pending, lifeAt, busVars, sends, restarts>>

Dispatch(e) ==
  /\ At(e, "go") /\ exec[e].target \in Workers
  /\ SetStatus(TaskOf(e), "DISPATCHED")
  /\ Goto(e, "handoff")
  /\ UNCHANGED <<pending, lifeAt, busVars, sends, restarts>>

HandOff(e) ==
  /\ At(e, "handoff")
  /\ UpsertSession(OrchestratedBy[exec[e].target])
  /\ \/ /\ Send({WorkMsg(TaskOf(e), exec[e].target)})
        /\ exec' = [exec EXCEPT ![e] = Idle]
     \/ /\ GiveUp(e, 1)
        /\ UNCHANGED bus
  /\ UNCHANGED <<pending, lifeAt, working, sends, restarts>>

StartLocal(e) ==
  /\ At(e, "go") /\ exec[e].target \notin Workers
  /\ SetStatus(TaskOf(e), "EXECUTING")
  /\ Goto(e, "local")
  /\ UNCHANGED <<pending, lifeAt, busVars, sends, restarts>>

(* The experience cannot be written.                                       *)
LocalFails(e) ==
  /\ At(e, "local")
  /\ GiveUp(e, 1)
  /\ UNCHANGED <<storeVars, pending, lifeAt, busVars, sends, restarts>>

FinishLocal(e) ==
  /\ At(e, "local")
  /\ CompleteWithResult(TaskOf(e), "COMPLETED", TRUE, FALSE)
  /\ Goto(e, "announce")
  /\ UNCHANGED <<pending, lifeAt, busVars, sends, restarts>>

Announce(e) ==
  /\ At(e, "announce")
  /\ Send({DoneMsg(TaskOf(e), FALSE, FALSE, exec[e].req.target)})
  /\ exec' = [exec EXCEPT ![e] = Idle]
  /\ UNCHANGED <<storeVars, pending, lifeAt, working, sends, restarts>>

-----------------------------------------------------------------------------
(* The listeners of the bus.  The lifecycle listener handles one message at *)
(* a time, and reads the row before it writes it.                          *)

Acked(m) ==
  /\ m \in Msgs("ack")
  /\ Consume(m)
  /\ \/ MarkAcked(m.task, m.from)
     \/ ~MayAck(m.task, m.from) /\ UNCHANGED storeVars
  /\ UNCHANGED <<kernelVars, working, sends, restarts>>

Stopped(m) ==
  /\ m \in Msgs("stop")
  /\ Consume(m)
  /\ \/ CancelTask(m.task, m.session)
     \/ ~MayCancel(m.task, m.session) /\ UNCHANGED storeVars
  /\ UNCHANGED <<kernelVars, working, sends, restarts>>

(* apply_bus_terminal, up to the last read of the row.                     *)
Finishable == {"DISPATCHED", "EXECUTING", "QUEUED", "RECOVERY_PENDING", "NEEDS_HUMAN",
               "WAIT_TIMEOUT_REACHED"}
Applies(m) ==
  /\ HasStatus(m.task, Finishable)
  /\ rows[m.task].target = NoAgent \/ m.from \in {NoAgent, rows[m.task].target}

LifeRead(m) ==
  /\ lifeAt = NoMsg /\ m \in Msgs("done")
  /\ Consume(m)
  /\ lifeAt' = IF Applies(m) THEN m ELSE NoMsg
  /\ UNCHANGED <<storeVars, exec, pending, working, sends, restarts>>

(* Mutant of LifeWrite: a failure keeps the idempotency key.                *)
LifeWriteKeepsKey ==
  /\ lifeAt # NoMsg
  /\ SetStatus(lifeAt.task, IF lifeAt.failed THEN "FAILED" ELSE "COMPLETED")
  /\ lifeAt' = NoMsg
  /\ UNCHANGED <<exec, pending, busVars, sends, restarts>>

LifeWrite ==
  /\ lifeAt # NoMsg
  /\ CompleteWithResult(lifeAt.task, IF lifeAt.failed THEN "FAILED" ELSE "COMPLETED",
                        lifeAt.result, lifeAt.failed)
  /\ lifeAt' = NoMsg
  /\ UNCHANGED <<exec, pending, busVars, sends, restarts>>

-----------------------------------------------------------------------------
(* Workers (workers/bot_template.py) and the bus.                          *)

TakeWork(m) ==
  /\ m \in Msgs("work")
  /\ bus' = (bus \ {m}) \cup {AckMsg(m.task, m.to)}
  /\ working' = working \cup {[task |-> m.task, agent |-> m.to]}
  /\ UNCHANGED <<storeVars, kernelVars, sends, restarts>>

FinishWork(w, failed, result) ==
  /\ w \in working
  /\ working' = working \ {w}
  /\ Send({DoneMsg(w.task, failed, result, w.agent)})
  /\ UNCHANGED <<storeVars, kernelVars, sends, restarts>>

WorkerDies(w) ==
  /\ w \in working
  /\ working' = working \ {w}
  /\ UNCHANGED <<storeVars, kernelVars, bus, sends, restarts>>

Lose(m) ==
  /\ Lossy /\ m \in bus
  /\ Consume(m)
  /\ UNCHANGED <<storeVars, kernelVars, working, sends, restarts>>

-----------------------------------------------------------------------------
(* Clients: on the bus, and through the MCP bridge.                        *)

Publish(r) ==
  /\ r \notin BridgeRequests /\ sends[r] < MaxSends
  /\ Send({RequestMsg(r)})
  /\ sends' = [sends EXCEPT ![r] = @ + 1]
  /\ UNCHANGED <<storeVars, kernelVars, working, restarts>>

(* lounge_call_agent admits the task under a fresh id, then publishes it;   *)
(* it publishes the fresh id also when it replays a task that is still open.*)
BridgeCall(r) ==
  /\ r \in BridgeRequests /\ sends[r] = 0
  /\ Admit(r)
  /\ \/ /\ \/ IsAccepted(r)
           \/ IsReplay(r) /\ ~HasStatus(keys[r.key], Terminal)
        /\ Send({RequestMsg(r)})
     \/ UNCHANGED bus
  /\ sends' = [sends EXCEPT ![r] = 1]
  /\ UNCHANGED <<kernelVars, working, restarts>>

(* The caller stops the task, or its session ends during the call; the stop *)
(* is published afterwards, also when the task was closed already.         *)
Cancel(t) ==
  /\ rows[t].session \in McpSession
  /\ \/ CancelTask(t, rows[t].session)
     \/ ~MayCancel(t, rows[t].session) /\ UNCHANGED storeVars
  /\ Send({StopMsg(t, rows[t].session)}) \/ UNCHANGED bus
  /\ UNCHANGED <<kernelVars, working, sends, restarts>>

(* The wait of a call runs out, and lounge_wait_task.                      *)
Background(t) ==
  /\ rows[t].session \in McpSession
  /\ TryMarkWaitTimeout(t)
  /\ UNCHANGED <<kernelVars, busVars, sends, restarts>>

Wait(t) ==
  /\ rows[t].session \in McpSession
  /\ TouchLastWait(t)
  /\ UNCHANGED <<kernelVars, busVars, sends, restarts>>

(* lounge_yield_result of an MCP session.                                  *)
Yield(t, s, st) ==
  /\ YieldResult(t, s, st)
  /\ Send({DoneMsg(t, st = "FAILED", TRUE, NoAgent)}) \/ UNCHANGED bus
  /\ UNCHANGED <<kernelVars, working, sends, restarts>>

Connect(s) == UpsertSession(s) /\ UNCHANGED <<kernelVars, busVars, sends, restarts>>
Disconnect(s) == MarkDisconnected(s) /\ UNCHANGED <<kernelVars, busVars, sends, restarts>>

-----------------------------------------------------------------------------
(* One round of the silence watchdog does the four sweeps in this order;    *)
(* each may find nothing, so any one of them may come next.                *)

Silence(S) == MarkSilentNeedsHuman(S) /\ UNCHANGED <<kernelVars, busVars, sends, restarts>>
Abandon(S) == AbandonMustDeliver(S) /\ UNCHANGED <<kernelVars, busVars, sends, restarts>>
Expire(S) ==
  /\ ExpireOrphans(S)
  /\ Send({StopMsg(t, rows[t].session) :
             t \in {x \in S \cap IncompleteOrphans : rows[x].session # NoSession}})
  /\ UNCHANGED <<kernelVars, working, sends, restarts>>
Gc(K) == GcKeys(K) /\ UNCHANGED <<kernelVars, busVars, sends, restarts>>

(* The kernel process dies and comes back: the spawned tasks, the pending   *)
(* map and the listener's message are gone, the store is not.              *)
Restart ==
  /\ restarts < MaxRestarts
  /\ restarts' = restarts + 1
  /\ exec' = [e \in Executor |-> Idle]
  /\ pending' = [t \in Task |-> NoExecutor]
  /\ lifeAt' = NoMsg
  /\ UNCHANGED <<storeVars, busVars, sends>>

-----------------------------------------------------------------------------
DispInit ==
  /\ StoreInit
  /\ exec = [e \in Executor |-> Idle]
  /\ pending = [t \in Task |-> NoExecutor]
  /\ lifeAt = NoMsg
  /\ bus = {} /\ working = {}
  /\ sends = [r \in Requests |-> 0]
  /\ restarts = 0

(* What an executor does by itself once it has a work order; an approval    *)
(* that is not given times out.                                            *)
ExecStep(e) ==
  \/ Refuse(e) \/ AdmitInbound(e)
  \/ Analyse(e) \/ Pass(e) \/ StopRoute(e)
  \/ \E gate \in {"source", "security", "quota", "switch"} : Hold(e, gate)
  \/ Ask(e) \/ Approve(e) \/ ApproveLocal(e) \/ LocalDown(e) \/ Deny(e) \/ Unanswered(e)
  \/ Fail(e) \/ Release(e) \/ Report(e)
  \/ NoRoute(e) \/ Dispatch(e) \/ HandOff(e)
  \/ StartLocal(e) \/ LocalFails(e) \/ FinishLocal(e) \/ Announce(e)

BusStep(m) ==
  \/ \E e \in Executor : Receive(e, m)
  \/ Acked(m) \/ Stopped(m) \/ LifeRead(m)
  \/ TakeWork(m) \/ Lose(m)

WorkerStep(w) ==
  \/ \E failed \in BOOLEAN, result \in WorkerResults : FinishWork(w, failed, result)
  \/ WorkerDies(w)

McpStep ==
  \/ \E t \in Task : Cancel(t) \/ Background(t) \/ Wait(t)
  \/ \E t \in Task, s \in McpSession, st \in {"COMPLETED", "FAILED"} : Yield(t, s, st)
  \/ \E s \in McpSession : Connect(s) \/ Disconnect(s)

Watchdog ==
  \/ \E S \in SUBSET Silent : Silence(S)
  \/ \E S \in SUBSET Undelivered : Abandon(S)
  \/ \E S \in SUBSET (ResultOrphans \cup IncompleteOrphans) : Expire(S)
  \/ \E K \in SUBSET Key : Gc(K)

DispNext ==
  \/ \E e \in Executor : ExecStep(e)
  \/ \E t \in Task, vote \in {"approve", "local", "deny"} : Vote(t, vote)
  \/ \E m \in bus : BusStep(m)
  \/ LifeWrite
  \/ \E w \in working : WorkerStep(w)
  \/ \E r \in Requests : Publish(r) \/ BridgeCall(r)
  \/ McpStep
  \/ Watchdog
  \/ Restart

DispSpec == DispInit /\ [][DispNext]_vars

(* Fairness: tokio runs every spawned task, an approval ends after its      *)
(* timeout at the latest, the listeners and the watchdog loop for ever.  A  *)
(* row grows old once its caller stops polling, unless it is DISPATCHED:    *)
(* the heartbeats of its worker refresh those, so a worker that lives takes *)
(* its work and its ack arrives.  Nothing else is assumed of users, clients *)
(* and workers.                                                            *)
Aged(t) == ~HasStatus(t, {"DISPATCHED"}) /\ Silence({t})
Fairness ==
  /\ \A e \in Executor : WF_vars(ExecStep(e))
  /\ WF_vars(LifeWrite)
  /\ \A t \in Task : WF_vars(Aged(t))
  /\ WF_vars(\E m \in bus : TakeWork(m))
  /\ WF_vars(\E m \in bus : Acked(m))
FairDispSpec == DispSpec /\ Fairness

-----------------------------------------------------------------------------
(* Properties.                                                             *)

PC == {"idle", "admit", "analyse", "source", "security", "route", "ask", "waiting", "fail",
       "release", "report", "go", "handoff", "local", "announce"}
Gate == {"none", "source", "security", "quota", "switch"}
Chan == {"none", "open", "closed", "approve", "local", "deny"}
Exec == [pc : PC, req : Requests \cup {NoRequest}, target : Agent \cup {NoAgent},
         gate : Gate, chan : Chan, rounds : 0..2]
Done == [type : {"done"}, task : Task, failed : BOOLEAN, result : BOOLEAN,
         from : Agent \cup {NoAgent}]
Message == [type : {"request"}, req : Requests] \cup [type : {"work"}, task : Task, to : Workers]
  \cup [type : {"ack"}, task : Task, from : Workers]
  \cup [type : {"stop"}, task : Task, session : Session] \cup Done

(* The store is well-typed, and so are executors, maps and messages; an     *)
(* executor that is busy has a work order, one that hands over a worker.   *)
ExecTypeOK ==
  /\ exec \in [Executor -> Exec]
  /\ \A e \in Executor : ~At(e, "idle") => exec[e].req \in Requests
  /\ \A e \in Executor : At(e, "handoff") => exec[e].target \in Workers
BusTypeOK ==
  /\ lifeAt \in Done \cup {NoMsg}
  /\ bus \subseteq Message
  /\ working \subseteq [task : Task, agent : Workers]
DispTypeOK ==
  /\ TypeOK /\ ExecTypeOK /\ BusTypeOK
  /\ pending \in [Task -> Executor \cup {NoExecutor}]
  /\ sends \in [Requests -> Nat] /\ restarts \in Nat

(* The pending map holds exactly the senders of the executors that wait    *)
(* with an open channel: a vote reaches the executor that asked, and an     *)
(* executor whose entry another one replaced is told so.                   *)
Waits(e, t) == At(e, "waiting") /\ TaskOf(e) = t /\ exec[e].chan = "open"
PendingMatchesWaiter ==
  \A t \in Task, e \in Executor : pending[t] = e <=> Waits(e, t)

(* While the kernel has not been restarted, a row stays PENDING_APPROVAL    *)
(* only as long as some executor is going to write another status, for the *)
(* silence watchdog leaves such rows alone.                                *)
ApprovalOwned == \A t \in Task :
  restarts = 0 /\ HasStatus(t, {"PENDING_APPROVAL"})
    => \E e \in Executor : exec[e].pc \in {"ask", "waiting", "fail"} /\ TaskOf(e) = t

HoldsKey(t) == rows[t].key # NoKey /\ keys[rows[t].key] = t

(* "Denied, timed out, FAILED: the key must not burn": a failed task holds  *)
(* its idempotency key only while an executor is about to release it.  Not *)
(* so for must_deliver tasks that the watchdog abandoned, nor after a crash.*)
KeyNotBurned == \A t \in Task :
  restarts = 0 /\ HasStatus(t, {"FAILED"}) /\ ~rows[t].must /\ HoldsKey(t)
    => \E e \in Executor : At(e, "release") /\ TaskOf(e) = t

(* There is no automatic switch between agents: work goes to a worker other *)
(* than the one that asked for it only after the user approved that switch. *)
SwitchApproved == \A e \in Executor :
  exec[e].pc \in {"go", "handoff"} /\ exec[e].target \in Workers \ {Source[exec[e].req]}
    => exec[e].gate = "switch"

(* What is over stays over: a row that has an outcome, while no executor is *)
(* past its admission and the listener has no message of it read but not    *)
(* applied, is neither written back to an open status nor taken up again,   *)
(* whatever comes late: a second order, a bus result, an ack, a yield, a    *)
(* stop, the threshold of a call, a sweep, a restart.  (Executors and the   *)
(* listener that are at it do overwrite it: see CancelledStays.)            *)
Over == {"COMPLETED", "FAILED", "CANCELLED", "EXPIRED"}
AtWork(e, t) == exec[e].pc \notin {"idle", "admit", "report", "announce"} /\ TaskOf(e) = t
LeftAlone(t) == (\A e \in Executor : ~AtWork(e, t)) /\ (lifeAt = NoMsg \/ lifeAt.task # t)
OverForGood == [][\A t \in Task :
  HasStatus(t, Over) /\ LeftAlone(t) => (HasStatus(t, Over) /\ LeftAlone(t))']_vars

(* Every work order that was received is dealt with.                       *)
ExecutorsFinish == \A e \in Executor : ~At(e, "idle") ~> At(e, "idle")

(* Without a restart, every admitted task ends in a terminal status or in   *)
(* the background of its caller, and stays there (or moves among these).    *)
Settled(t) == HasStatus(t, Terminal \cup {"WAIT_TIMEOUT_REACHED"})
EventuallySettled == \A t \in Task : Exists(t) ~> [](restarts > 0 \/ Settled(t))

(* A crash of the kernel strands a task nowhere but before an unanswered    *)
(* approval, or DISPATCHED with its work message unsent: what was QUEUED or *)
(* EXECUTING is found silent, as everything is that nobody works on.       *)
CrashStrandsFew == \A t \in Task :
  Exists(t) ~> [](Settled(t) \/ HasStatus(t, {"PENDING_APPROVAL", "DISPATCHED"}))

-----------------------------------------------------------------------------
(* What the repository says and the code does not do.                      *)

(* apply_control_stop: a stop never overrides a terminal status; docs say   *)
(* of lounge_cancel that the task becomes CANCELLED.  A cancelled task      *)
(* therefore would stay cancelled.                                         *)
CancelledStays == [][\A t \in Task :
  HasStatus(t, {"CANCELLED"}) => HasStatus(t, {"CANCELLED"})']_vars

(* admit_inbound: the bridge may have admitted the task before; with the    *)
(* same id and session, execution goes on.                                 *)
BridgeTaskGoesOn == [][\A e \in Executor :
  At(e, "admit") /\ exec[e].req \in BridgeRequests /\ HasStatus(TaskOf(e), {"QUEUED"})
    => exec'[e].pc # "idle"]_vars

(* execute_admitted_task: a fallback or kernel decision must not override   *)
(* the explicit worker target of an MCP task.                              *)
ExplicitWorkerKept == \A e \in Executor :
  At(e, "local") /\ exec[e].req.target \in Workers => exec[e].target # Kernel
=============================================================================
