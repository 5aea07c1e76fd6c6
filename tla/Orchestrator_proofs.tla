-------------------------- MODULE Orchestrator_proofs --------------------------
(***************************************************************************)
(* Proofs about Orchestrator, for every set of calls and whatever they     *)
(* ask for, every limit and any number of steps of the rest of the system. *)
(*                                                                         *)
(* The calls and the rest of the system write the store only through its   *)
(* operations, so what A2AStore_proofs shows of one step holds here; the   *)
(* invariant below adds what a call knows about its task and its channel.  *)
(***************************************************************************)
EXTENDS Orchestrator, A2AStore_proofs

USE ChannelConstants, OrchestratorConstants

(* From its admission, or the start of its wait, to its answer a call has  *)
(* an admitted task.                                                       *)
OnTask == {"publish", "handOver", "poll", "mark", "lost", "touch", "fetch", "empty", "bump", "stop"}
TaskAdmitted == \A c \in Call :
  call[c].pc \in OnTask => TaskOf(c) \in Task /\ Exists(TaskOf(c))

(* A channel that was used is closed, and one that was never opened is     *)
(* unused.                                                                 *)
SignalIsLast == \A c \in Call :
  /\ At(c, "idle") => c \notin inFlight
  /\ c \in inFlight \/ At(c, "idle") => signal[c] = NoCancel

(* Only a call that asks for a task is admitted.                           *)
AsksFirst == \A c \in Call : call[c].pc \in {"open", "peek", "quota", "admit"} => ~Waits(c)

(* A call that goes on to cancel its task was told to, and may.            *)
MayStop(c) ==
  \/ signal[c] = "UserStop"
  \/ signal[c] = "SessionDisconnect" /\ ~Waits(c) /\ ~rows[TaskOf(c)].must
StopJustified == \A c \in Call : At(c, "stop") => MayStop(c)

OrchInv == OrchTypeOK /\ IInv /\ TaskAdmitted /\ AsksFirst /\ SignalIsLast /\ StopJustified

-----------------------------------------------------------------------------
(* What a step may do to the store.                                        *)

(* No task is cancelled by this step.                                      *)
NoneCancelled == \A t \in Task :
  rows'[t].status = "CANCELLED" => rows[t].status = "CANCELLED"

(* The operations that the calls share with others.                        *)
LEMMA QuietOps ==
  ASSUME TypeOK, NEW t \in Task,
         \/ UNCHANGED storeVars
         \/ TryMarkWaitTimeout(t) \/ TouchLastWait(t)
         \/ \E r \in Requests : Admit(r)
  PROVE  [StoreNext]_storeVars /\ NoneCancelled
<1>1. CASE UNCHANGED storeVars
  BY <1>1 DEF storeVars, NoneCancelled
<1>a. rows[t] \in Row BY DEF TypeOK
<1>2. CASE TryMarkWaitTimeout(t)
  <2>1. [StoreNext]_storeVars BY <1>2 DEF StoreNext, TaskOp
  <2>a. [rows[t] EXCEPT !.status = "WAIT_TIMEOUT_REACHED", !.bg = TRUE].status # "CANCELLED"
    BY <1>a DEF Row
  <2>2. \E row : InRow(t, row) /\ row.status # "CANCELLED"
    BY <1>2, <2>a DEF TryMarkWaitTimeout
  <2> QED BY <2>1, <2>2 DEF InRow, NoneCancelled, TypeOK
<1>3. CASE TouchLastWait(t)
  <2>1. [StoreNext]_storeVars BY <1>3 DEF StoreNext, TaskOp
  <2>2. \E row : InRow(t, row) /\ row.status = rows[t].status
    BY <1>3, <1>a DEF TouchLastWait, Row
  <2> QED BY <2>1, <2>2 DEF InRow, NoneCancelled, TypeOK
<1>4. ASSUME NEW r \in Requests, Admit(r) PROVE [StoreNext]_storeVars /\ NoneCancelled
  <2>1. [StoreNext]_storeVars BY <1>4 DEF StoreNext
  <2>2. NoneCancelled
    BY <1>4 DEF Admit, Accept, storeVars, NoneCancelled, TypeOK, NewRow, Request
  <2> QED BY <2>1, <2>2
<1> QED BY <1>1, <1>2, <1>3, <1>4

(* The kernel, the workers, the sessions and the sweeps.                   *)
LEMMA ElsewhereOps ==
  ASSUME TypeOK, Elsewhere
  PROVE  [StoreNext]_storeVars /\ NoneCancelled
<1>1. ASSUME NEW t \in Task, NEW s \in KernelWrites, SetStatus(t, s)
      PROVE  [StoreNext]_storeVars /\ NoneCancelled
  <2>1. s \in KernelStatus /\ s # "CANCELLED" BY DEF KernelStatus
  <2>2. [StoreNext]_storeVars BY <1>1, <2>1 DEF StoreNext, TaskOp
  <2>3. NoneCancelled BY <1>1, <2>1 DEF SetStatus, InRow, NoneCancelled, TypeOK, Row
  <2> QED BY <2>2, <2>3
<1>2. ASSUME NEW t \in Task, NEW s \in {"COMPLETED", "FAILED"}, NEW hasResult \in BOOLEAN,
             CompleteWithResult(t, s, hasResult, s = "FAILED")
      PROVE  [StoreNext]_storeVars /\ NoneCancelled
  <2>1. PICK release \in BOOLEAN : CompleteWithResult(t, s, hasResult, release)
    <3>1. CASE s = "FAILED" BY <1>2, <3>1 DEF CompleteWithResult
    <3>2. CASE s # "FAILED" BY <1>2, <3>2 DEF CompleteWithResult
    <3> QED BY <3>1, <3>2
  <2>2. [StoreNext]_storeVars BY <2>1 DEF StoreNext, TaskOp
  <2>3. rows[t] \in Row BY DEF TypeOK
  <2>4. rows' = rows \/ \E row : InRow(t, row) /\ row.status # "CANCELLED"
    BY <1>2, <2>3 DEF CompleteWithResult, WithResult, Row
  <2>5. NoneCancelled BY <2>4 DEF InRow, NoneCancelled, TypeOK
  <2> QED BY <2>2, <2>5
<1>3. ASSUME NEW t \in Task, NEW s \in Session, NEW st \in {"COMPLETED", "FAILED"},
             YieldResult(t, s, st)
      PROVE  [StoreNext]_storeVars /\ NoneCancelled
  <2>2. [StoreNext]_storeVars BY <1>3 DEF StoreNext, TaskOp
  <2>3. rows[t] \in Row BY DEF TypeOK
  <2>a. [WithResult(rows[t]) EXCEPT !.status = st, !.claimed = s].status # "CANCELLED"
    BY <2>3 DEF WithResult, Row
  <2>4. \E row : InRow(t, row) /\ row.status # "CANCELLED"
    BY <1>3, <2>a DEF YieldResult
  <2>5. NoneCancelled BY <2>4 DEF InRow, NoneCancelled, TypeOK
  <2> QED BY <2>2, <2>5
<1>4. ASSUME NEW s \in Session, UpsertSession(s) \/ MarkDisconnected(s)
      PROVE  [StoreNext]_storeVars /\ NoneCancelled
  <2>1. [StoreNext]_storeVars BY <1>4 DEF StoreNext, SessionOp
  <2>2. UNCHANGED rows BY <1>4 DEF UpsertSession, MarkDisconnected
  <2> QED BY <2>1, <2>2 DEF NoneCancelled
<1>5. ASSUME NEW t \in Task, MarkSilentNeedsHuman({t})
      PROVE  [StoreNext]_storeVars /\ NoneCancelled
  <2>1. {t} \in SUBSET Silent BY <1>5 DEF MarkSilentNeedsHuman
  <2>2. [StoreNext]_storeVars BY <1>5, <2>1 DEF StoreNext, Sweep
  <2>3. NoneCancelled
    BY <1>5 DEF MarkSilentNeedsHuman, SetAll, NoneCancelled, TypeOK, Row
  <2> QED BY <2>2, <2>3
<1>6. ASSUME NEW t \in Task, ExpireOrphans({t})
      PROVE  [StoreNext]_storeVars /\ NoneCancelled
  <2>1. {t} \in SUBSET (ResultOrphans \cup IncompleteOrphans) BY <1>6 DEF ExpireOrphans
  <2>2. [StoreNext]_storeVars BY <1>6, <2>1 DEF StoreNext, Sweep
  <2>3. NoneCancelled
    BY <1>6 DEF ExpireOrphans, SetAll, NoneCancelled, TypeOK, Row
  <2> QED BY <2>2, <2>3
<1>7. ASSUME NEW t \in Task, AbandonMustDeliver({t})
      PROVE  [StoreNext]_storeVars /\ NoneCancelled
  <2>1. {t} \in SUBSET Undelivered BY <1>7 DEF AbandonMustDeliver
  <2>2. [StoreNext]_storeVars BY <1>7, <2>1 DEF StoreNext, Sweep
  <2>a. rows[t] \in Row BY DEF TypeOK
  <2>b. [WithResult(rows[t]) EXCEPT !.status = "FAILED"].status # "CANCELLED"
    BY <2>a DEF WithResult, Row
  <2>3. NoneCancelled
    BY <1>7, <2>b DEF AbandonMustDeliver, NoneCancelled
  <2> QED BY <2>2, <2>3
<1>8. ASSUME NEW k \in Key, GcKeys({k})
      PROVE  [StoreNext]_storeVars /\ NoneCancelled
  <2>1. [StoreNext]_storeVars BY <1>8 DEF StoreNext, Sweep
  <2>2. UNCHANGED rows BY <1>8 DEF GcKeys
  <2> QED BY <2>1, <2>2 DEF NoneCancelled
<1> QED BY <1>1, <1>2, <1>3, <1>4, <1>5, <1>6, <1>7, <1>8 DEF Elsewhere, Kernel

(* Only a call at its stop cancels, and only its own session's task.       *)
Cancels(c) == At(c, "stop") /\ CancelTask(TaskOf(c), SessionOf[c]) /\ Stop(c)

(* What a call does to the rows is an operation of the store, and a
   row it cancels is one it is entitled to cancel. *)
LEMMA CallWrites ==
  ASSUME OrchInv, NEW c \in Call, CallStep(c)
  PROVE  /\ [StoreNext]_storeVars
         /\ NoneCancelled \/ Cancels(c)
<1> USE DEF OrchInv, OrchTypeOK
<1>a. call[c].pc \in OnTask => TaskOf(c) \in Task
  BY DEF TaskAdmitted
<1>b. ASSUME UNCHANGED storeVars PROVE [StoreNext]_storeVars /\ NoneCancelled
  BY <1>b DEF storeVars, NoneCancelled
<1>1. CASE OpenLimit(c) \/ Peek(c) \/ CheckQuota(c) \/ Publish(c) \/ HearCancel(c) \/ Poll(c)
           \/ Deadline(c) \/ Lost(c) \/ Fetch(c) \/ Empty(c) \/ Clear(c)
  BY <1>1, <1>b
     DEF OpenLimit, Peek, CheckQuota, Publish, HearCancel, Poll, Deadline, Lost, Fetch,
     Empty, Clear
<1>2. CASE AdmitTask(c)
  <2>1. Admit(Wants[c].ask) BY <1>2 DEF AdmitTask
  <2>2. Wants[c].ask \in Requests
    BY <1>2 DEF AdmitTask, At, AsksFirst, Waits, Want
  <2>3. PICK r \in Requests : r = Wants[c].ask BY <2>2
  <2>4. r \in Request BY StoreConstants
  <2>5. r.id \in Task BY <2>4 DEF Request
  <2>6. Admit(r) BY <2>1, <2>3
  <2> QED BY <2>5, <2>6, QuietOps
<1>3. CASE HandOver(c) \/ Mark(c)
  BY <1>3, <1>a, <1>b, QuietOps DEF HandOver, Mark, TryBackground, At, OnTask
<1>4. CASE Touch(c) \/ Bump(c)
  BY <1>4, <1>a, <1>b, QuietOps DEF Touch, Bump, At, OnTask
<1>5. ASSUME NEW t \in Task, Enter(c, t) PROVE [StoreNext]_storeVars /\ NoneCancelled
  BY <1>5, <1>b, QuietOps DEF Enter
<1>6. CASE Stop(c)
  <2>1. At(c, "stop") /\ TaskOf(c) \in Task /\ SessionOf[c] \in Session
    BY <1>6, <1>a DEF Stop, At, OnTask
  <2>2. CASE CancelTask(TaskOf(c), SessionOf[c])
    BY <1>6, <2>1, <2>2 DEF StoreNext, TaskOp, Cancels
  <2>3. CASE UNCHANGED storeVars BY <2>3, <1>b
  <2> QED BY <1>6, <2>2, <2>3 DEF Stop
<1> QED BY <1>1, <1>2, <1>3, <1>4, <1>5, <1>6 DEF CallStep

(* The same for any step of the orchestrator. *)
LEMMA StoreWrites ==
  ASSUME OrchInv, [OrchNext]_orchVars
  PROVE  /\ [StoreNext]_storeVars
         /\ NoneCancelled \/ \E c \in Call : Cancels(c)
<1>1. ASSUME NEW c \in Call, CallStep(c)
      PROVE  /\ [StoreNext]_storeVars
             /\ NoneCancelled \/ \E d \in Call : Cancels(d)
  BY <1>1, CallWrites
<1>2. CASE UNCHANGED storeVars
  BY <1>2 DEF storeVars, NoneCancelled
<1>3. CASE Elsewhere
  BY <1>3, ElsewhereOps DEF OrchInv, OrchTypeOK
<1> QED BY <1>1, <1>2, <1>3
        DEF OrchNext, Begin, ConnectionLost, ClientCancel, SessionLeaves, orchVars

(* An admitted task stays what it was admitted as.                         *)
LEMMA AdmittedStays ==
  ASSUME IInv, [StoreNext]_storeVars, NEW t \in Task, Exists(t)
  PROVE  Exists(t)' /\ rows'[t].must = rows[t].must
<1>1. CASE KeepsIdentity
  BY <1>1 DEF KeepsIdentity, SameTask, IdentityOf, Exists
<1>2. ASSUME NEW r \in Requests, Accept(r)
      PROVE  Exists(t)' /\ rows'[t].must = rows[t].must
  <2>1. r \in Request /\ ~Exists(r.id) /\ rows' = [rows EXCEPT ![r.id] = NewRow(r)]
    BY <1>2, StoreConstants, AcceptFacts
  <2>2. t # r.id BY <2>1
  <2> QED BY <2>1, <2>2 DEF IInv, TypeOK, Exists
<1> QED BY <1>1, <1>2, StepShape DEF IInv

-----------------------------------------------------------------------------
(* At the start no call is under way and the rows are empty. *)
LEMMA OrchInitInv == OrchInit => OrchInv
<1> SUFFICES ASSUME OrchInit PROVE OrchInv
  OBVIOUS
<1>1. IInv
  <2>1. \A t \in Task : AbsentRow(t) \in Row
    BY StoreConstants DEF AbsentRow, Row
  <2>2. TypeOK
    BY <2>1 DEF OrchInit, TypeOK
  <2>3. \A t \in Task : ~Exists(t)
    BY DEF OrchInit, Exists, AbsentRow
  <2> QED BY <2>2, <2>3
        DEF OrchInit, IInv, NoHistory, KeyHolder, LineageSound, MustDeliverNeverExpired, AbsentRow
<1>2. OrchTypeOK
  BY <1>1 DEF OrchInit, OrchTypeOK, ChannelsInit, IInv
<1> QED BY <1>1, <1>2
        DEF OrchInit, OrchInv, TaskAdmitted, OnTask, AsksFirst, SignalIsLast, StopJustified,
            ChannelsInit, At

(* Where a call can be, and what it can have been answered.                *)
Place == {"idle", "open", "peek", "quota", "admit", "publish", "handOver", "enter", "poll", "mark",
          "lost", "touch", "fetch", "empty", "bump", "stop", "answered", "done"}
Reply == {"none", "error", "later", "replayed", "backgrounded", "cancelled", "outcome", "noResult"}
CallState == [pc : Place, task : Task \cup {NoTask}, reply : Reply]

(* The type of the calls, out of the type invariant. *)
LEMMA CallType == OrchTypeOK => call \in [Call -> CallState]
BY DEF OrchTypeOK, CallState, Place, Reply

(* Call c goes to l with task t and answer r, the others stay.             *)
Moves(c, l, t, r) ==
  /\ call' \in [Call -> CallState]
  /\ \A d \in Call \ {c} : call'[d] = call[d]
  /\ call'[c].pc = l /\ call'[c].task = t /\ call'[c].reply = r

(* Each way to write a call record is a move: a place, a task and a reply. *)
LEMMA MoveForms ==
  ASSUME OrchTypeOK, NEW c \in Call
  PROVE  /\ \A l \in Place : Goto(c, l) => Moves(c, l, TaskOf(c), call[c].reply)
         /\ \A l \in Place, t \in Task : GotoWith(c, l, t) => Moves(c, l, t, call[c].reply)
         /\ \A r \in Reply : Answer(c, r) => Moves(c, "answered", TaskOf(c), r)
<1> USE CallType
<1>0. call[c] \in CallState OBVIOUS
<1>1. ASSUME NEW l \in Place, Goto(c, l) PROVE Moves(c, l, TaskOf(c), call[c].reply)
  <2>1. call' = [call EXCEPT ![c] = [call[c] EXCEPT !.pc = l]] BY <1>1 DEF Goto
  <2>2. [call[c] EXCEPT !.pc = l] \in CallState BY <1>0 DEF CallState
  <2> QED BY <2>1, <2>2, <1>0 DEF Moves, TaskOf, CallState
<1>2. ASSUME NEW l \in Place, NEW t \in Task, GotoWith(c, l, t) PROVE Moves(c, l, t, call[c].reply)
  <2>1. call' = [call EXCEPT ![c] = [call[c] EXCEPT !.pc = l, !.task = t]] BY <1>2 DEF GotoWith
  <2>2. [call[c] EXCEPT !.pc = l, !.task = t] \in CallState BY <1>0 DEF CallState
  <2> QED BY <2>1, <2>2, <1>0 DEF Moves, CallState
<1>3. ASSUME NEW r \in Reply, Answer(c, r) PROVE Moves(c, "answered", TaskOf(c), r)
  <2>1. call' = [call EXCEPT ![c] = [call[c] EXCEPT !.pc = "answered", !.reply = r]]
    BY <1>3 DEF Answer
  <2>2. [call[c] EXCEPT !.pc = "answered", !.reply = r] \in CallState
    BY <1>0 DEF CallState, Place
  <2> QED BY <2>1, <2>2, <1>0 DEF Moves, TaskOf, CallState
<1> QED BY <1>1, <1>2, <1>3

(* What a step of a call does to it: it answers, or goes on with its task, *)
(* and goes to its stop only when it may.                                  *)
Onward == Place \ {"idle", "open", "stop"}
CallMoves(c) ==
  \/ \E r \in Reply : Moves(c, "answered", TaskOf(c), r)
  \/ \E l \in {"peek", "quota", "admit"} :
       ~Waits(c) /\ Moves(c, l, TaskOf(c), call[c].reply)
  \/ \E t \in Task : Exists(t)' /\ \E l \in {"publish", "poll"} : Moves(c, l, t, call[c].reply)
  \/ call[c].pc \in OnTask /\ \E l \in Onward \ {"peek", "quota", "admit"} :
       Moves(c, l, TaskOf(c), call[c].reply)
  \/ call[c].pc \in OnTask /\ MayStop(c) /\ signal' = signal /\ rows' = rows
       /\ Moves(c, "stop", TaskOf(c), call[c].reply)
  \/ Moves(c, "done", TaskOf(c), call[c].reply)

(* Every step of a call moves it along one of the edges CallMoves lists. *)
LEMMA CallProceeds ==
  ASSUME OrchInv, NEW c \in Call, CallStep(c)
  PROVE  CallMoves(c)
<1> USE DEF OrchInv
<1>a. OrchTypeOK /\ AsksFirst OBVIOUS
<1> USE MoveForms
<1>1. CASE OpenLimit(c)
  BY <1>a, <1>1 DEF CallMoves, OpenLimit, At, OnTask, Onward, Place, Reply, AsksFirst
<1>2. CASE Peek(c)
  BY <1>a, <1>2 DEF CallMoves, Peek, At, OnTask, Onward, Place, Reply, AsksFirst
<1>3. CASE CheckQuota(c)
  BY <1>a, <1>3 DEF CallMoves, CheckQuota, At, OnTask, Onward, Place, Reply, AsksFirst
<1>4. CASE Publish(c)
  BY <1>a, <1>4 DEF CallMoves, Publish, At, OnTask, Onward, Place, Reply, AsksFirst
<1>5. CASE HandOver(c)
  BY <1>a, <1>5 DEF CallMoves, HandOver, At, OnTask, Onward, Place, Reply, AsksFirst
<1>6. CASE Poll(c)
  BY <1>a, <1>6 DEF CallMoves, Poll, At, OnTask, Onward, Place, Reply, AsksFirst, ReadOr
<1>7. CASE Deadline(c)
  BY <1>a, <1>7 DEF CallMoves, Deadline, At, OnTask, Onward, Place, Reply, AsksFirst
<1>8. CASE Mark(c)
  BY <1>a, <1>8 DEF CallMoves, Mark, At, OnTask, Onward, Place, Reply, AsksFirst
<1>9. CASE Lost(c)
  BY <1>a, <1>9 DEF CallMoves, Lost, At, OnTask, Onward, Place, Reply, AsksFirst, ReadOr
<1>10. CASE Touch(c)
  BY <1>a, <1>10 DEF CallMoves, Touch, At, OnTask, Onward, Place, Reply, AsksFirst
<1>11. CASE Fetch(c)
  BY <1>a, <1>11 DEF CallMoves, Fetch, At, OnTask, Onward, Place, Reply, AsksFirst
<1>12. CASE Empty(c)
  BY <1>a, <1>12 DEF CallMoves, Empty, At, OnTask, Onward, Place, Reply, AsksFirst
<1>13. CASE Bump(c)
  BY <1>a, <1>13 DEF CallMoves, Bump, At, OnTask, Onward, Place, Reply, AsksFirst
<1>14. CASE Stop(c)
  BY <1>a, <1>14 DEF CallMoves, Stop, At, OnTask, Onward, Place, Reply, AsksFirst
<1>15. CASE Clear(c)
  BY <1>a, <1>15 DEF CallMoves, Clear, At, OnTask, Onward, Place, Reply, AsksFirst
<1>16. CASE HearCancel(c)
  BY <1>a, <1>16
     DEF CallMoves, HearCancel, At, OnTask, Onward, Place, Reply, MayStop, Heard, Guaranteed,
     channelVars, storeVars, OrchTypeOK, CancelKind, NoCancel
<1>17. ASSUME NEW t \in Task, Enter(c, t) PROVE CallMoves(c)
  <2>1. CASE Answer(c, "error") BY <1>a, <2>1 DEF CallMoves, Reply
  <2>2. CASE Exists(t) /\ GotoWith(c, "poll", t)
    <3>1. Exists(t)' BY <2>2, CallWrites, AdmittedStays
    <3>2. Moves(c, "poll", t, call[c].reply) BY <1>a, <2>2 DEF Place
    <3> QED BY <3>1, <3>2 DEF CallMoves
  <2> QED BY <1>17, <2>1, <2>2 DEF Enter, MayRead
<1>18. CASE AdmitTask(c)
  <2>0. PICK r \in Requests : r = Wants[c].ask
    BY <1>18 DEF AdmitTask, At, AsksFirst, Waits, Want, OrchTypeOK
  <2>1. r \in Request /\ r.id \in Task BY StoreConstants DEF Request
  <2>2. CASE Answer(c, "replayed") \/ Answer(c, "error")
    BY <1>a, <2>2 DEF CallMoves, Reply
  <2>3. CASE IsReplay(r) /\ GotoWith(c, "publish", keys[r.key])
    <3>1. PICK t \in Task : t = keys[r.key] /\ Exists(t)
      BY <2>1, <2>3 DEF IsReplay, IInv, TypeOK, KeyHolder, Request
    <3>2. Exists(t)' BY <3>1, CallWrites, AdmittedStays
    <3>3. Moves(c, "publish", t, call[c].reply) BY <1>a, <2>3, <3>1 DEF Place
    <3> QED BY <3>2, <3>3 DEF CallMoves
  <2>4. CASE IsAccepted(r) /\ GotoWith(c, "publish", r.id)
    <3>1. Accept(r) BY <1>18, <2>0, <2>4 DEF AdmitTask, Admit
    <3>2. rows' = [rows EXCEPT ![r.id] = NewRow(r)] BY <2>0, <2>1, <3>1, AcceptFacts DEF OrchInv
    <3>3. PICK t \in Task : t = r.id BY <2>1
    <3>4. rows'[t].status = "QUEUED" BY <3>2, <3>3 DEF NewRow, IInv, TypeOK
    <3>5. Exists(t)' BY <3>4 DEF Exists
    <3>6. Moves(c, "publish", t, call[c].reply) BY <1>a, <2>4, <3>3 DEF Place
    <3> QED BY <3>5, <3>6 DEF CallMoves
  <2> QED BY <1>18, <2>0, <2>2, <2>3, <2>4 DEF AdmitTask
<1> QED BY <1>1, <1>2, <1>3, <1>4, <1>5, <1>6, <1>7, <1>8, <1>9, <1>10, <1>11, <1>12, <1>13,
           <1>14, <1>15, <1>16, <1>17, <1>18 DEF CallStep

(* The channel of a call changes only when the call ends, or when somebody *)
(* cancels it.                                                             *)
LEMMA CallChannel ==
  ASSUME OrchInv, NEW c \in Call, CallStep(c)
  PROVE  \/ UNCHANGED channelVars
         \/ Close(c) /\ Moves(c, "done", TaskOf(c), call[c].reply)
<1>1. CASE Clear(c)
  BY <1>1, MoveForms DEF Clear, OrchInv, Place
<1>2. CASE OpenLimit(c) \/ Peek(c) \/ CheckQuota(c) \/ AdmitTask(c) \/ Publish(c) \/ HandOver(c)
           \/ (\E t \in Task : Enter(c, t)) \/ HearCancel(c) \/ Poll(c) \/ Deadline(c) \/ Mark(c)
           \/ Lost(c) \/ Touch(c) \/ Fetch(c) \/ Empty(c) \/ Bump(c) \/ Stop(c)
  BY <1>2
     DEF OpenLimit, Peek, CheckQuota, AdmitTask, Publish, HandOver, Enter, HearCancel, Poll,
     Deadline, Mark, Lost, Touch, Fetch, Empty, Bump, Stop
<1> QED BY <1>1, <1>2 DEF CallStep

-----------------------------------------------------------------------------
(* The invariant is inductive.                                             *)

ChannelTypeOK == inFlight \subseteq Call /\ signal \in [Call -> CancelKind \cup {NoCancel}]
CallInv == TaskAdmitted /\ AsksFirst /\ SignalIsLast /\ StopJustified

(* A step of a call keeps types and the invariant of calls. *)
LEMMA CallKeepsInv ==
  ASSUME OrchInv, NEW c \in Call, CallStep(c)
  PROVE  ChannelTypeOK' /\ call' \in [Call -> CallState] /\ CallInv'
<1>1. [StoreNext]_storeVars BY CallWrites
<1>2. \A t \in Task : Exists(t) => Exists(t)' /\ rows'[t].must = rows[t].must
  BY <1>1, AdmittedStays DEF OrchInv
<1>3. call' \in [Call -> CallState] /\ \A d \in Call \ {c} : call'[d] = call[d]
  BY CallProceeds DEF CallMoves, Moves
<1>4. ChannelTypeOK'
  BY CallChannel DEF ChannelTypeOK, channelVars, Close, OrchInv, OrchTypeOK
<1>6. TaskAdmitted'
  BY <1>2, <1>3, CallProceeds DEF CallMoves, Moves, TaskAdmitted, TaskOf, OnTask, OrchInv
<1>7. AsksFirst'
  BY <1>3, CallProceeds DEF CallMoves, Moves, AsksFirst, Waits, OnTask, OrchInv, Onward
<1>8. SignalIsLast'
  BY <1>3, CallProceeds, CallChannel
     DEF CallMoves, Moves, SignalIsLast, OnTask, OrchInv, Onward, Close, At, OrchTypeOK,
     channelVars
<1>9. StopJustified'
  BY <1>2, <1>3, CallProceeds, CallChannel
     DEF CallMoves, Moves, StopJustified, MayStop, TaskAdmitted, TaskOf, OnTask, OrchInv,
     Onward, Close, At, OrchTypeOK, channelVars, Waits
<1> QED BY <1>3, <1>4, <1>6, <1>7, <1>8, <1>9 DEF CallInv

(* A call that begins.                                                     *)
LEMMA BeginKeepsInv ==
  ASSUME OrchInv, NEW c \in Call, Begin(c)
  PROVE  ChannelTypeOK' /\ call' \in [Call -> CallState] /\ CallInv'
<1>1. Moves(c, IF Waits(c) THEN "enter" ELSE "open", TaskOf(c), call[c].reply)
  BY MoveForms DEF Begin, OrchInv, Place
<1>2. call[c].pc = "idle" /\ UNCHANGED <<rows, signal>> /\ Open(c)
  BY DEF Begin, At, storeVars, Open
<1>3. ChannelTypeOK'
  BY <1>2 DEF ChannelTypeOK, Open, OrchInv, OrchTypeOK
<1>4. TaskAdmitted'
  BY <1>1, <1>2 DEF Moves, TaskAdmitted, TaskOf, OnTask, OrchInv, Exists
<1>5. AsksFirst'
  BY <1>1 DEF Moves, AsksFirst, Waits, OrchInv
<1>6. SignalIsLast'
  BY <1>1, <1>2 DEF Moves, SignalIsLast, OrchInv, Open, At
<1>7. StopJustified'
  BY <1>1, <1>2 DEF Moves, StopJustified, MayStop, TaskOf, OrchInv, At, Waits
<1> QED BY <1>1, <1>3, <1>4, <1>5, <1>6, <1>7 DEF CallInv, Moves

(* A call whose connection is lost.                                        *)
LEMMA LostKeepsInv ==
  ASSUME OrchInv, NEW c \in Call, ConnectionLost(c)
  PROVE  ChannelTypeOK' /\ call' \in [Call -> CallState] /\ CallInv'
<1>1. Moves(c, "done", TaskOf(c), call[c].reply)
  BY MoveForms DEF ConnectionLost, OrchInv, Place
<1>2. UNCHANGED <<rows, signal, inFlight>>
  BY DEF ConnectionLost, storeVars, channelVars
<1>3. ChannelTypeOK'
  BY <1>2 DEF ChannelTypeOK, OrchInv, OrchTypeOK
<1>4. TaskAdmitted'
  BY <1>1, <1>2 DEF Moves, TaskAdmitted, TaskOf, OnTask, OrchInv, Exists
<1>5. AsksFirst'
  BY <1>1 DEF Moves, AsksFirst, Waits, OrchInv
<1>6. SignalIsLast'
  BY <1>1, <1>2 DEF Moves, SignalIsLast, OrchInv, At
<1>7. StopJustified'
  BY <1>1, <1>2 DEF Moves, StopJustified, MayStop, TaskOf, OrchInv, At, Waits
<1> QED BY <1>1, <1>3, <1>4, <1>5, <1>6, <1>7 DEF CallInv, Moves

(* A cancel or a disconnect tells calls in flight, once.                   *)
LEMMA ToldKeepsInv ==
  ASSUME OrchInv, UNCHANGED <<storeVars, call>>,
         \/ \E c \in Call : ClientCancel(c)
         \/ \E s \in Caller : SessionLeaves(s)
  PROVE  ChannelTypeOK' /\ call' \in [Call -> CallState] /\ CallInv'
<1>1. PICK told \in SUBSET inFlight :
        /\ inFlight' = inFlight \ told
        /\ signal' \in [Call -> CancelKind \cup {NoCancel}]
        /\ \A d \in Call \ told : signal'[d] = signal[d]
  <2>1. CASE \E c \in Call : ClientCancel(c)
    <3>1. PICK c \in Call, kind \in ClientReason : Cancel(c, kind)
      BY <2>1 DEF ClientCancel
    <3>2. {c} \in SUBSET inFlight /\ inFlight' = inFlight \ {c} BY <3>1 DEF Cancel
    <3>3. signal' = [signal EXCEPT ![c] = kind] BY <3>1 DEF Cancel
    <3>4. signal \in [Call -> CancelKind \cup {NoCancel}] BY DEF OrchInv, OrchTypeOK
    <3>5. /\ signal' \in [Call -> CancelKind \cup {NoCancel}]
          /\ \A d \in Call \ {c} : signal'[d] = signal[d]
      BY <3>3, <3>4
    <3> QED BY <3>2, <3>5
  <2>2. CASE \E s \in Caller : SessionLeaves(s)
    <3>1. PICK s \in Caller : Disconnect(s) BY <2>2 DEF SessionLeaves
    <3>2. PICK told \in SUBSET inFlight :
            /\ inFlight' = inFlight \ told
            /\ signal' = [c \in Call |-> IF c \in told THEN "SessionDisconnect" ELSE signal[c]]
      BY <3>1 DEF Disconnect, OfSession
    <3>3. /\ signal' \in [Call -> CancelKind \cup {NoCancel}]
          /\ \A d \in Call \ told : signal'[d] = signal[d]
      BY <3>2 DEF CancelKind, OrchInv, OrchTypeOK
    <3> QED BY <3>2, <3>3
  <2> QED BY <2>1, <2>2
<1>2. ChannelTypeOK' /\ call' \in [Call -> CallState]
  BY <1>1, CallType DEF ChannelTypeOK, OrchInv, OrchTypeOK
<1>3. CallInv'
  BY <1>1
     DEF CallInv, OrchInv, OrchTypeOK, TaskAdmitted, TaskOf, Exists, AsksFirst, Waits,
     SignalIsLast, At,
     StopJustified, MayStop, storeVars, NoCancel
<1> QED BY <1>2, <1>3

(* The rest of the system writes rows, but no task's flag of delivery.     *)
LEMMA ElsewhereKeepsInv ==
  ASSUME OrchInv, [StoreNext]_storeVars, UNCHANGED <<channelVars, call>>
  PROVE  ChannelTypeOK' /\ call' \in [Call -> CallState] /\ CallInv'
<1>1. \A t \in Task : Exists(t) => Exists(t)' /\ rows'[t].must = rows[t].must
  BY AdmittedStays DEF OrchInv
<1>2. ChannelTypeOK' /\ call' \in [Call -> CallState]
  BY CallType DEF ChannelTypeOK, OrchInv, OrchTypeOK, channelVars
<1>3. TaskAdmitted'
  BY <1>1 DEF TaskAdmitted, TaskOf, OrchInv
<1>4. StopJustified'
  BY <1>1
     DEF TaskAdmitted, TaskOf, OnTask, StopJustified, MayStop, OrchInv, At, Waits, channelVars
<1>5. AsksFirst' /\ SignalIsLast'
  BY DEF AsksFirst, SignalIsLast, OrchInv, At, Waits, channelVars
<1> QED BY <1>2, <1>3, <1>4, <1>5 DEF CallInv

(* The invariant is inductive. *)
LEMMA OrchInvInductive == OrchInv /\ [OrchNext]_orchVars => OrchInv'
<1> SUFFICES ASSUME OrchInv, [OrchNext]_orchVars PROVE OrchInv'
  OBVIOUS
<1>1. [StoreNext]_storeVars BY StoreWrites
<1>2. IInv' BY <1>1, IInvInductive DEF OrchInv
<1>3. elsewhere' \in 0..MaxElsewhere
  BY DEF OrchNext, CallStep, OrchInv, OrchTypeOK, orchVars
<1>4. ChannelTypeOK' /\ call' \in [Call -> CallState] /\ CallInv'
  <2>1. ASSUME NEW c \in Call, CallStep(c)
        PROVE  ChannelTypeOK' /\ call' \in [Call -> CallState] /\ CallInv'
    BY <2>1, CallKeepsInv
  <2>2. ASSUME NEW c \in Call, Begin(c)
        PROVE  ChannelTypeOK' /\ call' \in [Call -> CallState] /\ CallInv'
    BY <2>2, BeginKeepsInv
  <2>3. ASSUME NEW c \in Call, ConnectionLost(c)
        PROVE  ChannelTypeOK' /\ call' \in [Call -> CallState] /\ CallInv'
    BY <2>3, LostKeepsInv
  <2>4. ASSUME NEW c \in Call, ClientCancel(c)
        PROVE  ChannelTypeOK' /\ call' \in [Call -> CallState] /\ CallInv'
    BY <2>4, ToldKeepsInv DEF ClientCancel
  <2>5. ASSUME NEW s \in Caller, SessionLeaves(s)
        PROVE  ChannelTypeOK' /\ call' \in [Call -> CallState] /\ CallInv'
    BY <2>5, ToldKeepsInv DEF SessionLeaves
  <2>6. CASE UNCHANGED <<channelVars, call>>
    BY <1>1, <2>6, ElsewhereKeepsInv
  <2> QED BY <2>1, <2>2, <2>3, <2>4, <2>5, <2>6 DEF OrchNext, orchVars
<1>5. OrchTypeOK'
  BY <1>2, <1>3, <1>4 DEF OrchTypeOK, ChannelTypeOK, CallState, Place, Reply, IInv
<1> QED BY <1>2, <1>4, <1>5 DEF OrchInv, CallInv

(* It holds in every reachable state. *)
LEMMA OrchInvHolds == OrchSpec => []OrchInv
BY OrchInitInv, OrchInvInductive, PTL DEF OrchSpec, OrchSafety

-----------------------------------------------------------------------------
(* The calls, the kernel and the sweeps of the orchestrator leave the store *)
(* in the states the store's own contract allows: keys name tasks admitted  *)
(* under them, lineages are grounded, and nothing guaranteed expires.       *)
THEOREM OrchestratorKeepsStore ==
  OrchSpec => [](OrchTypeOK /\ KeyHolder /\ LineageSound /\ MustDeliverNeverExpired)
<1>1. OrchInv => OrchTypeOK /\ KeyHolder /\ LineageSound /\ MustDeliverNeverExpired
  BY DEF OrchInv, IInv
<1> QED BY <1>1, OrchInvHolds, PTL

(* Whoever cancels a task is a call of its session that the user stopped,  *)
(* or the synchronous caller of a task without guaranteed delivery whose   *)
(* session left (cancel_task_user_stop and the wait loops).                *)
THEOREM CancelsAreJustified == OrchSpec => CancelJustified
<1>1. ASSUME OrchInv, [OrchNext]_orchVars
      PROVE  [\A t \in Task :
               ~HasStatus(t, {"CANCELLED"}) /\ rows'[t].status = "CANCELLED" => \E c \in Call :
                 /\ TaskOf(c) = t /\ rows[t].session = SessionOf[c]
                 /\ \/ signal[c] = "UserStop"
                    \/ signal[c] = "SessionDisconnect" /\ ~Waits(c) /\ ~rows[t].must]_orchVars
  <2> SUFFICES ASSUME NEW t \in Task, ~HasStatus(t, {"CANCELLED"}), rows'[t].status = "CANCELLED"
               PROVE  \E c \in Call :
                        /\ TaskOf(c) = t /\ rows[t].session = SessionOf[c]
                        /\ \/ signal[c] = "UserStop"
                           \/ signal[c] = "SessionDisconnect" /\ ~Waits(c) /\ ~rows[t].must
    OBVIOUS
  <2>1. PICK c \in Call : Cancels(c)
    BY <1>1, StoreWrites DEF NoneCancelled, HasStatus
  <2>2. TaskOf(c) = t
    BY <2>1 DEF Cancels, CancelTask, InRow, HasStatus, OrchInv, OrchTypeOK, TypeOK
  <2>3. rows[t].session = SessionOf[c] /\ MayStop(c)
    BY <1>1, <2>1, <2>2 DEF Cancels, CancelTask, MayCancel, OrchInv, StopJustified
  <2> QED BY <2>2, <2>3 DEF MayStop
<1> QED BY <1>1, OrchInvHolds, PTL DEF CancelJustified, OrchSpec, OrchSafety

(* A caller hears "backgrounded" only while its task is not over: the mark *)
(* at the deadline has one winner (try_mark_wait_timeout).                 *)
THEOREM MarkHasOneWinner == OrchSpec => OneWinner
<1>1. ASSUME OrchInv, [OrchNext]_orchVars
      PROVE  [\A c \in Call :
               call[c].reply # "backgrounded" /\ call'[c].reply = "backgrounded"
                 => rows'[TaskOf(c)].status \notin Closed]_orchVars
  <2> SUFFICES ASSUME NEW c \in Call, call[c].reply # "backgrounded",
                      call'[c].reply = "backgrounded"
               PROVE  rows'[TaskOf(c)].status \notin Closed
    OBVIOUS
  <2> USE <1>1
  <2>a. call \in [Call -> CallState] BY CallType DEF OrchInv
  <2>b. ASSUME NEW l, Goto(c, l) \/ \E t : GotoWith(c, l, t) PROVE FALSE
    <3>1. call[c] \in CallState BY <2>a
    <3>2. PICK new : call' = [call EXCEPT ![c] = new] /\ new.reply = call[c].reply
      BY <2>b, <3>1 DEF Goto, GotoWith, CallState
    <3> QED BY <2>a, <3>2
  <2>c. ASSUME NEW r \in Reply \ {"backgrounded"}, Answer(c, r) PROVE FALSE
    BY <2>c, MoveForms DEF Moves, OrchInv
  <2>1. CASE \E d \in Call : CallStep(d)
    <3>1. CallStep(c)
      BY <2>1, CallProceeds DEF CallMoves, Moves
    <3>2. Mark(c) \/ Lost(c)
      <4>1. ~OpenLimit(c) /\ ~Peek(c) /\ ~CheckQuota(c) /\ ~AdmitTask(c)
        BY <2>b, <2>c DEF OpenLimit, Peek, CheckQuota, AdmitTask, Reply
      <4>2. ~Publish(c) /\ ~HandOver(c) /\ ~HearCancel(c)
        BY <2>b, <2>c DEF Publish, HandOver, HearCancel, Heard, NoCancel, OrchInv, OrchTypeOK,
           CancelKind, Reply
      <4>3. ~Poll(c) /\ ~Deadline(c) /\ ~Touch(c) /\ ~Fetch(c)
        BY <2>b, <2>c DEF Poll, ReadOr, Deadline, Touch, Fetch, Reply
      <4>4. ~Empty(c) /\ ~Bump(c) /\ ~Stop(c) /\ ~Clear(c)
        BY <2>b, <2>c DEF Empty, Bump, Stop, Clear, Reply
      <4>5. \A t \in Task : ~Enter(c, t)
        BY <2>b, <2>c DEF Enter, Reply
      <4> QED BY <3>1, <4>1, <4>2, <4>3, <4>4, <4>5 DEF CallStep
    <3>3. TaskOf(c) \in Task
      BY <3>2 DEF Mark, Lost, At, OrchInv, TaskAdmitted, OnTask
    <3>4. CASE Mark(c)
      <4>1. TryMarkWaitTimeout(TaskOf(c))
        BY <2>b, <3>4 DEF Mark, TryBackground
      <4>2. rows[TaskOf(c)] \in Row /\ rows \in [Task -> Row]
        BY <3>3 DEF OrchInv, OrchTypeOK, TypeOK
      <4>3. rows'[TaskOf(c)].status = "WAIT_TIMEOUT_REACHED"
        BY <3>3, <4>1, <4>2 DEF TryMarkWaitTimeout, InRow, Row
      <4> QED BY <4>3 DEF Closed, Terminal
    <3>5. CASE Lost(c)
      <4>1. ~HasStatus(TaskOf(c), Closed)
        BY <2>b, <2>c, <3>5 DEF Lost, ReadOr, Reply
      <4> QED BY <3>5, <4>1 DEF Lost, HasStatus, storeVars
    <3> QED BY <3>2, <3>4, <3>5
  <2>2. CASE \E d \in Call : Begin(d) \/ ConnectionLost(d)
    BY <2>2, MoveForms DEF Begin, ConnectionLost, Moves, OrchInv, Place
  <2>3. CASE UNCHANGED call
    BY <2>3
  <2> QED BY <2>1, <2>2, <2>3 DEF OrchNext, ClientCancel, SessionLeaves, orchVars
<1> QED BY <1>1, OrchInvHolds, PTL DEF OneWinner, OrchSpec, OrchSafety

(* Whatever calls, workers and sweeps do to each other, an outcome that was *)
(* handed over is not expired and its first answerer stays the only one.   *)
THEOREM CallsKeepOutcomes == OrchSpec => DeliveredNotExpired /\ ClaimSticks
<1>1. OrchInv /\ [OrchNext]_orchVars =>
        [\A t \in Task : rows[t].delivered /\ HasStatus(t, {"COMPLETED", "FAILED"})
           => rows'[t].status # "EXPIRED"]_storeVars
  BY StoreWrites, StepActionProperties DEF OrchInv
<1>2. OrchInv /\ [OrchNext]_orchVars =>
        [\A t \in Task : rows[t].claimed # NoSession
           => rows'[t].claimed = rows[t].claimed]_storeVars
  BY StoreWrites, StepActionProperties DEF OrchInv
<1> QED BY <1>1, <1>2, OrchInvHolds, PTL
        DEF OrchSpec, OrchSafety, DeliveredNotExpired, ClaimSticks

-----------------------------------------------------------------------------
(* Admission through the limits and the replay of call_agent, with the     *)
(* kernel and the sweeps in between, is what the admission contract says.  *)
THEOREM CallsAdmitByContract == OrchSpec => Admission
<1>1. OrchInit => Contract!ContractInit
  BY DEF OrchInit, Contract!ContractInit, Identities, Exists, AbsentRow
<1>2. OrchInv /\ [OrchNext]_orchVars => [Contract!ContractNext]_(Contract!contractVars)
  <2> SUFFICES ASSUME OrchInv, [OrchNext]_orchVars
               PROVE  [Contract!ContractNext]_(Contract!contractVars)
    OBVIOUS
  <2>1. IInv /\ TypeOK /\ [StoreNext]_storeVars BY StoreWrites DEF OrchInv, IInv
  <2> QED BY <2>1, StoreConstants, StepShape, KeepsIdentityRefines, AcceptRefines
<1> QED BY <1>1, <1>2, OrchInvHolds, PTL
        DEF OrchSpec, OrchSafety, Admission, Contract!ContractSpec

(* The calls and their clients use the channels as CancelChannels promises *)
(* them, the specification that the registry of McpHttp implements.        *)
THEOREM CallsUseChannels == OrchSpec => ChannelsSpec
<1>1. OrchInit => ChannelsInit
  BY DEF OrchInit
<1>2. OrchInv /\ [OrchNext]_orchVars => [ChannelsNext]_channelVars
  <2> SUFFICES ASSUME OrchInv, [OrchNext]_orchVars PROVE [ChannelsNext]_channelVars
    OBVIOUS
  <2>1. ASSUME NEW c \in Call, CallStep(c) PROVE [ChannelsNext]_channelVars
    BY <2>1, CallChannel DEF ChannelsNext
  <2>2. ASSUME NEW c \in Call, Begin(c) \/ ConnectionLost(c) \/ ClientCancel(c)
        PROVE  [ChannelsNext]_channelVars
    BY <2>2 DEF Begin, ConnectionLost, ClientCancel, ChannelsNext
  <2>3. ASSUME NEW s \in Caller, SessionLeaves(s) PROVE [ChannelsNext]_channelVars
    BY <2>3 DEF SessionLeaves, ChannelsNext
  <2> QED BY <2>1, <2>2, <2>3 DEF OrchNext, orchVars
<1> QED BY <1>1, <1>2, OrchInvHolds, PTL DEF OrchSpec, OrchSafety, ChannelsSpec
=============================================================================
