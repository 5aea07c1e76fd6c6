----------------------------- MODULE Orchestrator -----------------------------
(***************************************************************************)
(* The MCP orchestrator (src-tauri/src/bridge/orchestration.rs) and the    *)
(* tools of McpServer that reach it: lounge_call_agent and lounge_dispatch *)
(* admit a task and may wait for its outcome, lounge_wait_task waits for   *)
(* one admitted before.  A call reads and writes the store one operation   *)
(* at a time, so other calls, the kernel and the sweeps come in between.   *)
(*                                                                         *)
(* Time is abstracted: a waiting call may find at every poll that its      *)
(* deadline has passed.  The kernel and the workers act on the store       *)
(* through the operations they use in module Dispatcher, in any order.     *)
(***************************************************************************)
EXTENDS A2AStore, CancelChannels

CONSTANTS
  Wants,              \* what each call asks for
  MaxOpenTasks,       \* MAX_OPEN_TASKS_PER_SESSION
  MaxMustPerSession,  \* MUST_DELIVER_MAX_PER_SESSION
  MaxMustPerAgent,    \* MUST_DELIVER_MAX_PER_AGENT
  KernelWrites,       \* the statuses the kernel writes
  Together,           \* bound: the sets of calls that take place together
  MaxElsewhere        \* bound: how many steps the rest of the system takes

(* A wait names no request, and may present the task's token.               *)
Want == [kind : {"call"}, ask : Request, wait : BOOLEAN, long : BOOLEAN]
        \cup [kind : {"wait"}, token : BOOLEAN]

ASSUME OrchestratorConstants ==
  /\ Wants \in [Call -> Want]
  /\ Caller \subseteq Session
  /\ \A c \in Call : Wants[c].kind = "call" => /\ Wants[c].ask \in Requests
                                               /\ Wants[c].ask.session = SessionOf[c]
                                               /\ Wants[c].ask.parent = NoTask
  /\ MaxOpenTasks \in Nat \ {0}
  /\ MaxMustPerSession \in Nat \ {0} /\ MaxMustPerAgent \in Nat \ {0}
  /\ KernelWrites \subseteq KernelStatus
  /\ MaxElsewhere \in Nat

VARIABLES
  call,       \* per call: where it is, its task, its answer
  elsewhere   \* the steps taken by the rest of the system (for the bound)

orchVars == <<storeVars, channelVars, call, elsewhere>>

Waits(c) == Wants[c].kind = "wait"
TaskOf(c) == call[c].task
At(c, l) == call[c].pc = l
Goto(c, l) == call' = [call EXCEPT ![c].pc = l]
GotoWith(c, l, t) == call' = [call EXCEPT ![c].pc = l, ![c].task = t]
Answer(c, reply) == call' = [call EXCEPT ![c].pc = "answered", ![c].reply = reply]

OrchInit ==
  /\ rows = [t \in Task |-> AbsentRow(t)]
  /\ keys = [k \in Key |-> NoTask]
  /\ sessions = [s \in Session |-> "live"]  \* initialize comes before tools/call
  /\ ChannelsInit
  /\ call = [c \in Call |-> [pc |-> "idle", task |-> NoTask, reply |-> "none"]]
  /\ elsewhere = 0

Begin(c) ==
  /\ At(c, "idle")
  /\ \E C \in Together : {d \in Call : ~At(d, "idle")} \cup {c} \subseteq C
  /\ Open(c)
  /\ Goto(c, IF Waits(c) THEN "enter" ELSE "open")
  /\ UNCHANGED storeVars

-----------------------------------------------------------------------------
(* call_agent: limits, admission, publication.                              *)

OpenTasks(s) == {t \in Task : Exists(t) /\ rows[t].session = s /\ ~HasStatus(t, Terminal)}
MustOpen == {t \in Task : Exists(t) /\ rows[t].must /\ ~HasStatus(t, Closed)}
MustOfSession(s) == {t \in MustOpen : rows[t].session = s}
(* source_agent of a bridge task is made of its client's name, like the     *)
(* agent of its session.                                                    *)
MustOfAgent(a) == {t \in MustOpen : AgentOf[rows[t].session] = a}

OpenLimit(c) ==
  /\ At(c, "open")
  /\ IF Cardinality(OpenTasks(SessionOf[c])) >= MaxOpenTasks THEN Answer(c, "error")
     ELSE Goto(c, IF Wants[c].ask.must THEN "peek" ELSE "admit")
  /\ UNCHANGED <<storeVars, channelVars>>

Peek(c) ==
  LET key == Wants[c].ask.key
  IN /\ At(c, "peek")
     /\ Goto(c, IF key # NoKey /\ keys[key] # NoTask THEN "admit" ELSE "quota")
     /\ UNCHANGED <<storeVars, channelVars>>

CheckQuota(c) ==
  LET s == SessionOf[c]
  IN /\ At(c, "quota")
     /\ IF \/ Cardinality(MustOfSession(s)) >= MaxMustPerSession
           \/ Cardinality(MustOfAgent(AgentOf[s])) >= MaxMustPerAgent
        THEN Answer(c, "error") ELSE Goto(c, "admit")
     /\ UNCHANGED <<storeVars, channelVars>>

AdmitTask(c) ==
  LET r == Wants[c].ask
      holder == keys[r.key]
  IN /\ At(c, "admit")
     /\ \/ /\ IsReplay(r)
           /\ IF HasStatus(holder, Terminal) THEN Answer(c, "replayed")
              ELSE GotoWith(c, "publish", holder)
        \/ IsAccepted(r) /\ GotoWith(c, "publish", r.id)
        \/ ~IsReplay(r) /\ ~IsAccepted(r) /\ Answer(c, "error")
     /\ Admit(r)
     /\ UNCHANGED channelVars

(* The row stays admitted when the publication fails.                       *)
Publish(c) ==
  /\ At(c, "publish")
  /\ \/ Answer(c, "error")
     \/ IF ~Wants[c].wait THEN Answer(c, "later")
        ELSE Goto(c, IF Wants[c].long THEN "handOver" ELSE "poll")
  /\ UNCHANGED <<storeVars, channelVars>>

TryBackground(t) == TryMarkWaitTimeout(t) \/ (~CanBackground(t) /\ UNCHANGED storeVars)

(* long_running: backgrounded at once, whether or not the mark was won.     *)
HandOver(c) ==
  /\ At(c, "handOver")
  /\ TryBackground(TaskOf(c))
  /\ Answer(c, "later")
  /\ UNCHANGED channelVars

-----------------------------------------------------------------------------
(* wait_task: the caller's own task, or one whose token it presents.  The   *)
(* wait itself counts as a delivery of a result that is ready.              *)

MayRead(c, t) == Exists(t) /\ (rows[t].session = SessionOf[c] \/ Wants[c].token)

Enter(c, t) ==
  /\ At(c, "enter")
  /\ IF MayRead(c, t) THEN TouchLastWait(t) /\ GotoWith(c, "poll", t)
     ELSE Answer(c, "error") /\ UNCHANGED storeVars
  /\ UNCHANGED channelVars

-----------------------------------------------------------------------------
(* The wait loop of both.  A cancel is looked at before the result.         *)

Heard(c) == signal[c] # NoCancel /\ ~(Waits(c) /\ signal[c] = "Other")

(* Mutant of Guaranteed: the flag of the call, not of the task it replays.  *)
GuaranteedByCall(c) == ~Waits(c) /\ Wants[c].ask.must
Guaranteed(c) == rows[TaskOf(c)].must

HearCancel(c) ==
  /\ At(c, "poll") /\ Heard(c)
  /\ CASE signal[c] = "UserStop" -> Goto(c, "stop")
       [] signal[c] = "DeadlineExceeded" -> Goto(c, "mark")
       [] signal[c] = "Other" -> Answer(c, "cancelled")
       [] signal[c] = "SessionDisconnect" ->
            IF Waits(c) THEN Answer(c, "later")
            ELSE Goto(c, IF Guaranteed(c) THEN "mark" ELSE "stop")
  /\ UNCHANGED <<storeVars, channelVars>>

(* try_read_result: status, delivery mark and result are read apart.        *)
ReadOr(c, unfinished) ==
  CASE HasStatus(TaskOf(c), Closed) -> Goto(c, "touch")
    [] HasStatus(TaskOf(c), {"NEEDS_HUMAN"}) -> Answer(c, "later")
    [] OTHER -> unfinished

Poll(c) ==
  /\ At(c, "poll") /\ ~Heard(c)
  /\ HasStatus(TaskOf(c), Terminal)
  /\ ReadOr(c, FALSE)
  /\ UNCHANGED <<storeVars, channelVars>>

(* Mutant of Deadline: only wait_task has one.                              *)
DeadlineOfWaits(c) ==
  /\ At(c, "poll") /\ ~Heard(c) /\ Waits(c)
  /\ ~HasStatus(TaskOf(c), Terminal)
  /\ Goto(c, "empty")
  /\ UNCHANGED <<storeVars, channelVars>>
Deadline(c) ==
  /\ At(c, "poll") /\ ~Heard(c)
  /\ ~HasStatus(TaskOf(c), Terminal)
  /\ Goto(c, IF Waits(c) THEN "empty" ELSE "mark")
  /\ UNCHANGED <<storeVars, channelVars>>

Mark(c) ==
  /\ At(c, "mark")
  /\ TryBackground(TaskOf(c))
  /\ IF CanBackground(TaskOf(c)) THEN Answer(c, "backgrounded") ELSE Goto(c, "lost")
  /\ UNCHANGED channelVars

(* Mutant of Lost: whoever loses the mark answers without another look.     *)
LostBlind(c) ==
  /\ At(c, "lost")
  /\ Answer(c, "backgrounded")
  /\ UNCHANGED <<storeVars, channelVars>>
(* A token is not presented again here, so its bearer gets an error.        *)
Lost(c) ==
  /\ At(c, "lost")
  /\ IF rows[TaskOf(c)].session # SessionOf[c] THEN Answer(c, "error")
     ELSE ReadOr(c, Answer(c, "backgrounded"))
  /\ UNCHANGED <<storeVars, channelVars>>

Touch(c) ==
  /\ At(c, "touch")
  /\ TouchLastWait(TaskOf(c))
  /\ Goto(c, "fetch")
  /\ UNCHANGED channelVars

Fetch(c) ==
  /\ At(c, "fetch")
  /\ Answer(c, IF rows[TaskOf(c)].ready THEN "outcome" ELSE "noResult")
  /\ UNCHANGED <<storeVars, channelVars>>

(* An empty wait: backoff is counted for long, guaranteed or backgrounded   *)
(* tasks, and counting writes last_wait_at.                                 *)
LongTask(t) == \E c \in Call : ~Waits(c) /\ Wants[c].ask.id = t /\ Wants[c].long
Empty(c) ==
  /\ At(c, "empty")
  /\ IF LongTask(TaskOf(c)) \/ rows[TaskOf(c)].must \/ HasStatus(TaskOf(c), {"WAIT_TIMEOUT_REACHED"})
     THEN Goto(c, "bump") ELSE Answer(c, "later")
  /\ UNCHANGED <<storeVars, channelVars>>

Bump(c) ==
  /\ At(c, "bump")
  /\ TouchLastWait(TaskOf(c))
  /\ Answer(c, "later")
  /\ UNCHANGED channelVars

(* cancel_task_user_stop; lounge.control.stop is published in either case   *)
(* (the dispatcher's part in it is in module Dispatcher).                   *)
Stop(c) ==
  LET t == TaskOf(c)
      s == SessionOf[c]
  IN /\ At(c, "stop")
     /\ Answer(c, IF rows[t].session = s THEN "cancelled" ELSE "error")
     /\ CancelTask(t, s) \/ (~MayCancel(t, s) /\ UNCHANGED storeVars)
     /\ UNCHANGED channelVars

Clear(c) ==
  /\ At(c, "answered")
  /\ Goto(c, "done")
  /\ Close(c)
  /\ UNCHANGED storeVars

(* The HTTP connection closes at an await: the rest of the call is dropped. *)
ConnectionLost(c) ==
  /\ call[c].pc \in {"publish", "poll", "answered"}
  /\ Goto(c, "done")
  /\ UNCHANGED <<storeVars, channelVars>>

CallStep(c) ==
  /\ UNCHANGED elsewhere
  /\ \/ OpenLimit(c) \/ Peek(c) \/ CheckQuota(c) \/ AdmitTask(c) \/ Publish(c) \/ HandOver(c)
     \/ \E t \in Task : Enter(c, t)
     \/ HearCancel(c) \/ Poll(c) \/ Deadline(c) \/ Mark(c) \/ Lost(c)
     \/ Touch(c) \/ Fetch(c) \/ Empty(c) \/ Bump(c) \/ Stop(c) \/ Clear(c)

-----------------------------------------------------------------------------
(* Clients and the rest of the system.                                      *)

ClientCancel(c) ==
  /\ \E kind \in ClientReason : Cancel(c, kind)
  /\ UNCHANGED <<storeVars, call>>

(* The session is marked in the store after the calls were told.            *)
SessionLeaves(s) == Disconnect(s) /\ UNCHANGED <<storeVars, call>>

Kernel(t) ==
  /\ Exists(t)
  /\ \/ \E s \in KernelWrites : SetStatus(t, s)
     \/ \E s \in {"COMPLETED", "FAILED"}, hasResult \in BOOLEAN :
          CompleteWithResult(t, s, hasResult, s = "FAILED")

Elsewhere ==
  \/ \E t \in Task : Kernel(t) \/ \E s \in Session, st \in {"COMPLETED", "FAILED"} :
                                    YieldResult(t, s, st)
  \/ \E s \in Session : UpsertSession(s) \/ MarkDisconnected(s)
  \/ \E t \in Task : MarkSilentNeedsHuman({t}) \/ ExpireOrphans({t}) \/ AbandonMustDeliver({t})
  \/ \E k \in Key : GcKeys({k})

OrchNext ==
  \/ \E c \in Call : CallStep(c)
  \/ /\ \E c \in Call : Begin(c) \/ ConnectionLost(c) \/ ClientCancel(c)
     /\ UNCHANGED elsewhere
  \/ /\ \E s \in Caller : SessionLeaves(s)
     /\ UNCHANGED elsewhere
  \/ /\ Elsewhere /\ storeVars' # storeVars
     /\ elsewhere < MaxElsewhere /\ elsewhere' = elsewhere + 1
     /\ UNCHANGED <<channelVars, call>>

OrchSafety == OrchInit /\ [][OrchNext]_orchVars
(* The runtime polls every call, and the clock passes its deadline.         *)
OrchSpec == OrchSafety /\ \A c \in Call : WF_orchVars(CallStep(c))
-----------------------------------------------------------------------------
OrchTypeOK ==
  /\ TypeOK
  /\ inFlight \subseteq Call
  /\ signal \in [Call -> CancelKind \cup {NoCancel}]
  /\ call \in [Call -> [pc : {"idle", "open", "peek", "quota", "admit", "publish", "handOver",
                              "enter", "poll", "mark", "lost", "touch", "fetch", "empty", "bump",
                              "stop", "answered", "done"},
                        task : Task \cup {NoTask},
                        reply : {"none", "error", "later", "replayed", "backgrounded",
                                 "cancelled", "outcome", "noResult"}]]
  /\ elsewhere \in 0..MaxElsewhere

(* A task is cancelled only by a call of its own session, at the user's     *)
(* stop or, when the session left, by the synchronous caller of a task      *)
(* without guaranteed delivery, also when that call only replayed a         *)
(* guaranteed one; a wait that is cut off cancels nothing                   *)
(* (docs/a2a-mcp-pr3b.md:11).                                               *)
CancelJustified == [][\A t \in Task :
  ~HasStatus(t, {"CANCELLED"}) /\ rows'[t].status = "CANCELLED" => \E c \in Call :
    /\ TaskOf(c) = t /\ rows[t].session = SessionOf[c]
    /\ \/ signal[c] = "UserStop"
       \/ signal[c] = "SessionDisconnect" /\ ~Waits(c) /\ ~rows[t].must]_orchVars

(* The hand-over at the deadline has one winner (docs/a2a-mcp-pr3b.md:42):  *)
(* no caller hears "backgrounded" when the outcome was there already.  A    *)
(* long_running call does not wait: it is told so either way, which is      *)
(* "later" here.                                                           *)
OneWinner == [][\A c \in Call :
  call[c].reply # "backgrounded" /\ call'[c].reply = "backgrounded"
    => rows'[TaskOf(c)].status \notin Closed]_orchVars

(* Every call is answered, whether it was cancelled, lost the mark to       *)
(* another call, was evicted from the registry or its task never ends.      *)
AllAnswered == \A c \in Call : ~At(c, "idle") ~> At(c, "done")
=============================================================================
