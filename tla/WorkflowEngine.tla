---------------------------- MODULE WorkflowEngine ----------------------------
(***************************************************************************)
(* The workflow engine (src-tauri/src/kernel/workflow_engine.rs): it hears *)
(* that a coding task is completed, waits for the row to say so too, and   *)
(* hands a Test task to the dispatcher over a channel of the process.  The *)
(* dispatcher takes these one after another (spawn_trusted_ingress).       *)
(*                                                                         *)
(* The rows, their keys and the operations on them are A2AStore's; how a   *)
(* task is executed is Dispatcher's, and a free choice here.  A tester is  *)
(* installed: without one nothing follows.                                 *)
(***************************************************************************)
EXTENDS A2AStore, Sequences

CONSTANTS
  CodingRequests,  \* the requests of kind CodeAnalysis
  FollowUp,        \* the ids the engine gives to the Test tasks
  TestKey,         \* the key workflow-test:<id> of each coding task
  Tester,          \* the agent that tests
  Attempts,        \* how often a row is looked at before the message is dropped
  MaxAnswers,      \* bound: messages that a coding task is completed
  MaxExits         \* bound: exits of the app

Coding == {r.id : r \in CodingRequests}

ASSUME WorkflowConstants ==
  /\ CodingRequests \subseteq Request
  /\ FollowUp \subseteq Task \ Coding /\ IsFiniteSet(FollowUp)
  /\ TestKey \in [Coding -> Key] /\ Tester \in Agent
  /\ \A c, d \in Coding : TestKey[c] = TestKey[d] => c = d  \* the id is in the key
  /\ \A r \in CodingRequests, c \in Coding : r.key # TestKey[c]  \* clients leave these keys alone
  /\ Attempts \in Nat \ {0} /\ MaxAnswers \in 0..Cardinality(FollowUp) /\ MaxExits \in Nat

VARIABLES
  lifecycle,   \* the completions that the dispatcher's lifecycle listener has still to apply
  completed,   \* the messages that wait for the engine
  looking,     \* the message it works on, how often it has looked
  ingress,     \* the Test tasks on their way to the dispatcher
  executing,   \* the Test task the dispatcher works on
  answers, exits,
  owed,        \* history: the coding tasks heard of and neither given up nor refused
  lapsed       \* history: an open Test has lost its key

busVars == <<lifecycle, completed, answers>>
engineVars == <<looking, ingress, executing>>
historyVars == <<owed, lapsed>>
workflowVars == <<storeVars, busVars, engineVars, exits, historyVars>>

Nothing == [task |-> NoTask, looks |-> 0]

WorkflowInit ==
  /\ StoreInit
  /\ lifecycle = <<>> /\ completed = <<>> /\ looking = Nothing
  /\ ingress = <<>> /\ executing = NoTask
  /\ answers = 0 /\ exits = 0 /\ owed = {} /\ lapsed = FALSE

-----------------------------------------------------------------------------
(* The coding tasks: a worker answers, perhaps twice, with one message for  *)
(* both listeners, either of which may be reconnecting; a session or the    *)
(* kernel itself writes the row first and then tells.                       *)

BusTerminal == {"DISPATCHED", "EXECUTING", "QUEUED", "NEEDS_HUMAN", "WAIT_TIMEOUT_REACHED"}

Heard(t) == completed' \in {completed, Append(completed, t)}

Order(r) == Admit(r) /\ UNCHANGED <<busVars, engineVars, exits, historyVars>>

Answer(c) ==
  /\ Exists(c) /\ answers < MaxAnswers
  /\ answers' = answers + 1
  /\ Heard(c) /\ lifecycle' \in {lifecycle, Append(lifecycle, c)}
  /\ UNCHANGED <<storeVars, engineVars, exits, historyVars>>

ApplyBusTerminal ==
  /\ lifecycle # <<>>
  /\ lifecycle' = Tail(lifecycle)
  /\ IF HasStatus(Head(lifecycle), BusTerminal)
     THEN CompleteWithResult(Head(lifecycle), "COMPLETED", TRUE, FALSE)
     ELSE UNCHANGED storeVars
  /\ UNCHANGED <<completed, answers, engineVars, exits, historyVars>>

WriteAndTell(c) ==
  /\ HasStatus(c, BusTerminal \ {"NEEDS_HUMAN"}) /\ answers < MaxAnswers
  /\ answers' = answers + 1
  /\ CompleteWithResult(c, "COMPLETED", TRUE, FALSE)
  /\ Heard(c)
  /\ UNCHANGED <<lifecycle, engineVars, exits, historyVars>>

CodingWrite(c) ==
  /\ \/ HasStatus(c, {"QUEUED"}) /\ SetStatus(c, "DISPATCHED")
     \/ MarkSilentNeedsHuman({c})
     \/ AbandonMustDeliver({c})
     \/ CancelTask(c, rows[c].session)
  /\ UNCHANGED <<busVars, engineVars, exits, historyVars>>

-----------------------------------------------------------------------------
(* The engine, one message at a time.                                      *)

Receive ==
  /\ looking = Nothing /\ completed # <<>>
  /\ looking' = [task |-> Head(completed), looks |-> 0]
  /\ completed' = Tail(completed)
  /\ owed' = owed \cup {Head(completed)}
  /\ UNCHANGED <<storeVars, lifecycle, answers, ingress, executing, exits, lapsed>>

(* Mutant of MayRetry: a row that is late is not waited for.                *)
MayRetryNever == FALSE
MayRetry == looking.looks + 1 < Attempts

(* The row does not say COMPLETED (yet): it is read again 200 ms later.     *)
LookAgain ==
  /\ looking # Nothing /\ ~HasStatus(looking.task, {"COMPLETED"})
  /\ looking' = IF MayRetry THEN [looking EXCEPT !.looks = @ + 1] ELSE Nothing
  /\ owed' = IF looking.looks + 1 = Attempts THEN owed \ {looking.task} ELSE owed
  /\ UNCHANGED <<storeVars, busVars, ingress, executing, exits, lapsed>>

(* Mutant of TestOf: the Test task is asked for without a key.              *)
TestWithoutKey(c, x) ==
  [id |-> x, parent |-> c, project |-> rows[c].project, key |-> NoKey,
   session |-> rows[c].session, target |-> Tester, must |-> FALSE]
TestOf(c, x) ==
  [id |-> x, parent |-> c, project |-> rows[c].project, key |-> TestKey[c],
   session |-> rows[c].session, target |-> Tester, must |-> FALSE]

Unused == {x \in FollowUp : ~Exists(x) /\ \A i \in DOMAIN ingress : ingress[i].id # x}

(* The Test task is built from the row alone.  (A message about a task of   *)
(* another kind ends here; the model has none.)                            *)
Plan ==
  /\ looking # Nothing /\ HasStatus(looking.task, {"COMPLETED"})
  /\ looking' = Nothing
  /\ ingress' = Append(ingress, TestOf(looking.task, CHOOSE x \in Unused : TRUE))
  /\ UNCHANGED <<storeVars, busVars, executing, exits, historyVars>>

-----------------------------------------------------------------------------
(* The dispatcher takes the next Test task when it is through with the one  *)
(* before: refused, as Lounge may be halted at any time, or a replay, or    *)
(* executed.                                                               *)
Take ==
  /\ executing = NoTask /\ ingress # <<>>
  /\ ingress' = Tail(ingress)
  /\ LET r == Head(ingress)
     IN \/ UNCHANGED <<storeVars, executing>> /\ owed' = owed \ {r.parent}
        \/ /\ Admit(r)
           /\ executing' = IF IsAccepted(r) THEN r.id ELSE NoTask
           /\ owed' = IF LineageOK(r) THEN owed ELSE owed \ {r.parent}
  /\ UNCHANGED <<busVars, looking, exits, lapsed>>

(* Its gates write the status whatever it has become meanwhile: a Test that *)
(* was cancelled, which gave its key back, may go on.                      *)
ExecuteTest ==
  /\ executing # NoTask
  /\ \/ \E s \in {"PENDING_APPROVAL", "QUEUED", "EXECUTING", "DISPATCHED"} :
          /\ SetStatus(executing, s)
          /\ executing' = IF s = "DISPATCHED" THEN NoTask ELSE executing
          /\ lapsed' = (lapsed \/ HasStatus(executing, Closed))
     \/ /\ CompleteWithResult(executing, "FAILED", FALSE, TRUE)
        /\ executing' = NoTask /\ UNCHANGED lapsed
     \/ /\ CompleteWithResult(executing, "COMPLETED", TRUE, FALSE)
        /\ executing' = NoTask /\ UNCHANGED lapsed
  /\ UNCHANGED <<busVars, looking, ingress, exits, owed>>

(* What else happens to a Test task: its worker's answer, the watchdog, the *)
(* user; and its key is collected after a day.                             *)
TestWrite(x) ==
  /\ \/ HasStatus(x, BusTerminal) /\ CompleteWithResult(x, "COMPLETED", TRUE, FALSE)
     \/ HasStatus(x, BusTerminal) /\ CompleteWithResult(x, "FAILED", FALSE, TRUE)
     \/ MarkSilentNeedsHuman({x})
     \/ CancelTask(x, rows[x].session)
  /\ UNCHANGED <<busVars, engineVars, exits, historyVars>>

CollectKey(c) ==
  /\ keys[TestKey[c]] # NoTask /\ GcKeys({TestKey[c]}) /\ lapsed' = TRUE
  /\ UNCHANGED <<busVars, engineVars, exits, owed>>

-----------------------------------------------------------------------------
(* What is on its way to a Test is nowhere but in memory.                   *)
Exit ==
  /\ exits < MaxExits /\ exits' = exits + 1
  /\ lifecycle' = <<>> /\ completed' = <<>> /\ looking' = Nothing
  /\ ingress' = <<>> /\ executing' = NoTask
  /\ owed' = {}
  /\ UNCHANGED <<storeVars, answers, lapsed>>

WorkflowNext ==
  \/ \E r \in CodingRequests : Order(r)
  \/ \E c \in Coding : Answer(c) \/ WriteAndTell(c) \/ CodingWrite(c) \/ CollectKey(c)
  \/ ApplyBusTerminal
  \/ Receive \/ LookAgain \/ Plan
  \/ Take \/ ExecuteTest \/ \E x \in FollowUp : TestWrite(x)
  \/ Exit

WorkflowSpec == WorkflowInit /\ [][WorkflowNext]_workflowVars

-----------------------------------------------------------------------------
(* However often a completion is told, a coding task has no two Test tasks  *)
(* at a time; unless the first has lost its key, a day old or cancelled and *)
(* gone on with.  (One that failed is done with, and may have a successor.) *)
TestsOf(c) == {x \in FollowUp : rows[x].parent = c}
OneOpenTest == ~lapsed => \A c \in Coding :
  Cardinality({x \in TestsOf(c) : HasStatus(x, Incomplete)}) <= 1

(* A completion the engine has heard of is followed by a Test, unless the   *)
(* row did not say so in time, or the Test was refused, or lost in an exit. *)
FollowedUp ==
  completed = <<>> /\ looking = Nothing /\ ingress = <<>> =>
    \A c \in owed : TestsOf(c) # {}
=============================================================================
